----------------------------- MODULE PushLedger -----------------------------
(***************************************************************************)
(* The governor of the impact cards a host's hook pushes after an edit:    *)
(* one full card and one short reminder per fingerprint and session, and a *)
(* ceiling on the tokens a session is pushed.  Its ledger is one file      *)
(* shared by hook processes that run whenever the host edits; each reads   *)
(* it, decides, and writes it back without a lock.  A write that fails is  *)
(* swallowed: the card is shown and not recorded.                          *)
(***************************************************************************)
EXTENDS Integers

CONSTANTS Hook,        \* hook processes
          Session,     \* host sessions with an identifier
          NoId,        \* the host gives none: a window of time instead
          Fingerprint, \* feature and file of an edit
          NoLedger,    \* the file is missing or not (yet) readable
          NoLoad,      \* what a hook that does not run has loaded
          FreshCost, RepeatCost, \* tokens of a full card and a reminder
          Budget,
          MaxCalls, MaxWindows   \* bounds

VARIABLES ledger, \* the file
          hook,   \* what each process has in memory
          window, \* the current window of time
          shown,  \* history: what each session is shown
          slips,  \* history: how often its ledger was late or lost
          begun,  \* history: the sessions that had a hook
          calls   \* counter for the bound

ledgerVars == <<ledger, hook, window, shown, slips, begun, calls>>

\* A session with an identifier has one ledger, whatever the time.
Key == (Session \X {0}) \cup ({NoId} \X (0..MaxWindows))

LedgerRecord ==
  [key : Key, tokens : Nat, notice : BOOLEAN, seen : [Fingerprint -> Nat]]
HookRecord == [fp : Fingerprint, writing : BOOLEAN, led : LedgerRecord]

ASSUME LedgerAssumption ==
  /\ NoId \notin Session /\ NoLoad \notin HookRecord
  /\ {FreshCost, RepeatCost, Budget, MaxCalls, MaxWindows} \subseteq Nat

KeyOf(session) == <<session, IF session = NoId THEN window ELSE 0>>

Empty(key) == [key |-> key, tokens |-> 0, notice |-> FALSE,
               seen |-> [fp \in Fingerprint |-> 0]]

\* What is counted of the cards: each kind by fingerprint, the notices and
\* the tokens whatever the fingerprint.
Meter == {"fresh", "repeat", "notice", "tokens"} \X Fingerprint

LedgerInit ==
  /\ ledger = NoLedger
  /\ hook = [h \in Hook |-> NoLoad]
  /\ window = 0
  /\ shown = [k \in Key |-> [m \in Meter |-> 0]]
  /\ slips = [k \in Key |-> 0] /\ begun = {}
  /\ calls = 0

Card(led, fp) ==
  IF led.tokens > Budget THEN IF led.notice THEN "none" ELSE "notice"
  ELSE CASE led.seen[fp] = 0 -> "fresh"
         [] led.seen[fp] = 1 -> "repeat"
         [] OTHER -> "none"

Cost(card) ==
  CASE card = "fresh" -> FreshCost [] card = "repeat" -> RepeatCost [] OTHER -> 0

\* Mutant: a fingerprint is counted from its second card on.
RepeatsAreSeen(led, fp) ==
  IF led.tokens > Budget THEN [led EXCEPT !.notice = TRUE]
  ELSE [led EXCEPT !.tokens = @ + Cost(Card(led, fp)),
                   !.seen[fp] = IF @ = 0 THEN 0 ELSE @ + 1]

Governed(led, fp) ==
  IF led.tokens > Budget THEN [led EXCEPT !.notice = TRUE]
  ELSE [led EXCEPT !.tokens = @ + Cost(Card(led, fp)), !.seen[fp] = @ + 1]

Amount(card, fp, m) ==
  CASE m[1] = "tokens" -> Cost(card)
    [] m[1] = "notice" -> IF card = "notice" THEN 1 ELSE 0
    [] OTHER -> IF card = m[1] /\ fp = m[2] THEN 1 ELSE 0

Running == {h \in Hook : hook[h] # NoLoad}
Serving(key) == {h \in Running : hook[h].led.key = key}

\* loadPushLedger: another session, a window that has passed and a file
\* that does not parse all mean a new ledger.  The card that follows is
\* counted at once, and the load is a slip if another hook of the session
\* runs, or has run and what it wrote is no longer there.
Load(h, session, fp) ==
  LET key == KeyOf(session)
      lost == ledger = NoLedger \/ ledger.key # key
      led == IF lost THEN Empty(key) ELSE ledger
      late == Serving(key) # {} \/ (lost /\ key \in begun)
  IN
  /\ calls < MaxCalls
  /\ hook[h] = NoLoad
  /\ hook' = [hook EXCEPT ![h] = [fp |-> fp, writing |-> FALSE, led |-> led]]
  /\ shown' = [shown EXCEPT ![key] =
       [m \in Meter |-> @[m] + Amount(Card(led, fp), fp, m)]]
  /\ slips' = [slips EXCEPT ![key] = IF late THEN @ + 1 ELSE @]
  /\ begun' = begun \cup {key}
  /\ calls' = calls + 1
  /\ UNCHANGED <<ledger, window>>

\* writeFileSync truncates the file before it writes.
Open(h) ==
  /\ hook[h] # NoLoad /\ ~hook[h].writing
  /\ hook' = [hook EXCEPT ![h].writing = TRUE]
  /\ ledger' = NoLedger
  /\ UNCHANGED <<window, shown, slips, begun, calls>>

Ends(h) == hook' = [hook EXCEPT ![h] = NoLoad]

\* The ledger is written and the card returned to the host.  If another
\* hook's text was written meanwhile, the rest of it may remain.
Save(h) ==
  /\ hook[h] # NoLoad /\ hook[h].writing
  /\ \/ ledger' = Governed(hook[h].led, hook[h].fp)
     \/ ledger # NoLedger /\ ledger' = NoLedger
  /\ Ends(h)
  /\ UNCHANGED <<window, shown, slips, begun, calls>>

\* The file cannot be opened; the card is returned all the same.
Unopened(h) ==
  /\ hook[h] # NoLoad /\ ~hook[h].writing
  /\ slips' = [slips EXCEPT ![hook[h].led.key] = @ + 1]
  /\ Ends(h)
  /\ UNCHANGED <<ledger, window, shown, begun, calls>>

\* So it is if the write stops short, after the file was truncated.
Unwritten(h) ==
  /\ hook[h] # NoLoad /\ hook[h].writing
  /\ ledger' \in {ledger, NoLedger}
  /\ Ends(h)
  /\ UNCHANGED <<window, shown, slips, begun, calls>>

\* The host ends a hook that takes too long; its card is not shown.
Kill(h) ==
  /\ hook[h] # NoLoad
  /\ LET led == hook[h].led
         fp == hook[h].fp
     IN shown' = [shown EXCEPT ![led.key] =
                    [m \in Meter |-> @[m] - Amount(Card(led, fp), fp, m)]]
  /\ Ends(h)
  /\ UNCHANGED <<ledger, window, slips, begun, calls>>

\* Half an hour goes by since the window began.
Elapse ==
  /\ window < MaxWindows
  /\ window' = window + 1
  /\ UNCHANGED <<ledger, hook, shown, slips, begun, calls>>

LedgerNext ==
  \/ \E h \in Hook : \/ \E session \in Session \cup {NoId}, fp \in Fingerprint :
                          Load(h, session, fp)
                     \/ Open(h) \/ Save(h) \/ Unopened(h) \/ Unwritten(h)
                     \/ Kill(h)
  \/ Elapse

LedgerSpec == LedgerInit /\ [][LedgerNext]_ledgerVars
-----------------------------------------------------------------------------
LedgerTypeOK ==
  /\ window \in 0..MaxWindows /\ calls \in 0..MaxCalls
  /\ ledger \in LedgerRecord \cup {NoLedger}
  /\ hook \in [Hook -> HookRecord \cup {NoLoad}]
  /\ shown \in [Key -> [Meter -> Int]]
  /\ slips \in [Key -> Nat] /\ begun \subseteq Key

\* One card of each kind, and the ceiling, which a last card may overstep.
Most(m) ==
  IF m[1] # "tokens" THEN 1
  ELSE Budget + IF FreshCost > RepeatCost THEN FreshCost ELSE RepeatCost

\* In every interleaving of hooks, of one session and of several, the damage
\* is bounded: a session is shown one full card and one reminder for each
\* fingerprint, one notice and one ceiling of tokens, and at most as much
\* again for each time that a hook of it ran beside another, found the ledger
\* gone that an earlier one should have left, or could not open it.  A session
\* to which none of this happens has no card twice.
GovernorHolds ==
  \A k \in Key, m \in Meter : shown[k][m] <= (1 + slips[k]) * Most(m)
=============================================================================
