------------------------------ MODULE SignOff ------------------------------
(***************************************************************************)
(* Human sign-off.  A person asks for an audit of one criterion or for the *)
(* acceptance of a feature, confirms, and a receipt is signed over what    *)
(* the workspace holds then; a gate counts a receipt only while what it    *)
(* was signed over is still there and its key is registered.  The person   *)
(* takes minutes and nothing is locked meanwhile; people, agents and git   *)
(* change specification, tests, code, authorship, registry and receipts.   *)
(*                                                                         *)
(* The workspace is a function from places to values; a digest is the      *)
(* part of that function it is computed from, a signature the key.         *)
(***************************************************************************)
EXTENDS FiniteSets, Naturals

CONSTANTS Shipped,      \* completed features
          Clause, Owner, \* their acceptance criteria, and whose each is
          Signer,       \* commands and requests that sign
          Issuer, SigningKey,
          Statement,    \* what a signer may be asked to sign
          Choice,       \* [Place -> what it may hold]
          FirstWorld, FirstRegistry,
          Removed,      \* a criterion that is not there
          Anonymous,    \* code nobody can be credited with
          NoKey, NoDesk, Unresolved,
          MaxSignings, MaxDisturbances \* bounds

VARIABLES world,    \* [Place -> value]
          registry, \* spec/trust/issuers.yaml: [Issuer -> key]
          store,    \* private keys of this machine
          receipts, \* spec/evidence
          asserted, \* the audit log's claims
          desk,     \* what each signer is doing
          signed,   \* history: what has been signed, and over what
          signings, disturbances \* counters for the bounds

signVars == <<world, registry, store, receipts, asserted, desk, signed,
              signings, disturbances>>

Place == ({"prose", "needs", "code", "author"} \X Shipped)
           \cup ({"clause", "tests"} \X Clause)

ASSUME SignOffAssumption ==
  /\ Owner \in [Clause -> Shipped]
  /\ \A s \in Statement :
       \/ s.claim = "audit" /\ s.about \in Clause
       \/ s.claim = "uat" /\ s.about \in Shipped
  /\ \A f \in Shipped : \A deps \in Choice[<<"needs", f>>] : deps \subseteq Shipped
  /\ FirstWorld \in [Place -> UNION {Choice[p] : p \in Place}]
  /\ FirstRegistry \in [Issuer -> SigningKey \cup {NoKey}]
  /\ NoKey \notin SigningKey
  /\ {MaxSignings, MaxDisturbances} \subseteq Nat
-----------------------------------------------------------------------------
(* What a receipt is signed over                                           *)

\* What the compiler reads.
SpecPlace == {x \in Place : x[1] \in {"prose", "needs", "clause"}}

Part(w, places) == [p \in places |-> w[p]]

Current(w, f) == {c \in Clause : Owner[c] = f /\ w[<<"clause", c>>] # Removed}

\* A feature and its prerequisites.
Reached(w, f) ==
  {g \in Shipped : \A S \in SUBSET Shipped :
     (f \in S /\ \A h \in S : w[<<"needs", h>>] \subseteq S) => g \in S}

\* A closure without the prerequisites.  Mutant.
OwnCode(w, f) == Part(w, {<<"code", f>>})

RuntimeClosure(w, f) == Part(w, {"code"} \X Reached(w, f))

AuthorMapping(w, f) == Part(w, {"author"} \X Reached(w, f))

ContractClosure(w, f) ==
  Part(w, {<<"prose", f>>, <<"needs", f>>} \cup ({"clause"} \X Current(w, f)))

SubjectClosure(w, c) == Part(w, {<<"prose", Owner[c]>>, <<"clause", c>>})

VerificationClosure(w, cs) == Part(w, {"tests"} \X cs)

\* An audit is about one criterion and not about its siblings, an acceptance
\* about the whole feature.  What cannot be resolved expects nothing.
Expected(w, claim, about) ==
  IF claim = "uat"
  THEN [subject |-> ContractClosure(w, about),
        inputs |-> VerificationClosure(w, Current(w, about)),
        runtime |-> RuntimeClosure(w, about),
        authors |-> AuthorMapping(w, about)]
  ELSE IF w[<<"clause", about>>] = Removed THEN Unresolved
  ELSE [subject |-> SubjectClosure(w, about),
        inputs |-> VerificationClosure(w, {about}),
        runtime |-> RuntimeClosure(w, Owner[about]),
        authors |-> AuthorMapping(w, Owner[about])]

\* The subject of a claim is in the specification.
Known(claim, about) == claim = "audit" => world[<<"clause", about>>] # Removed
-----------------------------------------------------------------------------
(* What a gate makes of the receipts it finds                              *)

\* Verified against the registry and the workspace as they are now.
Verified(r) ==
  /\ registry[r.issuer] = r.key
  /\ r.sealed = Expected(world, r.claim, r.about)

Claims(claim, about) ==
  {r \in receipts : r.claim = claim /\ r.about = about /\ Verified(r)}

\* A failed check outweighs every pass over the same contents.
ReducedClaims(claims, sufficient) ==
  IF \E r \in claims : r.failing # {} THEN "failed"
  ELSE IF sufficient # {} THEN "verified"
  ELSE "unverified"

Audit(c) == ReducedClaims(Claims("audit", c), Claims("audit", c))

\* An acceptance has to address every current criterion.
Uat(f) ==
  ReducedClaims(Claims("uat", f), {r \in Claims("uat", f) : r.matrix = Current(world, f)})

Credited(f) == {world[<<"author", g>>] : g \in Reached(world, f)}

\* Somebody else than the authors has audited every feature in scope.
Independent(scope) ==
  /\ scope # {}
  /\ \A f \in scope :
       /\ \E c \in Clause : \E r \in Claims("audit", c) :
            /\ Owner[c] = f
            /\ "independence" \notin r.failing
            /\ r.issuer \notin Credited(f)
       /\ Anonymous \notin Credited(f)
-----------------------------------------------------------------------------
SignInit ==
  /\ world = FirstWorld
  /\ registry = FirstRegistry
  /\ store = {FirstRegistry[i] : i \in Issuer} \ {NoKey}
  /\ receipts = {} /\ asserted = {} /\ signed = {}
  /\ desk = [p \in Signer |-> NoDesk]
  /\ signings = 0 /\ disturbances = 0

Sits(p, phase) == desk[p] # NoDesk /\ desk[p].phase = phase
Away(p) == desk' = [desk EXCEPT ![p] = NoDesk]

SubjectFeature(claim, about) == IF claim = "uat" THEN about ELSE Owner[about]
SubjectClauses(claim, about) ==
  IF claim = "uat" THEN {c \in Clause : Owner[c] = about} ELSE {about}

\* What somebody relies on who reviews a criterion, or a feature.
Relied(w, claim, about) ==
  LET f == SubjectFeature(claim, about)
      cs == SubjectClauses(claim, about)
  IN {<<"prose", f>>} \cup ({"clause"} \X cs)
       \cup ({"tests"} \X (cs \cap Current(w, f)))
       \cup ({"code", "author"} \X Reached(w, f))
       \cup (IF claim = "uat" THEN {<<"needs", f>>} ELSE {})

Seen(w, claim, about) == Part(w, Relied(w, claim, about))

\* The claim is recorded as asserted, whatever comes of the rest.
Assertion(p) ==
  /\ signings < MaxSignings
  /\ desk[p] = NoDesk
  /\ \E s \in Statement :
       /\ Known(s.claim, s.about)
       /\ asserted' = asserted \cup {<<s.claim, s.about>>}
       /\ desk' = [desk EXCEPT ![p] = [phase |-> "asked", says |-> s]]
  /\ signings' = signings + 1
  /\ UNCHANGED <<world, registry, store, receipts, signed, disturbances>>

\* The person types the feature's id; the issuer's key is looked up.
Confirm(p) ==
  /\ Sits(p, "asked")
  /\ LET s == desk[p].says IN
       /\ registry[s.issuer] \in store
       /\ desk' = [desk EXCEPT ![p] =
            [phase |-> "confirmed", says |-> s, key |-> registry[s.issuer],
             moved |-> FALSE, seen |-> Seen(world, s.claim, s.about)]]
  /\ UNCHANGED <<world, registry, store, receipts, asserted, signed, signings, disturbances>>

\* No, or nobody to ask, or no key; a process that dies.
Withdraw(p) ==
  /\ desk[p] # NoDesk
  /\ Away(p)
  /\ UNCHANGED <<world, registry, store, receipts, asserted, signed, signings, disturbances>>

\* The specification is read first, in one snapshot, then tests, code, authors.
Compile(p) ==
  /\ Sits(p, "confirmed")
  /\ desk' = [desk EXCEPT ![p] =
       [phase |-> "compiled", says |-> @.says, key |-> @.key, moved |-> @.moved,
        seen |-> @.seen, spec |-> Part(world, SpecPlace)]]
  /\ UNCHANGED <<world, registry, store, receipts, asserted, signed, signings, disturbances>>

Sign(p) ==
  /\ Sits(p, "compiled")
  /\ LET d == desk[p]
         w == [x \in Place |-> IF x \in SpecPlace THEN d.spec[x] ELSE world[x]]
         f == d.says.about
         matrix == IF d.says.claim = "uat" THEN Current(w, f) ELSE {}
         sealed == Expected(w, d.says.claim, d.says.about)
     IN /\ sealed # Unresolved
        /\ d.says.claim = "uat" => matrix # {}
        /\ desk' = [desk EXCEPT ![p] =
             [phase |-> "signed", moved |-> d.moved, seen |-> d.seen,
              receipt |-> [claim |-> d.says.claim, about |-> d.says.about,
                           issuer |-> d.says.issuer, failing |-> d.says.failing,
                           key |-> d.key, matrix |-> matrix, sealed |-> sealed]]]
  /\ UNCHANGED <<world, registry, store, receipts, asserted, signed, signings, disturbances>>

\* What ingestion looks at under the lock.
Ingestible(r) ==
  /\ Known(r.claim, r.about)
  /\ r.claim = "uat" => r.matrix \subseteq Current(world, r.about)

\* What it compares a local receipt with is what it was signed over.
Ingest(p) ==
  /\ Sits(p, "signed")
  /\ LET d == desk[p] IN
       /\ Ingestible(d.receipt)
       /\ receipts' = receipts \cup {d.receipt}
       /\ signed' = signed \cup
            {[receipt |-> d.receipt, seen |-> d.seen, moved |-> d.moved]}
  /\ Away(p)
  /\ UNCHANGED <<world, registry, store, asserted, signings, disturbances>>

\* `clad key create`; a name that is registered is refused.
Register(i) ==
  /\ registry[i] = NoKey
  /\ \E k \in SigningKey \ (store \cup {registry[j] : j \in Issuer}) :
       /\ registry' = [registry EXCEPT ![i] = k]
       /\ store' = store \cup {k}
  /\ UNCHANGED <<world, receipts, asserted, desk, signed, signings>>

\* A receipt from elsewhere.  One with an unknown key is kept as asserted, one
\* whose key is somebody else's is refused.
Deliver(r) ==
  /\ Ingestible(r)
  /\ \A i \in Issuer : registry[i] = r.key => i = r.issuer
  /\ Expected(world, r.claim, r.about) \in {Unresolved, r.sealed}
  /\ receipts' = receipts \cup {r}
  /\ UNCHANGED <<world, registry, store, asserted, desk, signed, signings, disturbances>>
-----------------------------------------------------------------------------
(* Everybody else                                                          *)

Change(x) ==
  /\ \E v \in Choice[x] \ {world[x]} : world' = [world EXCEPT ![x] = v]
  /\ desk' = [p \in Signer |->
       IF Sits(p, "confirmed") \/ Sits(p, "compiled") THEN [desk[p] EXCEPT !.moved = TRUE]
       ELSE desk[p]]
  /\ UNCHANGED <<registry, store, receipts, asserted, signed, signings>>

\* git changes the registry, or takes receipts away and brings them back.
CheckOut ==
  /\ \/ \E i \in Issuer : \E k \in (store \cup {NoKey}) \ {registry[j] : j \in Issuer} :
          /\ registry' = [registry EXCEPT ![i] = k]
          /\ UNCHANGED receipts
     \/ \E s \in signed :
          /\ receipts' = IF s.receipt \in receipts THEN receipts \ {s.receipt}
                         ELSE receipts \cup {s.receipt}
          /\ UNCHANGED registry
  /\ UNCHANGED <<world, store, asserted, desk, signed, signings>>

Disturb ==
  /\ disturbances < MaxDisturbances
  /\ disturbances' = disturbances + 1
  /\ \/ \E x \in Place : Change(x)
     \/ \E i \in Issuer : Register(i)
     \/ CheckOut

SignNext ==
  \/ \E p \in Signer : \/ Assertion(p) \/ Confirm(p) \/ Withdraw(p) \/ Compile(p)
                       \/ Sign(p) \/ Ingest(p)
  \/ \E s \in signed : Deliver(s.receipt)
  \/ Disturb

SignSpec == SignInit /\ [][SignNext]_signVars
-----------------------------------------------------------------------------
(* Properties                                                              *)

\* The receipts on file whose key is registered for their issuer.
Live(claim, about) ==
  {s \in signed : /\ s.receipt \in receipts
                  /\ s.receipt.claim = claim /\ s.receipt.about = about
                  /\ registry[s.receipt.issuer] = s.receipt.key}

\* Those confirmed over what is there now, and those over nobody knows what.
Here(claim, about) ==
  {s \in Live(claim, about) : ~s.moved /\ s.seen = Seen(world, claim, about)}
Blurred(claim, about) == {s \in Live(claim, about) : s.moved}

Faults(ss) == {s \in ss : s.receipt.failing # {}}

Stands(claim, about, verdict) ==
  LET here == Here(claim, about)
      perhaps == here \cup Blurred(claim, about)
  IN /\ verdict = "verified" => perhaps \ Faults(perhaps) # {} /\ Faults(here) = {}
     /\ verdict = "failed" => Faults(perhaps) # {}
     /\ verdict = "unverified" => here = {}

AuditStands == \A c \in Clause : Stands("audit", c, Audit(c))
UatStands == \A f \in Shipped : Stands("uat", f, Uat(f))

\* Nobody makes a scope independent who was an author when confirming.
LabelStands ==
  \A f \in Shipped : Independent({f}) =>
    \E c \in Clause : \E s \in Here("audit", c) \cup Blurred("audit", c) :
      /\ Owner[c] = f
      /\ s.moved \/ \A x \in DOMAIN s.seen :
           x[1] = "author" => s.seen[x] \notin {Anonymous, s.receipt.issuer}

\* A gate counts a sign-off for exactly what a person has confirmed: the
\* contents that person could see, unless they were changed between the
\* confirmation and the signature; by a key that is registered now; and
\* nobody's fail over the same contents is outvoted.  It is not lost because
\* something was filed beside it (workspace.ts:981).
SignOffStands == AuditStands /\ UatStands /\ LabelStands
=============================================================================
