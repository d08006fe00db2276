----------------------------- MODULE Onboarding -----------------------------
(***************************************************************************)
(* The onboarding session: init drafts a design and questions, clarify     *)
(* answers one question at a time and has the design refined by a model,   *)
(* and what an author has touched meanwhile is not overwritten but         *)
(* proposed for review.  The model takes its time, the session is one      *)
(* unlocked file, and the design is the author's to edit at any moment.    *)
(*                                                                         *)
(* A body is the answers it reflects and the author's edits it keeps.      *)
(* Checks and writes that follow one another without a pause are one step, *)
(* unless what happens between them is told apart by a property.           *)
(***************************************************************************)
EXTENDS FiniteSets, Naturals, Sequences

CONSTANTS Command,      \* processes that run init, clarify or a review
          Artifact,     \* the design artifacts
          Context,     \* the one without a typed operation
          Question,
          FirstQuestions, NextQuestions, \* what a model may ask
          Missing,      \* no such file
          NoSession, NoJob,
          MaxBegun, MaxMixed, \* bounds: commands, and while they overlap
          MaxRewrites          \* bound: edits by the author

VARIABLES native,   \* schema 0.2; otherwise 0.1
          design,   \* the artifacts
          proposal, \* bodies that await review
          session,  \* the state file
          job,      \* what each command is doing
          told,     \* history: answers a command has accepted
          mixed,    \* history: two commands of this workspace overlapped
          late,     \* history: artifacts with an edit that a publication
                    \* may not notice, or with a review of another's draft
          unheard,  \* history: an answer was left out or never reviewed
          begun, rewrites  \* counters for the bounds

onboardVars == <<native, design, proposal, session, job, told, mixed, late,
                 unheard, begun, rewrites>>

ASSUME OnboardingAssumption ==
  /\ Context \in Artifact
  /\ FirstQuestions \cup NextQuestions \subseteq Seq(Question)
  /\ Missing \notin [answers : SUBSET Question, edits : SUBSET Nat]
  /\ {MaxBegun, MaxMixed, MaxRewrites} \subseteq Nat

Edits(body) == IF body = Missing THEN {} ELSE body.edits
Answers(body) == IF body = Missing THEN {} ELSE body.answers
-----------------------------------------------------------------------------
(* The state file                                                          *)

Captured == [a \in {b \in Artifact : design[b] # Missing} |-> design[a]]
NoDigests == [a \in {} |-> Missing]

Started(questions) ==
  [status |-> IF questions = <<>> THEN "done" ELSE "active",
   qa |-> questions, answered |-> {}, digests |-> NoDigests,
   review |-> {}, bases |-> NoDigests]

\* The questions that await an answer (firstPendingIndex takes the first).
Pending(s) == {i \in DOMAIN s.qa : s.qa[i] \notin s.answered}

\* appendNewQuestions: a question asked before is not asked again.
Appended(s, questions) ==
  LET qa[i \in 0..Len(questions)] ==
        IF i = 0 THEN s.qa
        ELSE IF \E j \in DOMAIN qa[i - 1] : qa[i - 1][j] = questions[i]
        THEN qa[i - 1] ELSE Append(qa[i - 1], questions[i])
  IN [s EXCEPT !.qa = qa[Len(questions)]]

\* artifactsAreUntouched: what was accepted last is still there.
Untouched(s) ==
  /\ DOMAIN s.digests # {}
  /\ \A a \in DOMAIN s.digests : design[a] = s.digests[a]
-----------------------------------------------------------------------------
Nothing == [a \in Artifact |-> Missing]
Drafted == [answers |-> {}, edits |-> {}]

\* A new workspace, or one whose design was drafted and not touched yet.
OnboardInit ==
  /\ native \in BOOLEAN
  /\ \/ design = Nothing /\ session = NoSession
     \/ /\ design = [a \in Artifact |-> Drafted]
        /\ \E questions \in FirstQuestions :
             session = [Started(questions) EXCEPT !.digests = Captured]
  /\ proposal = Nothing
  /\ job = [c \in Command |-> NoJob]
  /\ told = {} /\ mixed = FALSE /\ late = {} /\ unheard = FALSE
  /\ begun = 0 /\ rewrites = 0

Busy == {c \in Command : job[c] # NoJob}

Room == begun < IF mixed \/ Busy # {} THEN MaxMixed ELSE MaxBegun

Enter(c, work) ==
  /\ Room
  /\ job[c] = NoJob
  /\ job' = [job EXCEPT ![c] = work]
  /\ mixed' = (mixed \/ Busy # {})
  /\ begun' = begun + 1

In(c, phase) == job[c] # NoJob /\ job[c].phase = phase
Leave(c) == job' = [job EXCEPT ![c] = NoJob]
-----------------------------------------------------------------------------
(* init                                                                    *)

\* With an intent, runInit saves a new session before it writes any artifact.
Initialize(c) ==
  /\ \E questions \in FirstQuestions : session' = Started(questions)
  /\ Enter(c, [phase |-> "drafted", kind |-> "init", left |-> Artifact])
  /\ told' = {} /\ unheard' = FALSE
  /\ UNCHANGED <<native, design, proposal, late, rewrites>>

\* Without one, the session that is there stays as it is, a pending review
\* included.
Scaffold(c) ==
  /\ Enter(c, [phase |-> "drafted", kind |-> "scaffold", left |-> Artifact])
  /\ UNCHANGED <<native, design, proposal, session, told, late, unheard, rewrites>>

\* writeArtifact: what is there already gets a proposal beside it.
WriteArtifact(c) ==
  /\ In(c, "drafted")
  /\ \E a \in job[c].left :
       /\ IF design[a] = Missing
          THEN design' = [design EXCEPT ![a] = Drafted] /\ UNCHANGED proposal
          ELSE proposal' = [proposal EXCEPT ![a] = Drafted] /\ UNCHANGED design
       /\ job' = [job EXCEPT ![c].left = @ \ {a}]
  /\ UNCHANGED <<native, session, told, mixed, late, unheard, begun, rewrites>>

\* Only then is the design on disk recorded as accepted, in a new session.
CaptureFirst(c) ==
  /\ In(c, "drafted") /\ job[c].left = {}
  /\ session' = IF job[c].kind = "scaffold" THEN session
                ELSE [session EXCEPT !.digests = Captured]
  /\ Leave(c)
  /\ UNCHANGED <<native, design, proposal, told, mixed, late, unheard, begun, rewrites>>
-----------------------------------------------------------------------------
(* clarify                                                                 *)

\* The session and the design are read before the model is asked.  A host that
\* asks its own model is the case where both are still the same afterwards:
\* clad_clarify compares them with its briefing.
Ask(c) ==
  /\ session # NoSession /\ session.status # "done"
  /\ \E i \in Pending(session) :
       /\ \A j \in Pending(session) : i <= j
       /\ LET q == session.qa[i] IN
          Enter(c, [phase |-> "asking", kind |-> "question", was |-> session,
                    question |-> q,
                    state |-> [session EXCEPT !.answered = @ \cup {q}],
                    base |-> design])
  /\ UNCHANGED <<native, design, proposal, session, told, late, unheard, rewrites>>

\* Nothing is left to ask: the session is done, reviewed or not.
Close(c) ==
  /\ session # NoSession /\ session.status # "done"
  /\ Pending(session) = {}
  /\ session' = [session EXCEPT !.status = "done"]
  /\ Room /\ begun' = begun + 1
  /\ mixed' = (mixed \/ Busy # {})
  /\ unheard' = (unheard \/ session.review # {})
  /\ UNCHANGED <<native, design, proposal, job, told, late, rewrites>>

\* A model's response has a body for every artifact, or none for the
\* document; without a model the document gets the last answer as a footnote.
Refined(work, source) ==
  [a \in Artifact |->
     IF source = "model" \/ (source = "partial" /\ a # Context)
     THEN [answers |-> work.state.answered, edits |-> Edits(work.base[a])]
     ELSE IF source = "none" /\ a = Context
     THEN [answers |-> Answers(work.base[a]) \cup {work.question},
           edits |-> Edits(work.base[a])]
     ELSE work.base[a]]

\* Mutant: the base of a proposal is what is there when it is written.
BasesAtWriting(work) == design

\* captureReviewBases: the bytes the proposal was generated from.
ReviewBases(work) == work.base

\* The decision is taken on the design as it is after the model's answer.
Respond(c, source, questions) ==
  LET work == job[c]
      apply == Untouched(work.was)
      after == Appended(work.state, questions)
  IN
  /\ In(c, "asking")
  /\ job' = [job EXCEPT ![c] =
       [phase |-> IF ~apply THEN "propose" ELSE IF native THEN "typed" ELSE "publish",
        kind |-> IF apply THEN "refinement" ELSE "proposal",
        targets |-> Artifact, question |-> work.question, last |-> questions = <<>>,
        base |-> work.base, body |-> Refined(work, source),
        state |-> IF apply THEN after
                  ELSE [after EXCEPT !.status = "needs_review", !.review = Artifact,
                                     !.bases = ReviewBases(work)]]]
  /\ unheard' =
       (unheard \/ ~(work.state.answered \subseteq Answers(Refined(work, source)[Context])))
  /\ UNCHANGED <<native, design, proposal, session, told, mixed, late, begun, rewrites>>

Propose(c) ==
  /\ In(c, "propose")
  /\ proposal' = job[c].body
  /\ job' = [job EXCEPT ![c].phase = "save"]
  /\ UNCHANGED <<native, design, session, told, mixed, late, unheard, begun, rewrites>>
-----------------------------------------------------------------------------
(* A reviewed proposal                                                     *)

\* The proposal is there, and its target has the bytes recorded for it.
Applicable(a) == proposal[a] # Missing /\ design[a] = session.bases[a]

\* Those bytes are what the proposal was made from, unless commands overlap,
\* or an init has put a draft of its own in the proposal's place.
Foreign(targets) ==
  {a \in targets : mixed \/ Busy # {} \/ proposal[a] = Drafted}

Review(c, targets) ==
  /\ session # NoSession /\ session.status = "needs_review"
  /\ targets # {} /\ targets \subseteq session.review
  /\ \A a \in targets : Applicable(a)
  /\ late' = late \cup Foreign(targets)
  /\ unheard' = (unheard \/ /\ Context \in targets
                            /\ ~(told \subseteq Answers(proposal[Context])))
  /\ Enter(c, [phase |-> IF native THEN "typed" ELSE "publish", kind |-> "review",
               targets |-> targets, base |-> design, body |-> proposal,
               state |-> session])
  /\ UNCHANGED <<native, design, proposal, session, told, rewrites>>
-----------------------------------------------------------------------------
(* Publication                                                             *)

Unmoved(work, artifacts) == \A a \in artifacts : design[a] = work.base[a]

Put(work, artifacts) ==
  design' = [a \in Artifact |-> IF a \in artifacts THEN work.body[a] ELSE design[a]]

\* Schema 0.1: one journal, bound to the bytes the bodies were made from.
Publish(c) ==
  /\ In(c, "publish")
  /\ Unmoved(job[c], job[c].targets)
  /\ Put(job[c], job[c].targets)
  /\ job' = [job EXCEPT ![c].phase = "save"]
  /\ UNCHANGED <<native, proposal, session, told, mixed, late, unheard, begun, rewrites>>

\* Schema 0.2: typed operations first, against revisions read on the spot ...
PublishTyped(c) ==
  /\ In(c, "typed")
  /\ Unmoved(job[c], job[c].targets \cap {Context})
  /\ Put(job[c], job[c].targets \ {Context})
  /\ job' = [job EXCEPT ![c].phase = "document"]
  /\ UNCHANGED <<native, proposal, session, told, mixed, late, unheard, begun, rewrites>>

\* ... then the document, in a second journal and bound to its bytes.
PublishDocument(c) ==
  /\ In(c, "document")
  /\ Unmoved(job[c], job[c].targets \cap {Context})
  /\ Put(job[c], job[c].targets \cap {Context})
  /\ job' = [job EXCEPT ![c].phase = "save"]
  /\ UNCHANGED <<native, proposal, session, told, mixed, late, unheard, begun, rewrites>>

\* Refused, or the process dies: what it has written stays.
Abort(c) ==
  /\ job[c] # NoJob
  /\ Leave(c)
  /\ UNCHANGED <<native, design, proposal, session, told, mixed, late, unheard, begun, rewrites>>

\* Mutant: a review of some targets ends the review.
ReviewsAtOnce(state, targets) ==
  [state EXCEPT !.review = {}, !.bases = <<>>, !.digests = Captured,
                !.status = IF Pending(state) # {} THEN "active" ELSE "done"]

\* resolveOnboardingReview: the targets not yet reviewed keep their bases.
Reviewed(state, targets) ==
  LET rest == state.review \ targets IN
  [state EXCEPT !.review = rest, !.bases = [a \in rest |-> @[a]],
                !.digests = Captured,
                !.status = IF rest # {} THEN "needs_review"
                           ELSE IF Pending(state) # {} THEN "active" ELSE "done"]

\* A refinement applied to the design makes it the accepted one.
Answered(work) ==
  IF work.kind = "proposal" THEN work.state
  ELSE [work.state EXCEPT !.digests = Captured,
          !.status = IF work.last /\ Pending(work.state) = {} THEN "done" ELSE @]

SaveState(c) ==
  /\ In(c, "save")
  /\ LET work == job[c] IN
     IF work.kind = "review"
     THEN /\ session' = Reviewed(work.state, work.targets)
          /\ proposal' = [a \in Artifact |-> IF a \in work.targets THEN Missing
                                             ELSE proposal[a]]
          /\ UNCHANGED told
     ELSE /\ session' = Answered(work)
          /\ told' = told \cup {work.question}
          /\ UNCHANGED proposal
  /\ Leave(c)
  /\ UNCHANGED <<native, design, mixed, late, unheard, begun, rewrites>>
-----------------------------------------------------------------------------
\* What is typed is bound to revisions read on the spot, not to the text the
\* body was made from: an edit made before is not noticed then.  While the
\* model is asked it is noticed in what was accepted last, which a file that
\* was not there is no part of (artifactsAreUntouched).
Unguarded(c, a) ==
  \/ In(c, "typed") /\ a \in job[c].targets
  \/ native /\ In(c, "asking") /\ a \notin DOMAIN job[c].was.digests

\* The author, or anybody else, with an editor.
Rewrite(a) ==
  /\ rewrites < MaxRewrites
  /\ design' = [design EXCEPT ![a] = [answers |-> Answers(@),
                                     edits |-> Edits(@) \cup {rewrites + 1}]]
  /\ rewrites' = rewrites + 1
  /\ late' = IF a # Context /\ \E c \in Command : Unguarded(c, a)
             THEN late \cup {a} ELSE late
  /\ UNCHANGED <<native, proposal, session, job, told, mixed, unheard, begun>>

OnboardNext ==
  \/ \E c \in Command :
       \/ Initialize(c) \/ Scaffold(c) \/ WriteArtifact(c) \/ CaptureFirst(c)
       \/ Ask(c) \/ Close(c)
       \/ \E source \in {"model", "partial", "none"}, questions \in NextQuestions :
            Respond(c, source, questions)
       \/ Propose(c)
       \/ \E targets \in SUBSET Artifact : Review(c, targets)
       \/ Publish(c) \/ PublishTyped(c) \/ PublishDocument(c)
       \/ Abort(c) \/ SaveState(c)
  \/ \E a \in Artifact : Rewrite(a)

OnboardSpec == OnboardInit /\ [][OnboardNext]_onboardVars
-----------------------------------------------------------------------------
EditsStay(a) == Edits(design[a]) \subseteq Edits(design'[a])

\* Whatever a command applies, be it a refinement or a reviewed proposal, was
\* generated from a text that had everything the author has written into the
\* one it replaces.  The exceptions are late: of commands that overlap, one's
\* proposal may be reviewed against the other's base; an init without an intent
\* replaces the proposals and keeps the session, so that its drafts are
\* reviewed against bases they were not made from; and under schema 0.2 an edit
\* made after the decision to publish typed operations is not noticed, nor is a
\* file made while the model is asked (commitSchema02OnboardingArtifacts).
AuthorIsNotOverwritten == [][\A a \in Artifact \ late : EditsStay(a)]_onboardVars

\* A session that is done has every answer a command accepted in the design
\* document, unless commands overlapped, or an answer went unheard: a model
\* left the document out, the footnote written without a model is the last
\* answer's only, a proposal was reviewed that is older than the answer, and
\* clarify closes a session whose review is pending.
DoneReflectsAnswers ==
  session # NoSession /\ session.status = "done" /\ ~mixed /\ ~unheard
  => told \subseteq Answers(design[Context])
=============================================================================
