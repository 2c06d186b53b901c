-------------------------- MODULE CommissionEvents --------------------------
(***************************************************************************)
(* biz/commission: how a business event becomes earnings (service.go,      *)
(* lifecycle.go and the Store of memory.go).  Service.RecordEvent reads    *)
(* the program, its template and the attributions of its slots one after   *)
(* the other, without a lock, calculates, and commits with the versions it *)
(* has read; meanwhile tenants and the platform change all three.  Store   *)
(* operations run under one lock, so each is one step.                     *)
(*                                                                         *)
(* Facts stand for the payload of an event; which slots of a program earn  *)
(* anything on them is left to the constant Earns.  Amounts, identifiers   *)
(* and authorization are left out.                                         *)
(***************************************************************************)
EXTENDS Naturals, CommissionStates

CONSTANTS
    Recorders,        \* concurrent callers of RecordEvent
    Templates,      \* template versions
    Programs,       \* tenant programs
    TemplateOf,     \* program -> the template version it is made from
    Slots,          \* rule slots of a program
    Default,        \* slot -> the beneficiary of its rule
    Beneficiaries,  \* beneficiaries of rules and attributions
    Sources,        \* source type and identifier of an event
    Facts,          \* payloads
    Earns,          \* facts -> the slots whose tiers give a positive amount
    NoProgram, NoSource, NoFacts, NoBeneficiary,
    MaxTermVersion      \* bound on the versions of programs and attributions

ASSUME TermsAssumption ==
    /\ TemplateOf \in [Programs -> Templates]
    /\ Default \in [Slots -> Beneficiaries]
    /\ Earns \in [Facts -> SUBSET Slots]
ASSUME NamesAssumption ==
    /\ NoProgram \notin Programs /\ NoSource \notin Sources
    /\ NoFacts \notin Facts /\ NoBeneficiary \notin Beneficiaries

VARIABLES
    templates,     \* template -> status
    programs,      \* program -> status and version
    attributions,  \* program -> slot -> beneficiary, whether active, version
    events,        \* source -> the recorded event and whom its earnings pay
    recording,          \* client -> the RecordEvent call it is in
    reply          \* client -> the outcome of its last call

terms == <<templates, programs, attributions>>
eventsVars == <<templates, programs, attributions, events, recording, reply>>

NoAttribution == [beneficiary |-> NoBeneficiary, active |-> "no", version |-> 0]
NoEvent == [program |-> NoProgram, facts |-> NoFacts, pays |-> [s \in Slots |-> NoBeneficiary]]
NoRecording == [at |-> "idle", program |-> NoProgram, source |-> NoSource, facts |-> NoFacts,
           version |-> 0, slots |-> [s \in Slots |-> NoAttribution]]
NoReply == [result |-> "none", source |-> NoSource, event |-> NoEvent]

EventsInit ==
    /\ templates = [t \in Templates |-> "absent"]
    /\ programs = [p \in Programs |-> [status |-> "absent", version |-> 0]]
    /\ attributions = [p \in Programs |-> [s \in Slots |-> NoAttribution]]
    /\ events = [x \in Sources |-> NoEvent]
    /\ recording = [c \in Recorders |-> NoRecording]
    /\ reply = [c \in Recorders |-> NoReply]

-----------------------------------------------------------------------------
(* Templates, programs and attributions.  Each operation of the service    *)
(* checks its arguments and makes one call of the store, whose conditions  *)
(* under its lock are the guards here (MemoryStore, memory.go).            *)

\* A version that exists is refused.
CreateTemplate(t) ==
    /\ templates[t] = "absent"
    /\ templates' = [templates EXCEPT ![t] = "draft"]
    /\ UNCHANGED <<programs, attributions, events, recording, reply>>

TransitionTemplate(t) ==
    \E next \in {"active", "retired"} :
        /\ <<templates[t], next>> \in TemplateSteps
        /\ templates' = [templates EXCEPT ![t] = next]
        /\ UNCHANGED <<programs, attributions, events, recording, reply>>

\* A draft of version 1, within its template: what that admits is the subject of
\* CommissionFormula (validateProgramAgainstTemplate).
CreateProgram(p) ==
    /\ programs[p].status = "absent"
    /\ templates[TemplateOf[p]] # "absent"
    /\ programs' = [programs EXCEPT ![p] = [status |-> "draft", version |-> 1]]
    /\ UNCHANGED <<templates, attributions, events, recording, reply>>

\* With the version of the program the caller has read; another one changes
\* nothing.
TransitionProgram(p) ==
    \E next \in {"pending_approval", "active", "suspended", "retired"} :
        /\ programs[p].version < MaxTermVersion
        /\ <<programs[p].status, next>> \in ProgramSteps
        /\ next = "active" => templates[TemplateOf[p]] = "active"
        /\ programs' = [programs EXCEPT ![p] = [status |-> next, version |-> @.version + 1]]
        /\ UNCHANGED <<templates, attributions, events, recording, reply>>

\* Version 1 for a new attribution, the next one for an update; a caller that
\* expects another version changes nothing.
SetAttribution(p, s) ==
    \E b \in Beneficiaries, active \in {"yes", "no"} :
        /\ programs[p].status # "absent"
        /\ attributions[p][s].version < MaxTermVersion
        /\ attributions' = [attributions EXCEPT ![p][s] =
                              [beneficiary |-> b, active |-> active, version |-> @.version + 1]]
        /\ UNCHANGED <<templates, programs, events, recording, reply>>

-----------------------------------------------------------------------------
(* RecordEvent.                                                            *)

CallRecordEvent(c) ==
    \E p \in Programs, x \in Sources, f \in Facts :
        /\ recording[c].at = "idle"
        /\ recording' = [recording EXCEPT ![c] =
                            [at |-> "program", program |-> p, source |-> x, facts |-> f,
                             version |-> 0, slots |-> [s \in Slots |-> NoAttribution]]]
        /\ reply' = [reply EXCEPT ![c] = NoReply]
        /\ UNCHANGED <<terms, events>>

\* The call returns; what it recorded or found is the result.
Reply(c, result, event) ==
    /\ recording' = [recording EXCEPT ![c] = NoRecording]
    /\ reply' = [reply EXCEPT ![c] = [result |-> result, source |-> recording[c].source, event |-> event]]

\* A program that is missing or not active ends the call.
ReadProgram(c) ==
    LET k == recording[c]
        program == programs[k.program]
    IN /\ k.at = "program"
       /\ IF program.status = "active"
          THEN /\ recording' = [recording EXCEPT ![c].at = "template", ![c].version = program.version]
               /\ UNCHANGED reply
          ELSE Reply(c, "not_active", NoEvent)
       /\ UNCHANGED <<terms, events>>

ReadTemplate(c) ==
    /\ recording[c].at = "template"
    /\ IF templates[TemplateOf[recording[c].program]] = "active"
       THEN recording' = [recording EXCEPT ![c].at = "attributions"] /\ UNCHANGED reply
       ELSE Reply(c, "not_active", NoEvent)
    /\ UNCHANGED <<terms, events>>

\* Every slot of the program has a version: zero when it has no attribution
\* (attributionVersions).
ListAttributions(c) ==
    /\ recording[c].at = "attributions"
    /\ recording' = [recording EXCEPT ![c].at = "commit", ![c].slots = attributions[recording[c].program]]
    /\ UNCHANGED <<terms, events, reply>>

\* effectiveTemplate: an active attribution takes the place of the rule's
\* beneficiary.
Beneficiary(attribution, s) == IF attribution.active = "yes" THEN attribution.beneficiary ELSE Default[s]

\* Calculate and buildEventEntries: one earning for every slot that earns.
Payments(slots, facts) ==
    [s \in Slots |-> IF s \in Earns[facts] THEN Beneficiary(slots[s], s) ELSE NoBeneficiary]

\* Mutant of TermsUnchanged: the versions of the attributions are not compared.
TermsUnchangedButSlots(k) ==
    /\ programs[k.program].version = k.version
    /\ programs[k.program].status = "active"
    /\ templates[TemplateOf[k.program]] = "active"

\* validateCommitVersionsLocked
TermsUnchanged(k) ==
    /\ programs[k.program].version = k.version
    /\ programs[k.program].status = "active"
    /\ \A s \in Slots : attributions[k.program][s].version = k.slots[s].version
    /\ templates[TemplateOf[k.program]] = "active"

\* Mutant of CommitEvent: other facts of a recorded source replace its record.
CommitAgain(c) ==
    LET k == recording[c]
        event == [program |-> k.program, facts |-> k.facts, pays |-> Payments(k.slots, k.facts)]
    IN /\ k.at = "commit"
       /\ IF events[k.source].facts = k.facts
          THEN Reply(c, "recorded", events[k.source]) /\ UNCHANGED events
          ELSE IF TermsUnchanged(k)
          THEN Reply(c, "recorded", event) /\ events' = [events EXCEPT ![k.source] = event]
          ELSE Reply(c, "conflict", NoEvent) /\ UNCHANGED events
       /\ UNCHANGED terms

\* The same event again, with the same facts and program, has the original
\* earnings for a result; other facts or another program are ErrEventConflict.
CommitEvent(c) ==
    LET k == recording[c]
        event == [program |-> k.program, facts |-> k.facts, pays |-> Payments(k.slots, k.facts)]
    IN /\ k.at = "commit"
       /\ CASE events[k.source] # NoEvent ->
                 /\ IF events[k.source].facts = k.facts /\ events[k.source].program = k.program
                    THEN Reply(c, "recorded", events[k.source])
                    ELSE Reply(c, "conflict", NoEvent)
                 /\ UNCHANGED events
            [] events[k.source] = NoEvent /\ TermsUnchanged(k) ->
                 /\ Reply(c, "recorded", event)
                 /\ events' = [events EXCEPT ![k.source] = event]
            [] OTHER -> Reply(c, "conflict", NoEvent) /\ UNCHANGED events
       /\ UNCHANGED terms

\* Limits, an event type the template does not allow, a cap, an overflow or a
\* cancelled context end the call before it commits.
AbandonRecording(c) ==
    /\ recording[c].at # "idle"
    /\ Reply(c, "failed", NoEvent)
    /\ UNCHANGED <<terms, events>>

-----------------------------------------------------------------------------
Record(c) == \/ CallRecordEvent(c)
             \/ ReadProgram(c)
             \/ ReadTemplate(c)
             \/ ListAttributions(c)
             \/ CommitEvent(c)
             \/ AbandonRecording(c)

EventsNext ==
    \/ \E c \in Recorders : Record(c)
    \/ \E t \in Templates : CreateTemplate(t) \/ TransitionTemplate(t)
    \/ \E p \in Programs : CreateProgram(p) \/ TransitionProgram(p)
    \/ \E p \in Programs, s \in Slots : SetAttribution(p, s)

EventsSpec == EventsInit /\ [][EventsNext]_eventsVars

-----------------------------------------------------------------------------
Attributions == [beneficiary : Beneficiaries, active : {"yes", "no"}, version : Nat] \cup {NoAttribution}
RecordedEvents == [program : Programs, facts : Facts, pays : [Slots -> Beneficiaries \cup {NoBeneficiary}]]
             \cup {NoEvent}
Calls == [at : {"program", "template", "attributions", "commit"}, program : Programs, source : Sources,
          facts : Facts, version : Nat, slots : [Slots -> Attributions]]
Replies == [result : {"recorded", "conflict", "not_active", "failed"}, source : Sources, event : RecordedEvents]

\* Type invariant of the terms, the recorded events and the calls.
EventsTypeOK ==
    /\ templates \in [Templates -> {"absent", "draft", "active", "retired"}]
    /\ programs \in [Programs -> [status : {"absent", "draft", "pending_approval", "active", "suspended",
                                            "retired"}, version : Nat]]
    /\ attributions \in [Programs -> [Slots -> Attributions]]
    /\ events \in [Sources -> RecordedEvents]
    /\ recording \in [Recorders -> Calls \cup {NoRecording}]
    /\ reply \in [Recorders -> Replies \cup {NoReply}]

\* The terms of a program as they are: whom it pays for the facts.
CurrentPayments(p, f) == Payments(attributions[p], f)

\* An event is recorded only under an active program of an active template, and
\* its earnings pay whom the attributions name at that moment, although all of
\* them were read earlier and one after the other.
RecordedOnCurrentTerms ==
    [][\A x \in Sources : events[x] = NoEvent /\ events'[x] # NoEvent =>
           LET e == events'[x] IN
           /\ programs[e.program].status = "active"
           /\ templates[TemplateOf[e.program]] = "active"
           /\ e.pays = CurrentPayments(e.program, e.facts)]_eventsVars

\* However many callers repeat an event, at whatever time: everyone who is told
\* that it is recorded gets the same earnings, those the store holds.
OneSetOfEarnings ==
    \A c \in Recorders : reply[c].result = "recorded" =>
        reply[c].event # NoEvent /\ reply[c].event = events[reply[c].source]

\* A version of a program or of an attribution has one meaning: what a call has
\* read is what is stored under the same version.
VersionsIdentifyTerms ==
    \A c \in Recorders : recording[c].at = "commit" =>
        \A s \in Slots : recording[c].slots[s].version = attributions[recording[c].program][s].version =>
            recording[c].slots[s] = attributions[recording[c].program][s]

\* The strengthening that makes VersionsIdentifyTerms inductive: what a call has
\* read is never newer than what is stored.
ReadsAreOld ==
    \A c \in Recorders : recording[c].at = "commit" =>
        \A s \in Slots : recording[c].slots[s].version <= attributions[recording[c].program][s].version

\* What RecordEvent's comment says of repetition: "Repeating the same
\* tenant/source type/source ID returns the original earnings".
RepeatReturnsOriginal ==
    [][\A c \in Recorders :
         LET k == recording[c] IN
         /\ k.at # "idle" /\ reply'[c].result \in {"not_active", "conflict"}
         /\ events[k.source] # NoEvent
         => events[k.source].facts # k.facts \/ events[k.source].program # k.program]_eventsVars
=============================================================================
