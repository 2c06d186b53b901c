---------------------- MODULE CommissionServiceProofs ----------------------
(***************************************************************************)
(* Proofs about the two halves of the commission service.                  *)
(* CommissionEvents: for any programs, templates, slots, callers and       *)
(* versions, an event that is recorded is recorded on the terms in force   *)
(* at that moment, and only once.  CommissionLedger: for any callers,      *)
(* earnings, settlements, freeze periods and provider behaviour, what an   *)
(* event has earned is claimed and paid once, and explained by the journal.*)
(***************************************************************************)
EXTENDS CommissionEvents, CommissionLedger, TLAPS

-----------------------------------------------------------------------------
(* Types.                                                                  *)

\* Whom a call pays is a beneficiary of the model, or nobody.
LEMMA PaymentsType ==
    ASSUME NEW slots \in [Slots -> Attributions], NEW f \in Facts
    PROVE  Payments(slots, f) \in [Slots -> Beneficiaries \cup {NoBeneficiary}]
BY TermsAssumption DEF Payments, Beneficiary, Attributions, NoAttribution

\* The initial state is well typed.
LEMMA InitType == EventsInit => EventsTypeOK
BY DEF EventsInit, EventsTypeOK, Attributions, RecordedEvents

\* A caller that is not idle is in a call of known type.
LEMMA CallType ==
    ASSUME EventsTypeOK, NEW c \in Recorders, recording[c].at # "idle"
    PROVE  recording[c] \in Calls
<1>1. recording[c] # NoRecording
  BY DEF NoRecording
<1> QED BY <1>1 DEF EventsTypeOK

\* A reply leaves the caller idle, with a result of known type.
LEMMA ReplyType ==
    ASSUME EventsTypeOK, NEW c \in Recorders, recording[c] \in Calls, NEW event \in RecordedEvents,
           NEW result \in {"recorded", "conflict", "not_active", "failed"}, Reply(c, result, event)
    PROVE  recording' \in [Recorders -> Calls \cup {NoRecording}] /\ reply' \in [Recorders -> Replies \cup {NoReply}]
<1>1. recording[c].source \in Sources
  BY DEF Calls
<1>2. [result |-> result, source |-> recording[c].source, event |-> event] \in Replies
  BY <1>1 DEF Replies
<1> QED BY <1>2 DEF Reply, EventsTypeOK

\* The steps of a call keep the types; CommitEvent is the one that writes.
LEMMA RecordType ==
    ASSUME EventsTypeOK, NEW c \in Recorders, Record(c)
    PROVE  EventsTypeOK'
<1>n. NoEvent \in RecordedEvents
  BY DEF RecordedEvents
<1>1. CASE CallRecordEvent(c)
  <2>1. PICK p \in Programs, x \in Sources, f \in Facts :
           /\ recording' = [recording EXCEPT ![c] = [at |-> "program", program |-> p, source |-> x, facts |-> f,
                                           version |-> 0, slots |-> [s \in Slots |-> NoAttribution]]]
           /\ reply' = [reply EXCEPT ![c] = NoReply]
           /\ UNCHANGED <<terms, events>>
    BY <1>1 DEF CallRecordEvent
  <2>2. [s \in Slots |-> NoAttribution] \in [Slots -> Attributions]
    BY DEF Attributions
  <2>3. [at |-> "program", program |-> p, source |-> x, facts |-> f, version |-> 0,
         slots |-> [s \in Slots |-> NoAttribution]] \in Calls
    BY <2>2 DEF Calls
  <2> QED BY <2>1, <2>3 DEF terms, EventsTypeOK
<1>2. CASE ReadProgram(c)
  <2>1. recording[c] \in Calls
    BY <1>2, CallType DEF ReadProgram
  <2>2. CASE Reply(c, "not_active", NoEvent)
    BY <1>n, <1>2, <2>1, <2>2, ReplyType DEF ReadProgram, terms, EventsTypeOK
  <2>3. CASE recording' = [recording EXCEPT ![c].at = "template", ![c].version = programs[recording[c].program].version]
               /\ UNCHANGED reply
    <3>1. programs[recording[c].program].version \in Nat
      BY <2>1 DEF Calls, EventsTypeOK
    <3>2. [recording[c] EXCEPT !.at = "template", !.version = programs[recording[c].program].version] \in Calls
      BY <2>1, <3>1 DEF Calls
    <3> QED BY <1>2, <2>3, <3>2 DEF ReadProgram, terms, EventsTypeOK
  <2> QED BY <1>2, <2>2, <2>3 DEF ReadProgram
<1>3. CASE ReadTemplate(c)
  <2>1. recording[c] \in Calls
    BY <1>3, CallType DEF ReadTemplate
  <2>2. CASE Reply(c, "not_active", NoEvent)
    BY <1>n, <1>3, <2>1, <2>2, ReplyType DEF ReadTemplate, terms, EventsTypeOK
  <2>3. CASE recording' = [recording EXCEPT ![c].at = "attributions"] /\ UNCHANGED reply
    <3>1. [recording[c] EXCEPT !.at = "attributions"] \in Calls
      BY <2>1 DEF Calls
    <3> QED BY <1>3, <2>3, <3>1 DEF ReadTemplate, terms, EventsTypeOK
  <2> QED BY <1>3, <2>2, <2>3 DEF ReadTemplate
<1>4. CASE ListAttributions(c)
  <2>1. recording[c] \in Calls
    BY <1>4, CallType DEF ListAttributions
  <2>2. attributions[recording[c].program] \in [Slots -> Attributions]
    BY <2>1 DEF Calls, EventsTypeOK
  <2>3. [recording[c] EXCEPT !.at = "commit", !.slots = attributions[recording[c].program]] \in Calls
    BY <2>1, <2>2 DEF Calls
  <2> QED BY <1>4, <2>3 DEF ListAttributions, terms, EventsTypeOK
<1>5. CASE CommitEvent(c)
  <2> DEFINE event == [program |-> recording[c].program, facts |-> recording[c].facts,
                       pays |-> Payments(recording[c].slots, recording[c].facts)]
  <2>1. recording[c] \in Calls
    BY <1>5, CallType DEF CommitEvent
  <2>2. event \in RecordedEvents
    <3>1. /\ recording[c].program \in Programs /\ recording[c].facts \in Facts
          /\ recording[c].slots \in [Slots -> Attributions]
      BY <2>1 DEF Calls
    <3> QED BY <3>1, PaymentsType DEF RecordedEvents
  <2>3. events[recording[c].source] \in RecordedEvents
    BY <2>1 DEF Calls, EventsTypeOK
  <2> HIDE DEF event
  <2>4. CASE Reply(c, "recorded", events[recording[c].source]) /\ UNCHANGED events
    BY <1>5, <2>1, <2>3, <2>4, ReplyType DEF CommitEvent, terms, EventsTypeOK
  <2>5. CASE Reply(c, "conflict", NoEvent) /\ UNCHANGED events
    BY <1>n, <1>5, <2>1, <2>5, ReplyType DEF CommitEvent, terms, EventsTypeOK
  <2>6. CASE Reply(c, "recorded", event) /\ events' = [events EXCEPT ![recording[c].source] = event]
    <3>1. UNCHANGED terms
      BY <1>5 DEF CommitEvent
    <3>2. events' \in [Sources -> RecordedEvents]
      BY <2>2, <2>6 DEF EventsTypeOK
    <3> QED BY <2>1, <2>2, <2>6, <3>1, <3>2, ReplyType DEF terms, EventsTypeOK
  <2> QED BY <1>5, <2>4, <2>5, <2>6 DEF CommitEvent, event
<1>6. CASE AbandonRecording(c)
  <2>1. recording[c] \in Calls
    BY <1>6, CallType DEF AbandonRecording
  <2> QED BY <1>n, <1>6, <2>1, ReplyType DEF AbandonRecording, terms, EventsTypeOK
<1> QED BY <1>1, <1>2, <1>3, <1>4, <1>5, <1>6 DEF Record

\* The changes of templates, programs and attributions keep the types.
LEMMA TermsType ==
    ASSUME EventsTypeOK,
           \/ \E t \in Templates : CreateTemplate(t) \/ TransitionTemplate(t)
           \/ \E p \in Programs : CreateProgram(p) \/ TransitionProgram(p)
           \/ \E p \in Programs, s \in Slots : SetAttribution(p, s)
    PROVE  EventsTypeOK'
<1> USE DEF EventsTypeOK
<1>1. CASE \E t \in Templates : CreateTemplate(t) \/ TransitionTemplate(t)
  BY <1>1 DEF CreateTemplate, TransitionTemplate
<1>2. CASE \E p \in Programs : CreateProgram(p)
  BY <1>2 DEF CreateProgram
<1>4. CASE \E p \in Programs : TransitionProgram(p)
  <2>1. PICK p \in Programs : TransitionProgram(p)
    BY <1>4
  <2>2. PICK next \in {"pending_approval", "active", "suspended", "retired"} :
           /\ programs' = [programs EXCEPT ![p] = [status |-> next, version |-> @.version + 1]]
           /\ UNCHANGED <<templates, attributions, events, recording, reply>>
    BY <2>1 DEF TransitionProgram
  <2>3. programs[p].version + 1 \in Nat
    OBVIOUS
  <2> QED BY <2>2, <2>3
<1>3. CASE \E p \in Programs, s \in Slots : SetAttribution(p, s)
  <2>1. PICK p \in Programs, s \in Slots : SetAttribution(p, s)
    BY <1>3
  <2>2. attributions[p][s].version + 1 \in Nat
    BY DEF Attributions, NoAttribution
  <2> QED BY <2>1, <2>2 DEF SetAttribution, Attributions
<1> QED BY <1>1, <1>2, <1>3, <1>4

\* Every step keeps the types.
LEMMA NextType == EventsTypeOK /\ [EventsNext]_eventsVars => EventsTypeOK'
<1> SUFFICES ASSUME EventsTypeOK, [EventsNext]_eventsVars PROVE EventsTypeOK'
  OBVIOUS
<1>1. CASE \E c \in Recorders : Record(c)
  BY <1>1, RecordType
<1>2. CASE \/ \E t \in Templates : CreateTemplate(t) \/ TransitionTemplate(t)
           \/ \E p \in Programs : CreateProgram(p) \/ TransitionProgram(p)
           \/ \E p \in Programs, s \in Slots : SetAttribution(p, s)
  BY <1>2, TermsType
<1>3. CASE UNCHANGED eventsVars
  BY <1>3 DEF eventsVars, EventsTypeOK
<1> QED BY <1>1, <1>2, <1>3 DEF EventsNext

\* The terms, the recorded events and the calls keep their types.
THEOREM EventsTypes == EventsSpec => []EventsTypeOK
BY InitType, NextType, PTL DEF EventsSpec

-----------------------------------------------------------------------------
(* What the versions say.                                                  *)

\* A step of a caller other than c leaves c's call alone.
LEMMA OtherCall ==
    ASSUME EventsTypeOK, NEW c \in Recorders, NEW d \in Recorders, c # d, Record(d)
    PROVE  recording'[c] = recording[c]
BY DEF EventsTypeOK, Record, CallRecordEvent, ReadProgram, ReadTemplate, ListAttributions, CommitEvent, AbandonRecording,
       Reply

\* A call is at its commit only by ListAttributions, and keeps what it has read.
LEMMA OwnCall ==
    ASSUME EventsTypeOK, NEW c \in Recorders, Record(c), recording'[c].at = "commit"
    PROVE  /\ recording'[c].slots = attributions[recording'[c].program]
           /\ recording'[c].slots \in [Slots -> Attributions]
<1>1. CASE ListAttributions(c)
  <2>1. recording[c] \in Calls
    BY <1>1, CallType DEF ListAttributions
  <2>2. recording'[c] = [recording[c] EXCEPT !.at = "commit", !.slots = attributions[recording[c].program]]
    BY <1>1 DEF ListAttributions, EventsTypeOK
  <2>3. recording'[c].program = recording[c].program /\ recording'[c].slots = attributions[recording[c].program]
    BY <2>1, <2>2 DEF Calls
  <2>4. attributions[recording[c].program] \in [Slots -> Attributions]
    BY <2>1 DEF Calls, EventsTypeOK
  <2> QED BY <2>3, <2>4
<1>2. CASE CallRecordEvent(c)
  BY <1>2 DEF CallRecordEvent, EventsTypeOK
<1>3. CASE ReadProgram(c)
  BY <1>3, CallType DEF ReadProgram, Reply, NoRecording, EventsTypeOK, Calls
<1>4. CASE ReadTemplate(c)
  BY <1>4, CallType DEF ReadTemplate, Reply, NoRecording, EventsTypeOK, Calls
<1>5. CASE CommitEvent(c)
  BY <1>5 DEF CommitEvent, Reply, NoRecording, EventsTypeOK
<1>6. CASE AbandonRecording(c)
  BY <1>6 DEF AbandonRecording, Reply, NoRecording, EventsTypeOK
<1> QED BY <1>1, <1>2, <1>3, <1>4, <1>5, <1>6 DEF Record

\* An attribution changes only to a higher version.
LEMMA AttributionStep ==
    ASSUME EventsTypeOK, [EventsNext]_eventsVars, NEW p \in Programs, NEW s \in Slots
    PROVE  \/ attributions'[p][s] = attributions[p][s]
           \/ /\ attributions[p][s].version \in Nat
              /\ attributions'[p][s].version = attributions[p][s].version + 1
<1>1. attributions[p][s].version \in Nat
  BY DEF EventsTypeOK, Attributions, NoAttribution
<1>2. CASE \E q \in Programs, t \in Slots : SetAttribution(q, t)
  <2>1. PICK q \in Programs, t \in Slots, b \in Beneficiaries, active \in {"yes", "no"} :
           attributions' = [attributions EXCEPT ![q][t] =
                              [beneficiary |-> b, active |-> active, version |-> @.version + 1]]
    BY <1>2 DEF SetAttribution
  <2> QED BY <1>1, <2>1 DEF EventsTypeOK
<1>3. CASE UNCHANGED attributions
  BY <1>3
<1> QED
  BY <1>2, <1>3 DEF EventsNext, eventsVars, terms, Record, CallRecordEvent, ReadProgram, ReadTemplate, ListAttributions,
     CommitEvent, AbandonRecording, CreateTemplate, TransitionTemplate, CreateProgram, TransitionProgram

\* Reads are old and their versions identify them, after every step.
LEMMA VersionsStep ==
    EventsTypeOK /\ ReadsAreOld /\ VersionsIdentifyTerms /\ [EventsNext]_eventsVars
        => ReadsAreOld' /\ VersionsIdentifyTerms'
<1> SUFFICES ASSUME EventsTypeOK, ReadsAreOld, VersionsIdentifyTerms, [EventsNext]_eventsVars,
                    NEW c \in Recorders, recording'[c].at = "commit", NEW s \in Slots
             PROVE  /\ recording'[c].slots[s].version <= attributions'[recording'[c].program][s].version
                    /\ recording'[c].slots[s].version = attributions'[recording'[c].program][s].version
                         => recording'[c].slots[s] = attributions'[recording'[c].program][s]
  BY DEF ReadsAreOld, VersionsIdentifyTerms
<1>1. CASE Record(c)
  <2>1. /\ recording'[c].slots = attributions[recording'[c].program]
        /\ recording'[c].slots \in [Slots -> Attributions]
    BY <1>1, OwnCall
  <2>2. UNCHANGED attributions
    BY <1>1 DEF terms, Record, CallRecordEvent, ReadProgram, ReadTemplate, ListAttributions, CommitEvent,
       AbandonRecording
  <2>3. recording'[c].slots[s].version \in Nat
    BY <2>1 DEF Attributions, NoAttribution
  <2> QED BY <2>1, <2>2, <2>3
<1>2. CASE ~Record(c)
  <2>1. recording'[c] = recording[c]
    BY <1>2, OtherCall DEF EventsNext, eventsVars, CreateTemplate, TransitionTemplate, CreateProgram, TransitionProgram,
       SetAttribution
  <2>2. recording[c] \in Calls
    BY <2>1, CallType
  <2>3. recording[c].program \in Programs /\ recording[c].slots[s] \in Attributions
    BY <2>2 DEF Calls
  <2>4. recording[c].slots[s].version \in Nat
    BY <2>3 DEF Attributions, NoAttribution
  <2>5. /\ recording[c].slots[s].version <= attributions[recording[c].program][s].version
        /\ recording[c].slots[s].version = attributions[recording[c].program][s].version
             => recording[c].slots[s] = attributions[recording[c].program][s]
    BY <2>1 DEF ReadsAreOld, VersionsIdentifyTerms
  <2>6. \/ attributions'[recording[c].program][s] = attributions[recording[c].program][s]
        \/ /\ attributions[recording[c].program][s].version \in Nat
           /\ attributions'[recording[c].program][s].version = attributions[recording[c].program][s].version + 1
    BY <2>3, AttributionStep
  <2> QED BY <2>1, <2>4, <2>5, <2>6
<1> QED BY <1>1, <1>2

\* The version of an attribution has one meaning: what RecordEvent has listed is
\* what is stored under the same version.
THEOREM TermVersions == EventsSpec => []VersionsIdentifyTerms
<1>1. EventsInit => ReadsAreOld /\ VersionsIdentifyTerms
  BY DEF EventsInit, ReadsAreOld, VersionsIdentifyTerms, NoRecording
<1> QED BY <1>1, EventsTypes, VersionsStep, PTL DEF EventsSpec

-----------------------------------------------------------------------------
(* What is recorded.                                                       *)

\* Only CommitEvent records an event, and only on unchanged terms.
LEMMA WhoRecords ==
    ASSUME EventsTypeOK, [EventsNext]_eventsVars, NEW x \in Sources, events'[x] # events[x]
    PROVE  \E c \in Recorders :
             /\ recording[c].at = "commit" /\ recording[c].source = x /\ events[x] = NoEvent
             /\ TermsUnchanged(recording[c])
             /\ events'[x] = [program |-> recording[c].program, facts |-> recording[c].facts,
                              pays |-> Payments(recording[c].slots, recording[c].facts)]
<1>1. PICK c \in Recorders : CommitEvent(c)
  BY DEF EventsNext, eventsVars, terms, Record, CallRecordEvent, ReadProgram, ReadTemplate, ListAttributions, AbandonRecording,
     CreateTemplate, TransitionTemplate, CreateProgram, TransitionProgram, SetAttribution
<1>2. recording[c] \in Calls
  BY <1>1, CallType DEF CommitEvent
<1>3. /\ recording[c].at = "commit" /\ events[recording[c].source] = NoEvent /\ TermsUnchanged(recording[c])
      /\ events' = [events EXCEPT ![recording[c].source] =
                      [program |-> recording[c].program, facts |-> recording[c].facts,
                       pays |-> Payments(recording[c].slots, recording[c].facts)]]
  BY <1>1 DEF CommitEvent
<1>4. recording[c].source = x
  BY <1>2, <1>3 DEF EventsTypeOK, Calls
<1> QED BY <1>3, <1>4 DEF EventsTypeOK

\* Nothing recorded is ever replaced.
LEMMA RecordedOnce ==
    ASSUME EventsTypeOK, [EventsNext]_eventsVars, NEW x \in Sources, events[x] # NoEvent
    PROVE  events'[x] = events[x]
BY WhoRecords

\* An event is recorded on the terms in force when it is recorded, although
\* RecordEvent has read them one after the other, earlier, without a lock.
THEOREM CurrentTerms == EventsSpec => RecordedOnCurrentTerms
<1>1. EventsTypeOK /\ VersionsIdentifyTerms /\ [EventsNext]_eventsVars
        => [\A x \in Sources : events[x] = NoEvent /\ events'[x] # NoEvent =>
               LET e == events'[x] IN
               /\ programs[e.program].status = "active"
               /\ templates[TemplateOf[e.program]] = "active"
               /\ e.pays = CurrentPayments(e.program, e.facts)]_eventsVars
  <2> SUFFICES ASSUME EventsTypeOK, VersionsIdentifyTerms, [EventsNext]_eventsVars, NEW x \in Sources,
                      events[x] = NoEvent, events'[x] # NoEvent
               PROVE  /\ programs[events'[x].program].status = "active"
                      /\ templates[TemplateOf[events'[x].program]] = "active"
                      /\ events'[x].pays = CurrentPayments(events'[x].program, events'[x].facts)
    OBVIOUS
  <2>1. PICK c \in Recorders :
           /\ recording[c].at = "commit" /\ TermsUnchanged(recording[c])
           /\ events'[x] = [program |-> recording[c].program, facts |-> recording[c].facts,
                            pays |-> Payments(recording[c].slots, recording[c].facts)]
    BY WhoRecords
  <2>2. \A s \in Slots : recording[c].slots[s] = attributions[recording[c].program][s]
    BY <2>1 DEF TermsUnchanged, VersionsIdentifyTerms
  <2>3. Payments(recording[c].slots, recording[c].facts) = CurrentPayments(recording[c].program, recording[c].facts)
    BY <2>2 DEF Payments, CurrentPayments
  <2> QED BY <2>1, <2>3 DEF TermsUnchanged
<1> QED BY <1>1, EventsTypes, TermVersions, PTL DEF EventsSpec, RecordedOnCurrentTerms

\* Everyone who is told that an event is recorded has been given the earnings
\* the store holds, after any number of repetitions.
THEOREM OneRecord == EventsSpec => []OneSetOfEarnings
<1>1. EventsInit => OneSetOfEarnings
  BY DEF EventsInit, OneSetOfEarnings, NoReply
<1>2. EventsTypeOK /\ OneSetOfEarnings /\ [EventsNext]_eventsVars => OneSetOfEarnings'
  <2> SUFFICES ASSUME EventsTypeOK, OneSetOfEarnings, [EventsNext]_eventsVars, NEW c \in Recorders,
                      reply'[c].result = "recorded"
               PROVE  reply'[c].event # NoEvent /\ reply'[c].event = events'[reply'[c].source]
    BY DEF OneSetOfEarnings
  <2>1. CASE reply'[c] = reply[c]
    <3>1. reply[c].event # NoEvent /\ reply[c].event = events[reply[c].source]
      BY <2>1 DEF OneSetOfEarnings
    <3>2. reply[c].source \in Sources
      BY <2>1 DEF EventsTypeOK, NoReply, Replies
    <3>3. events'[reply[c].source] = events[reply[c].source]
      BY <3>1, <3>2, RecordedOnce
    <3> QED BY <2>1, <3>1, <3>3
  <2>2. CASE reply'[c] # reply[c]
    <3>1. CommitEvent(c)
      <4>1. PICK d \in Recorders : Record(d)
        BY <2>2 DEF EventsNext, eventsVars, CreateTemplate, TransitionTemplate, CreateProgram, TransitionProgram,
           SetAttribution
      <4>2. d = c
        BY <2>2, <4>1 DEF EventsTypeOK, Record, CallRecordEvent, ReadProgram, ReadTemplate, ListAttributions,
           CommitEvent, AbandonRecording, Reply
      <4>3. ~CallRecordEvent(c)
        BY DEF CallRecordEvent, EventsTypeOK, NoReply
      <4>4. ~ReadProgram(c)
        BY <2>2 DEF ReadProgram, Reply, EventsTypeOK
      <4>5. ~ReadTemplate(c) /\ ~ListAttributions(c)
        BY <2>2 DEF ReadTemplate, ListAttributions, Reply, EventsTypeOK
      <4>6. ~AbandonRecording(c)
        BY DEF AbandonRecording, Reply, EventsTypeOK
      <4> QED BY <4>1, <4>2, <4>3, <4>4, <4>5, <4>6 DEF Record
    <3>2. recording[c] \in Calls
      BY <3>1, CallType DEF CommitEvent
    <3>3. recording[c].source \in Sources /\ recording[c].program \in Programs
      BY <3>2 DEF Calls
    <3>4. reply'[c].source = recording[c].source
      BY <3>1 DEF CommitEvent, Reply, EventsTypeOK
    <3>5. CASE events[recording[c].source] # NoEvent
      <4>1. reply'[c].event = events[recording[c].source] /\ UNCHANGED events
        BY <2>2, <3>1, <3>5 DEF CommitEvent, Reply, EventsTypeOK
      <4> QED BY <3>4, <3>5, <4>1
    <3>6. CASE events[recording[c].source] = NoEvent
      <4>1. /\ reply'[c].event = [program |-> recording[c].program, facts |-> recording[c].facts,
                                  pays |-> Payments(recording[c].slots, recording[c].facts)]
            /\ events' = [events EXCEPT ![recording[c].source] = reply'[c].event]
        BY <2>2, <3>1, <3>6 DEF CommitEvent, Reply, EventsTypeOK
      <4>2. reply'[c].event.program \in Programs
        BY <3>3, <4>1
      <4>3. reply'[c].event # NoEvent
        BY <4>2, NamesAssumption DEF NoEvent
      <4>4. events'[recording[c].source] = reply'[c].event
        BY <3>3, <4>1 DEF EventsTypeOK
      <4> QED BY <3>4, <4>3, <4>4
    <3> QED BY <3>5, <3>6
  <2> QED BY <2>1, <2>2
<1> QED BY <1>1, <1>2, EventsTypes, PTL DEF EventsSpec

-----------------------------------------------------------------------------
(* The ledger.                                                             *)

(* TransitionEarning of state.go: a permitted action leads from a status to a *)
(* status, never from or to a missing earning.                                *)
LEMMA StatusStep ==
  ASSUME NEW status, NEW action, NextStatus(status, action) # "invalid"
  PROVE  status \in EarningStatuses /\ NextStatus(status, action) \in EarningStatuses
  BY DEF NextStatus, EarningStatuses

(* The kind of the journal entry of a transition explains the status it      *)
(* leads to.                                                                  *)
LEMMA KindExplains ==
  ASSUME NEW status, NEW action, NextStatus(status, action) # "invalid",
         action # "start_settlement"
  PROVE  /\ JournalKind(action, NextStatus(status, action)) = Explains(NextStatus(status, action))
         /\ JournalKind(action, NextStatus(status, action)) \in Kinds
  BY DEF NextStatus, JournalKind, Explains, Kinds

(* What newEarningTransition makes of a set of earnings is well typed.       *)
LEMMA TransitionTypes ==
  ASSUME earnings \in [Earnings -> EarningStates], NEW S \in SUBSET Earnings, NEW action,
         \A e \in S : NextStatus(earnings[e].status, action) # "invalid"
  PROVE  /\ Transitioned(S, action) \in [Earnings -> EarningStates]
         /\ action # "start_settlement" =>
              /\ Entries(S, action) \subseteq [earning : Earnings, kind : Kinds, version : Nat]
              /\ Events(S, action) \subseteq
                   [aggregate : {"earning", "settlement"}, id : Earnings \cup Settlements,
                    type : EarningStatuses \cup {"submitted", "rejected"}, version : Nat]
  <1> USE DEF EarningStates, NoEarning
  <1>1. \A e \in S : /\ NextStatus(earnings[e].status, action) \in EarningStatuses
                     /\ earnings[e].version + 1 \in Nat
    BY StatusStep
  <1>2. action # "start_settlement" =>
           \A e \in S : JournalKind(action, NextStatus(earnings[e].status, action)) \in Kinds
    BY KindExplains
  <1>3. Transitioned(S, action) \in [Earnings -> EarningStates]
    BY <1>1 DEF Transitioned
  <1>4. ASSUME action # "start_settlement"
        PROVE  Entries(S, action) \subseteq [earning : Earnings, kind : Kinds, version : Nat]
    BY <1>1, <1>2, <1>4 DEF Entries
  <1>5. Events(S, action) \subseteq
          [aggregate : {"earning", "settlement"}, id : Earnings \cup Settlements,
           type : EarningStatuses \cup {"submitted", "rejected"}, version : Nat]
    BY <1>1 DEF Events, Event
  <1> QED
    BY <1>3, <1>4, <1>5

-----------------------------------------------------------------------------
(* The calls the operations leave behind.                                    *)
LEMMA NoCallType == NoCall \in CallStates
  BY DEF NoCall, CallStates, EarningStates

\* The call that is about to submit a settlement is well typed.
LEMMA SubmitType ==
  ASSUME NEW s \in Settlements
  PROVE  [NoCall EXCEPT !.op = "submit", !.id = s] \in CallStates
  BY NoCallType DEF NoCall, CallStates

\* The calls that are about to report a decision are well typed.
LEMMA CompletionType ==
  ASSUME NEW s \in Settlements, NEW decision, NEW k \in Completions(s, decision)
  PROVE  /\ k \in CallStates
         /\ k.op = "complete" /\ k.id = s /\ k.seen = NoCall.seen
         /\ k.action = IF decision = "paid" THEN "settle" ELSE "reject_settlement"
  <1>1. PICK r \in References \cup {NoReference} :
           k = [NoCall EXCEPT !.op = "complete", !.id = s, !.reference = r,
                  !.action = IF decision = "paid" THEN "settle" ELSE "reject_settlement"]
    BY DEF Completions
  <1>2. k = [op |-> "complete", seen |-> NoCall.seen, id |-> s, reference |-> r,
             action |-> IF decision = "paid" THEN "settle" ELSE "reject_settlement"]
    BY <1>1 DEF NoCall
  <1> QED
    BY <1>2, NoCallType DEF CallStates

\* The empty ledger is well typed.
LEMMA TypeInit == Init => TypeOK
  BY NoCallType DEF Init, TypeOK, EarningStates, NoEarning, NoBatch, Batches

\* Every step of callers, host, provider and clock keeps the types.
LEMMA TypeStep == TypeOK /\ [Next]_vars => TypeOK'
  <1> SUFFICES ASSUME TypeOK, [Next]_vars PROVE TypeOK'
    OBVIOUS
  <1>0. earnings \in [Earnings -> EarningStates]
    BY DEF TypeOK
  <1> USE DEF TypeOK
  <1>a. ASSUME NEW c \in Clients, NEW k \in CallStates, call' = [call EXCEPT ![c] = k]
        PROVE  call' \in [Clients -> CallStates]
    BY <1>a
  <1>1. ASSUME NEW c \in Clients, GetEarning(c) PROVE TypeOK'
    <2>1. PICK e \in Earnings : /\ call[c].op \in {"none", "read"}
                                /\ call' = [call EXCEPT ![c].op = "read", ![c].seen[e] = earnings[e]]
      BY <1>1 DEF GetEarning
    <2>2. [call[c] EXCEPT !.op = "read", !.seen[e] = earnings[e]] \in CallStates
      <3>1. call[c] \in CallStates
        OBVIOUS
      <3> HIDE DEF TypeOK
      <3> QED BY <1>0, <3>1 DEF CallStates
    <2> QED
      BY <1>1, <2>1, <2>2 DEF GetEarning
  <1>2. ASSUME NEW c \in Clients, NEW s \in Settlements, CallComplete(c, s) PROVE TypeOK'
    <2>1. PICK k \in Completions(s, provider[s]) : call' = [call EXCEPT ![c] = k]
      BY <1>2 DEF CallComplete
    <2>2. call' \in [Clients -> CallStates]
      BY <1>a, <2>1, CompletionType
    <2> QED
      BY <1>2, <2>2 DEF CallComplete
  <1>3. ASSUME NEW c \in Clients, Abandon(c) \/ FinishRepeated(c) PROVE TypeOK'
    <2>1. call' \in [Clients -> CallStates]
      BY <1>3, <1>a, NoCallType DEF Abandon, FinishRepeated, Return
    <2> QED
      BY <1>3, <2>1 DEF Abandon, FinishRepeated
  <1>4. ASSUME NEW c \in Clients, TransitionEarning(c) PROVE TypeOK'
    <2>1. PICK a \in ManualActions : /\ ApplyTransitions(Seen(c), a, {})
                                     /\ Return(c)
                                     /\ UNCHANGED <<settlements, provider, now>>
      BY <1>4 DEF TransitionEarning
    <2>2. a # "start_settlement" /\ Seen(c) \in SUBSET Earnings
      BY DEF ManualActions, Seen
    <2>3. /\ earnings' \in [Earnings -> EarningStates]
          /\ journal' \subseteq [earning : Earnings, kind : Kinds, version : Nat]
          /\ outbox' \subseteq
               [aggregate : {"earning", "settlement"}, id : Earnings \cup Settlements,
                type : EarningStatuses \cup {"submitted", "rejected"}, version : Nat]
      BY <1>0, <2>1, <2>2, TransitionTypes DEF ApplyTransitions
    <2>4. call' \in [Clients -> CallStates]
      BY <1>a, <2>1, NoCallType DEF Return
    <2> QED
      BY <2>1, <2>3, <2>4
  <1>5. ASSUME NEW c \in Clients, StartSettlement(c) PROVE TypeOK'
    <2>1. PICK s \in Settlements :
             /\ Claimable(c)
             /\ earnings' = Transitioned(Seen(c), "start_settlement")
             /\ settlements' = [settlements EXCEPT ![s] =
                  [status |-> "submitted", earnings |-> Seen(c), reference |-> NoReference]]
             /\ outbox' = outbox \cup {Event("settlement", s, "submitted", 1)}
             /\ \/ call' = [call EXCEPT ![c] = [NoCall EXCEPT !.op = "submit", !.id = s]]
                \/ Return(c)
             /\ UNCHANGED <<journal, provider, now>>
      BY <1>5 DEF StartSettlement
    <2>2. Seen(c) \in SUBSET Earnings
      BY DEF Seen
    <2>3. \A e \in Seen(c) : NextStatus(earnings[e].status, "start_settlement") # "invalid"
      BY <2>1 DEF Claimable, NextStatus
    <2>4. earnings' \in [Earnings -> EarningStates]
      BY <1>0, <2>1, <2>2, <2>3, TransitionTypes
    <2>5. settlements' \in [Settlements -> Batches \cup {NoBatch}]
      BY <2>1, <2>2 DEF Batches
    <2>6. call' \in [Clients -> CallStates]
      BY <1>a, <2>1, NoCallType, SubmitType DEF Return
    <2> QED
      BY <2>1, <2>4, <2>5, <2>6 DEF Event
  <1>6. ASSUME NEW c \in Clients, Submit(c) PROVE TypeOK'
    <2>1. call[c].id \in Settlements
      BY <1>6 DEF Submit, CallStates
    <2>2. PICK p \in Answers(call[c].id) :
             /\ provider' = [provider EXCEPT ![call[c].id] = p]
             /\ \/ \E k \in Completions(call[c].id, p) : call' = [call EXCEPT ![c] = k]
                \/ Return(c)
      BY <1>6 DEF Submit
    <2>3. p \in {"unknown", "pending", "paid", "refused"}
      BY <2>1 DEF Answers
    <2>4. call' \in [Clients -> CallStates]
      BY <1>a, <2>1, <2>2, NoCallType, CompletionType DEF Return
    <2> QED
      BY <1>6, <2>1, <2>2, <2>3, <2>4 DEF Submit
  <1>7. ASSUME NEW c \in Clients, FinishSettlement(c) PROVE TypeOK'
    <2> DEFINE batch == settlements[call[c].id].earnings
               outcome == IF call[c].action = "settle" THEN "settled" ELSE "rejected"
    <2>0. call[c].id \in Settlements
      BY <1>7 DEF FinishSettlement, CallStates
    <2>1. /\ settlements[call[c].id].status = "submitted"
          /\ \A e \in batch : earnings[e].status = "settling"
          /\ ApplyTransitions(batch, call[c].action, {Event("settlement", call[c].id, outcome, 2)})
          /\ settlements' = [settlements EXCEPT ![call[c].id].status = outcome,
                                                ![call[c].id].reference = call[c].reference]
          /\ Return(c)
          /\ UNCHANGED <<provider, now>>
      BY <1>7 DEF FinishSettlement
    <2>2. settlements[call[c].id] \in Batches
      BY <2>0, <2>1 DEF NoBatch
    <2>3. batch \in SUBSET Earnings /\ call[c].action # "start_settlement"
      BY <2>2 DEF Batches, CallStates
    <2>4. /\ earnings' \in [Earnings -> EarningStates]
          /\ journal' \subseteq [earning : Earnings, kind : Kinds, version : Nat]
          /\ Events(batch, call[c].action) \subseteq
               [aggregate : {"earning", "settlement"}, id : Earnings \cup Settlements,
                type : EarningStatuses \cup {"submitted", "rejected"}, version : Nat]
      BY <1>0, <2>1, <2>3, TransitionTypes DEF ApplyTransitions
    <2>5. outbox' \subseteq
               [aggregate : {"earning", "settlement"}, id : Earnings \cup Settlements,
                type : EarningStatuses \cup {"submitted", "rejected"}, version : Nat]
      BY <2>0, <2>1, <2>4 DEF ApplyTransitions, Event, EarningStatuses
    <2>6. settlements' \in [Settlements -> Batches \cup {NoBatch}]
      BY <2>0, <2>1, <2>2 DEF Batches, CallStates
    <2>7. call' \in [Clients -> CallStates]
      BY <1>a, <2>1, NoCallType DEF Return
    <2> QED
      BY <2>1, <2>4, <2>5, <2>6, <2>7
  <1>8. ASSUME NEW e \in Earnings, Accrue(e) PROVE TypeOK'
    BY <1>8 DEF Accrue, EarningStates, EarningStatuses, Kinds, Event
  <1>9. ASSUME NEW s \in Settlements, HostSubmits(s) \/ ProviderDecides(s) PROVE TypeOK'
    BY <1>9 DEF HostSubmits, ProviderDecides
  <1>10. CASE MakeAvailableDue
    <2>1. DueBatch \in SUBSET Earnings
      BY DEF DueBatch, DueEarnings
    <2> QED
      BY <1>0, <1>10, <2>1, TransitionTypes DEF MakeAvailableDue, ApplyTransitions
  <1>11. CASE Tick
    BY <1>11 DEF Tick
  <1>12. CASE UNCHANGED vars
    BY <1>12 DEF vars
  <1> QED
    BY <1>1, <1>2, <1>3, <1>4, <1>5, <1>6, <1>7, <1>8, <1>9, <1>10, <1>11, <1>12 DEF Next, Step

(* Type correctness of the ledger, the provider and the calls.               *)
THEOREM TypeCorrect == Spec => []TypeOK
  BY TypeInit, TypeStep, PTL DEF Spec

-----------------------------------------------------------------------------
Claimed == {"settling", "settled", "recovery_due"}

(* Outside a settlement an earning enters and leaves no claim; only a settled *)
(* one may become due for recovery.                                           *)
LEMMA UnclaimedStep ==
  ASSUME NEW status, NEW action \in ManualActions \cup {"make_available"},
         NextStatus(status, action) # "invalid"
  PROVE  \/ status = "settled" /\ NextStatus(status, action) = "recovery_due"
         \/ status \notin Claimed /\ NextStatus(status, action) \notin Claimed
  BY DEF NextStatus, ManualActions, Claimed

(* Such steps keep the claims when the batches do not change.                 *)
LEMMA ClaimsKept ==
  ASSUME TypeOK, ClaimedOnce, UNCHANGED settlements,
         \A e \in Earnings : \/ earnings'[e].status = earnings[e].status
                             \/ earnings[e].status = "settled" /\ earnings'[e].status = "recovery_due"
                             \/ earnings[e].status \notin Claimed /\ earnings'[e].status \notin Claimed
  PROVE  ClaimedOnce'
  <1>1. \A s \in Settlements : settlements[s].earnings \subseteq Earnings
    BY DEF TypeOK, Batches, NoBatch
  <1>2. \A s \in Settlements : \A e \in settlements'[s].earnings :
           /\ settlements'[s].status = "submitted" => earnings'[e].status = "settling"
           /\ settlements'[s].status = "settled" => earnings'[e].status \in {"settled", "recovery_due"}
    BY <1>1 DEF ClaimedOnce, Claimed
  <1>3. \A r, s \in Settlements : r # s /\ Live(r)' /\ Live(s)' =>
           settlements'[r].earnings \cap settlements'[s].earnings = {}
    BY DEF ClaimedOnce, Live
  <1>4. \A e \in Earnings : earnings'[e].status \in {"settling", "settled", "recovery_due"} =>
           \E s \in Settlements : Live(s)' /\ e \in settlements'[s].earnings
    BY DEF ClaimedOnce, Claimed, Live
  <1> QED
    BY <1>2, <1>3, <1>4 DEF ClaimedOnce

\* Transitions of unclaimed earnings to unclaimed statuses leave the claims alone.
LEMMA TransitionKeepsClaims ==
  ASSUME TypeOK, ClaimedOnce, UNCHANGED settlements, NEW S \in SUBSET Earnings,
         NEW action \in ManualActions \cup {"make_available"}, NEW further,
         ApplyTransitions(S, action, further)
  PROVE  ClaimedOnce'
  <1>1. ASSUME NEW e \in Earnings
        PROVE  \/ earnings'[e].status = earnings[e].status
               \/ earnings[e].status = "settled" /\ earnings'[e].status = "recovery_due"
               \/ earnings[e].status \notin Claimed /\ earnings'[e].status \notin Claimed
    <2>1. CASE e \in S
      <3>1. /\ earnings'[e].status = NextStatus(earnings[e].status, action)
            /\ NextStatus(earnings[e].status, action) # "invalid"
        BY <2>1 DEF ApplyTransitions, Transitioned
      <3> QED
        BY <3>1, UnclaimedStep
    <2>2. CASE e \notin S
      BY <2>2 DEF ApplyTransitions, Transitioned
    <2> QED
      BY <2>1, <2>2
  <1> QED
    BY <1>1, ClaimsKept

\* Every step keeps ClaimedOnce; StartSettlement and FinishSettlement change it.
LEMMA ClaimStep == TypeOK /\ ClaimedOnce /\ Agreement /\ [Next]_vars => ClaimedOnce'
  <1> SUFFICES ASSUME TypeOK, ClaimedOnce, Agreement, [Next]_vars PROVE ClaimedOnce'
    OBVIOUS
  <1>1. ASSUME UNCHANGED <<earnings, settlements>> PROVE ClaimedOnce'
    BY <1>1, ClaimsKept
  <1>2. ASSUME NEW c \in Clients, TransitionEarning(c) PROVE ClaimedOnce'
    <2>1. Seen(c) \in SUBSET Earnings
      BY DEF Seen
    <2> QED
      BY <1>2, <2>1, TransitionKeepsClaims DEF TransitionEarning
  <1>3. CASE MakeAvailableDue
    <2>1. DueBatch \in SUBSET Earnings
      BY DEF DueBatch, DueEarnings
    <2> QED
      BY <1>3, <2>1, TransitionKeepsClaims DEF MakeAvailableDue
  <1>4. ASSUME NEW x \in Earnings, Accrue(x) PROVE ClaimedOnce'
    <2>1. \A e \in Earnings : \/ earnings'[e].status = earnings[e].status
                              \/ earnings[e].status \notin Claimed /\ earnings'[e].status \notin Claimed
      BY <1>4 DEF Accrue, NoEarning, Claimed, TypeOK
    <2> QED
      BY <1>4, <2>1, ClaimsKept DEF Accrue
  <1>5. ASSUME NEW c \in Clients, StartSettlement(c) PROVE ClaimedOnce'
    <2>1. PICK s \in Settlements :
             /\ settlements[s] = NoBatch
             /\ Claimable(c)
             /\ earnings' = Transitioned(Seen(c), "start_settlement")
             /\ settlements' = [settlements EXCEPT ![s] =
                  [status |-> "submitted", earnings |-> Seen(c), reference |-> NoReference]]
      BY <1>5 DEF StartSettlement
    <2>2. Seen(c) \subseteq Earnings /\ \A e \in Seen(c) : earnings[e].status = "available"
      BY <2>1 DEF Seen, Claimable
    <2>3. \A e \in Earnings : earnings'[e].status = IF e \in Seen(c) THEN "settling"
                                                    ELSE earnings[e].status
      BY <2>1, <2>2 DEF Transitioned, NextStatus
    <2>4. /\ settlements'[s] = [status |-> "submitted", earnings |-> Seen(c), reference |-> NoReference]
          /\ \A r \in Settlements : r # s => settlements'[r] = settlements[r]
      BY <2>1 DEF TypeOK
    <2>5. \A r \in Settlements : settlements[r].earnings \subseteq Earnings
      BY DEF TypeOK, Batches, NoBatch
    <2>6. \A r \in Settlements : Live(r) => settlements[r].earnings \cap Seen(c) = {}
      BY <2>2, <2>5 DEF ClaimedOnce, Live
    <2>7. \A r \in Settlements : \A e \in settlements'[r].earnings :
             /\ settlements'[r].status = "submitted" => earnings'[e].status = "settling"
             /\ settlements'[r].status = "settled" => earnings'[e].status \in {"settled", "recovery_due"}
      <3>1. ASSUME NEW r \in Settlements, r # s, NEW e \in settlements'[r].earnings
            PROVE  /\ settlements'[r].status = "submitted" => earnings'[e].status = "settling"
                   /\ settlements'[r].status = "settled" =>
                        earnings'[e].status \in {"settled", "recovery_due"}
        BY <3>1, <2>3, <2>4, <2>5, <2>6 DEF ClaimedOnce, Live
      <3> QED
        BY <3>1, <2>2, <2>3, <2>4
    <2>8. \A q, r \in Settlements : q # r /\ Live(q)' /\ Live(r)' =>
             settlements'[q].earnings \cap settlements'[r].earnings = {}
      <3>1. \A r \in Settlements : r # s => Live(r)' = Live(r)
        BY <2>4 DEF Live
      <3> QED
        BY <3>1, <2>4, <2>6 DEF ClaimedOnce
    <2>9. ASSUME NEW e \in Earnings, earnings'[e].status \in {"settling", "settled", "recovery_due"}
          PROVE  \E r \in Settlements : Live(r)' /\ e \in settlements'[r].earnings
      <3>1. CASE e \in Seen(c)
        BY <3>1, <2>4 DEF Live
      <3>2. CASE e \notin Seen(c)
        <4>1. PICK r \in Settlements : Live(r) /\ e \in settlements[r].earnings
          BY <3>2, <2>9, <2>3 DEF ClaimedOnce
        <4>2. r # s
          BY <4>1, <2>1 DEF NoBatch, Live
        <4> QED
          BY <4>1, <4>2, <2>4 DEF Live
      <3> QED
        BY <3>1, <3>2
    <2> QED
      BY <2>7, <2>8, <2>9 DEF ClaimedOnce
  <1>6. ASSUME NEW c \in Clients, FinishSettlement(c) PROVE ClaimedOnce'
    <2>0. PICK s \in Settlements : s = call[c].id
      BY <1>6 DEF FinishSettlement, TypeOK, CallStates
    <2> DEFINE batch == settlements[s].earnings
               outcome == IF call[c].action = "settle" THEN "settled" ELSE "rejected"
    <2>1. /\ settlements[s].status = "submitted"
          /\ \A e \in batch : earnings[e].status = "settling"
          /\ \A e \in batch : NextStatus(earnings[e].status, call[c].action) # "invalid"
          /\ earnings' = Transitioned(batch, call[c].action)
          /\ settlements' = [settlements EXCEPT ![s].status = outcome,
                                                ![s].reference = call[c].reference]
      BY <1>6, <2>0 DEF FinishSettlement, ApplyTransitions
    <2>2. \A r \in Settlements : settlements[r].earnings \subseteq Earnings
      BY DEF TypeOK, Batches, NoBatch
    <2>3. \A e \in Earnings : earnings'[e].status =
             IF e \in batch THEN IF call[c].action = "settle" THEN "settled" ELSE "available"
             ELSE earnings[e].status
      <3>1. call[c].action \in {"none", "settle", "reject_settlement"}
        BY DEF TypeOK, CallStates
      <3> QED
        BY <3>1, <2>1, <2>2 DEF Transitioned, NextStatus
    <2>4. /\ settlements'[s].earnings = batch /\ settlements'[s].status = outcome
          /\ \A r \in Settlements : r # s => settlements'[r] = settlements[r]
      BY <2>1 DEF TypeOK, Batches, NoBatch
    <2>5. Live(s) /\ \A r \in Settlements : r # s /\ Live(r) => settlements[r].earnings \cap batch = {}
      BY <2>1 DEF ClaimedOnce, Live
    <2>50. outcome # "submitted" /\ (outcome = "settled" => call[c].action = "settle")
      OBVIOUS
    <2>51. call[c].action = "settle" => outcome = "settled"
      OBVIOUS
    <2>52. batch = settlements[s].earnings
      OBVIOUS
    <2> HIDE DEF batch, outcome
    <2>6. \A r \in Settlements : \A e \in settlements'[r].earnings :
             /\ settlements'[r].status = "submitted" => earnings'[e].status = "settling"
             /\ settlements'[r].status = "settled" => earnings'[e].status \in {"settled", "recovery_due"}
      <3>1. ASSUME NEW r \in Settlements, r # s, NEW e \in settlements'[r].earnings
            PROVE  /\ settlements'[r].status = "submitted" => earnings'[e].status = "settling"
                   /\ settlements'[r].status = "settled" =>
                        earnings'[e].status \in {"settled", "recovery_due"}
        <4>1. settlements'[r] = settlements[r] /\ e \in settlements[r].earnings /\ e \in Earnings
          BY <3>1, <2>2, <2>4
        <4>2. Live(r) => earnings'[e].status = earnings[e].status
          BY <3>1, <4>1, <2>3, <2>5
        <4> QED
          BY <4>1, <4>2 DEF ClaimedOnce, Live
      <3>2. ASSUME NEW e \in settlements'[s].earnings
            PROVE  /\ settlements'[s].status # "submitted"
                   /\ settlements'[s].status = "settled" => earnings'[e].status = "settled"
        BY <3>2, <2>1, <2>2, <2>3, <2>4, <2>50, <2>52
      <3> QED
        BY <3>1, <3>2
    <2>7. \A q, r \in Settlements : q # r /\ Live(q)' /\ Live(r)' =>
             settlements'[q].earnings \cap settlements'[r].earnings = {}
      <3>1. \A r \in Settlements : r # s => Live(r)' = Live(r)
        BY <2>4 DEF Live
      <3> QED
        BY <3>1, <2>4, <2>5 DEF ClaimedOnce
    <2>8. ASSUME NEW e \in Earnings, earnings'[e].status \in {"settling", "settled", "recovery_due"}
          PROVE  \E r \in Settlements : Live(r)' /\ e \in settlements'[r].earnings
      <3>1. CASE e \in batch
        <4>1. Live(s)' /\ e \in settlements'[s].earnings
          BY <3>1, <2>3, <2>4, <2>8, <2>51 DEF Live
        <4> QED
          BY <4>1, <2>1
      <3>2. CASE e \notin batch
        <4>1. PICK r \in Settlements : Live(r) /\ e \in settlements[r].earnings
          BY <3>2, <2>8, <2>3 DEF ClaimedOnce
        <4>2. r # s
          BY <4>1, <3>2, <2>52
        <4> QED
          BY <4>1, <4>2, <2>4 DEF Live
      <3> QED
        BY <3>1, <3>2
    <2> QED
      BY <2>6, <2>7, <2>8 DEF ClaimedOnce
  <1>7. ASSUME NEW c \in Clients, GetEarning(c) \/ Abandon(c) \/ FinishRepeated(c) \/ Submit(c)
        PROVE ClaimedOnce'
    BY <1>7, <1>1 DEF GetEarning, Abandon, FinishRepeated, Submit
  <1>8. ASSUME NEW c \in Clients, NEW s \in Settlements, CallComplete(c, s) PROVE ClaimedOnce'
    BY <1>8, <1>1 DEF CallComplete
  <1>9. ASSUME NEW s \in Settlements, HostSubmits(s) \/ ProviderDecides(s) PROVE ClaimedOnce'
    BY <1>9, <1>1 DEF HostSubmits, ProviderDecides
  <1>10. CASE Tick \/ UNCHANGED vars
    BY <1>10, <1>1 DEF Tick, vars
  <1> QED
    BY <1>2, <1>3, <1>4, <1>5, <1>6, <1>7, <1>8, <1>9, <1>10 DEF Next, Step

-----------------------------------------------------------------------------
\* Every step keeps the agreement of ledger, provider and callers.
LEMMA AgreementStep == TypeOK /\ ClaimedOnce /\ Agreement /\ [Next]_vars => Agreement'
  <1> SUFFICES ASSUME TypeOK, Agreement, [Next]_vars PROVE Agreement'
    OBVIOUS
  <1>0. \A c \in Clients : /\ call[c] \in CallStates
                           /\ call[c].op \in {"submit", "complete"} => call[c].id \in Settlements
    BY DEF TypeOK, CallStates
  <1>1. ASSUME UNCHANGED <<settlements, provider>>, NEW c \in Clients, Return(c) PROVE Agreement'
    BY <1>1, <1>0 DEF Agreement, Return, NoCall, TypeOK
  <1>2. ASSUME UNCHANGED <<settlements, provider, call>> PROVE Agreement'
    BY <1>2 DEF Agreement
  <1>3. ASSUME NEW c \in Clients, GetEarning(c) PROVE Agreement'
    <2>1. \A d \in Clients : call'[d].op \in {"submit", "complete"} => call'[d] = call[d]
      <3>1. PICK e \in Earnings : call' = [call EXCEPT ![c].op = "read", ![c].seen[e] = earnings[e]]
        BY <1>3 DEF GetEarning
      <3>2. call'[c] = [call[c] EXCEPT !.op = "read", !.seen[e] = earnings[e]]
        BY <3>1 DEF TypeOK
      <3>3. call'[c].op = "read"
        BY <1>0, <3>2 DEF CallStates
      <3> QED
        BY <3>1, <3>3 DEF TypeOK
    <2>2. UNCHANGED <<settlements, provider>>
      BY <1>3 DEF GetEarning
    <2> QED
      BY <2>1, <2>2 DEF Agreement
  <1>4. ASSUME NEW c \in Clients, NEW s \in Settlements, CallComplete(c, s) PROVE Agreement'
    <2>1. PICK k \in Completions(s, provider[s]) : call' = [call EXCEPT ![c] = k]
      BY <1>4 DEF CallComplete
    <2>2. /\ k.op = "complete" /\ k.id = s
          /\ k.action = IF provider[s] = "paid" THEN "settle" ELSE "reject_settlement"
      BY CompletionType
    <2>3. provider[s] \in {"paid", "refused"} /\ UNCHANGED <<settlements, provider>>
      BY <1>4 DEF CallComplete
    <2>4. \A d \in Clients : call'[d] = IF d = c THEN k ELSE call[d]
      BY <2>1 DEF TypeOK
    <2> QED
      BY <2>2, <2>3, <2>4 DEF Agreement
  <1>5. ASSUME NEW c \in Clients, StartSettlement(c) PROVE Agreement'
    <2>1. PICK s \in Settlements :
             /\ settlements[s] = NoBatch
             /\ settlements' = [settlements EXCEPT ![s] =
                  [status |-> "submitted", earnings |-> Seen(c), reference |-> NoReference]]
             /\ \/ call' = [call EXCEPT ![c] = [NoCall EXCEPT !.op = "submit", !.id = s]]
                \/ Return(c)
             /\ UNCHANGED provider
      BY <1>5 DEF StartSettlement
    <2>2. /\ settlements'[s].status = "submitted"
          /\ \A r \in Settlements : r # s => settlements'[r] = settlements[r]
      BY <2>1 DEF TypeOK
    <2>3. \A d \in Clients : \/ call'[d] = call[d]
                             \/ call'[d].op = "submit" /\ call'[d].id = s
                             \/ call'[d].op = "none"
      <3>1. CASE Return(c)
        BY <3>1 DEF Return, NoCall, TypeOK
      <3>2. CASE call' = [call EXCEPT ![c] = [NoCall EXCEPT !.op = "submit", !.id = s]]
        <4>1. call'[c] = [NoCall EXCEPT !.op = "submit", !.id = s]
          BY <3>2 DEF TypeOK
        <4>2. call'[c].op = "submit" /\ call'[c].id = s
          BY <4>1 DEF NoCall
        <4> QED
          BY <3>2, <4>2 DEF TypeOK
      <3> QED
        BY <2>1, <3>1, <3>2
    <2> QED
      BY <1>0, <2>1, <2>2, <2>3 DEF Agreement
  <1>6. ASSUME NEW c \in Clients, FinishSettlement(c) PROVE Agreement'
    <2>0. PICK s \in Settlements : s = call[c].id
      BY <1>0, <1>6 DEF FinishSettlement
    <2>1. /\ call[c].op = "complete"
          /\ settlements'[s].status = IF call[c].action = "settle" THEN "settled" ELSE "rejected"
          /\ \A r \in Settlements : r # s => settlements'[r] = settlements[r]
          /\ UNCHANGED provider
          /\ \A d \in Clients : call'[d] = IF d = c THEN NoCall ELSE call[d]
      BY <1>6, <2>0 DEF FinishSettlement, Return, TypeOK, Batches, NoBatch
    <2>2. provider[s] = IF call[c].action = "settle" THEN "paid" ELSE "refused"
      BY <2>0, <2>1 DEF Agreement
    <2>3. \A r \in Settlements :
             /\ settlements'[r].status = "none" => provider[r] = "unknown"
             /\ settlements'[r].status = "settled" => provider[r] = "paid"
             /\ settlements'[r].status = "rejected" => provider[r] = "refused"
             /\ settlements[r].status # "none" => settlements'[r].status # "none"
      BY <2>1, <2>2 DEF Agreement
    <2> QED
      BY <1>0, <2>1, <2>3 DEF Agreement, NoCall
  <1>7. ASSUME NEW c \in Clients, Submit(c) PROVE Agreement'
    <2>0. PICK s \in Settlements : s = call[c].id
      BY <1>0, <1>7 DEF Submit
    <2>1. PICK p \in Answers(s) :
             /\ provider' = [provider EXCEPT ![s] = p]
             /\ \/ /\ p \in {"paid", "refused"}
                   /\ \E k \in Completions(s, p) : call' = [call EXCEPT ![c] = k]
                \/ Return(c)
      BY <1>7, <2>0 DEF Submit
    <2>2. /\ \A r \in Settlements : provider'[r] = IF r = s THEN p ELSE provider[r]
          /\ provider[s] \in {"paid", "refused"} => p = provider[s]
          /\ UNCHANGED settlements
          /\ settlements[s].status # "none"
      BY <1>7, <2>0, <2>1 DEF Submit, Answers, Agreement, TypeOK
    <2>3. \A d \in Clients :
             \/ call'[d] = call[d]
             \/ call'[d].op = "none"
             \/ /\ call'[d].op = "complete" /\ call'[d].id = s
                /\ p = IF call'[d].action = "settle" THEN "paid" ELSE "refused"
      <3>1. CASE Return(c)
        BY <3>1 DEF Return, NoCall, TypeOK
      <3>2. ASSUME NEW k \in Completions(s, p), p \in {"paid", "refused"},
                   call' = [call EXCEPT ![c] = k]
            PROVE  \A d \in Clients : \/ call'[d] = call[d]
                                      \/ /\ call'[d].op = "complete" /\ call'[d].id = s
                                         /\ p = IF call'[d].action = "settle" THEN "paid" ELSE "refused"
        <4>1. /\ k.op = "complete" /\ k.id = s
              /\ k.action = IF p = "paid" THEN "settle" ELSE "reject_settlement"
          BY CompletionType
        <4> QED
          BY <3>2, <4>1 DEF TypeOK
      <3> QED
        BY <2>1, <3>1, <3>2
    <2>4. \A r \in Settlements :
             /\ settlements[r].status = "none" => provider'[r] = "unknown"
             /\ settlements[r].status = "settled" => provider'[r] = "paid"
             /\ settlements[r].status = "rejected" => provider'[r] = "refused"
      BY <2>2 DEF Agreement
    <2>5. \A d \in Clients :
             /\ call'[d].op = "submit" => settlements[call'[d].id].status # "none"
             /\ call'[d].op = "complete" =>
                  provider'[call'[d].id] = IF call'[d].action = "settle" THEN "paid" ELSE "refused"
      BY <1>0, <2>2, <2>3 DEF Agreement
    <2> QED
      BY <2>2, <2>4, <2>5 DEF Agreement
  <1>8. ASSUME NEW s \in Settlements, HostSubmits(s) \/ ProviderDecides(s) PROVE Agreement'
    <2>1. /\ provider[s] \notin {"paid", "refused"}
          /\ settlements[s].status # "none"
          /\ \A r \in Settlements : r # s => provider'[r] = provider[r]
          /\ UNCHANGED <<settlements, call>>
      BY <1>8 DEF HostSubmits, ProviderDecides, Agreement, TypeOK
    <2> QED
      BY <1>0, <2>1 DEF Agreement
  <1>9. ASSUME NEW c \in Clients, Abandon(c) \/ FinishRepeated(c) \/ TransitionEarning(c)
        PROVE  Agreement'
    BY <1>1, <1>9 DEF Abandon, FinishRepeated, TransitionEarning
  <1>10. ASSUME NEW e \in Earnings, Accrue(e) PROVE Agreement'
    BY <1>2, <1>10 DEF Accrue
  <1>11. CASE MakeAvailableDue \/ Tick \/ UNCHANGED vars
    BY <1>2, <1>11 DEF MakeAvailableDue, Tick, vars
  <1> QED
    BY <1>3, <1>4, <1>5, <1>6, <1>7, <1>8, <1>9, <1>10, <1>11 DEF Next, Step

(* What the provider has paid follows from the claims and the agreement.     *)
LEMMA PaymentsFollow == TypeOK /\ ClaimedOnce /\ Agreement => PaidOnce
  <1> SUFFICES ASSUME TypeOK, ClaimedOnce, Agreement PROVE PaidOnce
    OBVIOUS
  <1>1. \A s \in Settlements : provider[s] = "paid" => Live(s)
    BY DEF TypeOK, Batches, NoBatch, Agreement, Live
  <1>2. \A s \in Settlements : \A e \in settlements[s].earnings :
           Live(s) => earnings[e].status \in {"settling", "settled", "recovery_due"}
    BY DEF ClaimedOnce, Live
  <1> QED
    BY <1>1, <1>2 DEF PaidOnce, ClaimedOnce

(* The claims and the agreement with the provider hold in every behaviour.    *)
LEMMA ClaimsAlways == Spec => [](TypeOK /\ ClaimedOnce /\ Agreement)
  <1>1. Init => TypeOK /\ ClaimedOnce /\ Agreement
    <2>1. Init => ClaimedOnce
      BY DEF Init, ClaimedOnce, NoEarning, NoBatch, Live
    <2>2. Init => Agreement
      BY DEF Init, Agreement, NoBatch, NoCall
    <2> QED
      BY <2>1, <2>2, TypeInit
  <1>2. TypeOK /\ ClaimedOnce /\ Agreement /\ [Next]_vars => (TypeOK /\ ClaimedOnce /\ Agreement)'
    BY TypeStep, ClaimStep, AgreementStep
  <1> QED
    BY <1>1, <1>2, PTL DEF Spec

(* An earning is claimed by one live batch at most, whatever the provider,    *)
(* the host and the callers of StartSettlement and FinishSettlement do.       *)
THEOREM Claims == Spec => []ClaimedOnce
  BY ClaimsAlways, PTL

(* The provider pays an earning in one batch at most.                         *)
THEOREM PaidInOneBatch == Spec => []PaidOnce
  <1>1. TypeOK /\ ClaimedOnce /\ Agreement => PaidOnce
    BY PaymentsFollow
  <1> QED
    BY <1>1, ClaimsAlways, PTL

(* The outcome of a batch is final: FinishSettlement changes submitted       *)
(* batches only, StartSettlement creates new ones only.                       *)
THEOREM FinalOutcomes == Spec => OutcomeFinal
  <1> DEFINE Kept == \A s \in Settlements : settlements[s].status \in {"settled", "rejected"} =>
                        settlements'[s] = settlements[s]
  <1>1. TypeOK /\ [Next]_vars => [Kept]_vars
    <2> SUFFICES ASSUME TypeOK, [Next]_vars PROVE Kept
      OBVIOUS
    <2>1. ASSUME NEW c \in Clients, StartSettlement(c) PROVE Kept
      BY <2>1 DEF StartSettlement, NoBatch, TypeOK
    <2>2. ASSUME NEW c \in Clients, FinishSettlement(c) PROVE Kept
      BY <2>2 DEF FinishSettlement, TypeOK
    <2>3. ASSUME UNCHANGED settlements PROVE Kept
      BY <2>3
    <2> QED
      BY <2>1, <2>2, <2>3 DEF Next, Step, GetEarning, CallComplete, Abandon, TransitionEarning, Submit,
           FinishRepeated, Accrue, HostSubmits, ProviderDecides, MakeAvailableDue, Tick, vars
  <1> QED
    BY <1>1, TypeCorrect, PTL DEF Spec, OutcomeFinal

-----------------------------------------------------------------------------
(* Versions and the journal.                                                 *)

(* A transition gives every earning it touches the next version.             *)
LEMMA TransitionVersions ==
  ASSUME TypeOK, VersionBounds, NEW S \in SUBSET Earnings, NEW action,
         \A e \in S : NextStatus(earnings[e].status, action) # "invalid",
         earnings' = Transitioned(S, action)
  PROVE  /\ \A e \in Earnings : \/ earnings'[e] = earnings[e]
                                \/ earnings'[e].version = earnings[e].version + 1
         /\ \A e \in Earnings : /\ earnings'[e] # NoEarning => earnings'[e].version >= 1
                                /\ earnings'[e].status = "settling" => earnings'[e].version >= 2
  <1>1. \A e \in Earnings : earnings[e].version \in Nat
    BY DEF TypeOK, EarningStates, NoEarning
  <1>2. ASSUME NEW e \in S
        PROVE  earnings'[e].version = earnings[e].version + 1 /\ earnings[e].version >= 1
    <2>1. earnings[e].status \in EarningStatuses
      BY StatusStep
    <2>2. earnings[e] # NoEarning
      BY <2>1 DEF NoEarning, EarningStatuses
    <2> QED
      BY <2>2 DEF Transitioned, VersionBounds
  <1>3. \A e \in Earnings \ S : earnings'[e] = earnings[e]
    BY DEF Transitioned
  <1> QED
    BY <1>1, <1>2, <1>3 DEF VersionBounds

(* Callers keep what they have read, so that growing versions keep them apart. *)
LEMMA VersionsGrow ==
  ASSUME TypeOK, VersionBounds, VersionsIdentify,
         \A e \in Earnings : \/ earnings'[e] = earnings[e]
                             \/ earnings'[e].version > earnings[e].version,
         \A e \in Earnings : /\ earnings'[e] # NoEarning => earnings'[e].version >= 1
                             /\ earnings'[e].status = "settling" => earnings'[e].version >= 2,
         \A c \in Clients, e \in Earnings :
             call'[c].seen[e] \in {call[c].seen[e], earnings[e], NoEarning},
         \A e \in Earnings : earnings'[e].version \in Nat
  PROVE  VersionBounds' /\ VersionsIdentify'
  <1>1. \A e \in Earnings : earnings[e].version \in Nat
    BY DEF TypeOK, EarningStates, NoEarning
  <1>2. \A c \in Clients, e \in Earnings : call[c].seen[e].version \in Nat
    BY DEF TypeOK, CallStates, EarningStates, NoEarning
  <1>3. ASSUME NEW c \in Clients, NEW e \in Earnings
        PROVE  /\ call'[c].seen[e].version <= earnings'[e].version
               /\ call'[c].seen[e].version = earnings'[e].version => call'[c].seen[e] = earnings'[e]
    <2>1. CASE call'[c].seen[e] = call[c].seen[e]
      BY <1>1, <1>2, <2>1 DEF VersionBounds, VersionsIdentify
    <2>2. CASE call'[c].seen[e] = earnings[e]
      BY <1>1, <2>2
    <2>3. CASE call'[c].seen[e] = NoEarning
      BY <2>3 DEF NoEarning
    <2> QED
      BY <2>1, <2>2, <2>3
  <1> QED
    BY <1>3 DEF VersionBounds, VersionsIdentify

\* Every step keeps VersionsIdentify and its bounds.
LEMMA VersionStep ==
  TypeOK /\ VersionBounds /\ VersionsIdentify /\ [Next]_vars => VersionBounds' /\ VersionsIdentify'
  <1> SUFFICES ASSUME TypeOK, VersionBounds, VersionsIdentify, [Next]_vars
               PROVE  VersionBounds' /\ VersionsIdentify'
    OBVIOUS
  <1>0. TypeOK'
    BY TypeStep
  <1>1. \A e \in Earnings : earnings'[e].version \in Nat /\ earnings[e].version \in Nat
    BY <1>0 DEF TypeOK, EarningStates, NoEarning
  <1>2. \A c \in Clients, e \in Earnings :
           call'[c].seen[e] \in {call[c].seen[e], earnings[e], NoEarning}
    <2>1. ASSUME NEW c \in Clients, Return(c)
          PROVE  \A d \in Clients, e \in Earnings : call'[d].seen[e] \in {call[d].seen[e], NoEarning}
      BY <2>1 DEF Return, NoCall, TypeOK
    <2>2. ASSUME NEW c \in Clients, NEW s \in Settlements, NEW p, NEW k \in Completions(s, p),
                 call' = [call EXCEPT ![c] = k]
          PROVE  \A d \in Clients, e \in Earnings : call'[d].seen[e] \in {call[d].seen[e], NoEarning}
      <3>1. k.seen = NoCall.seen
        BY CompletionType
      <3>2. \A e \in Earnings : k.seen[e] = NoEarning
        BY <3>1 DEF NoCall
      <3> QED
        BY <2>2, <3>2 DEF TypeOK
    <2>3. ASSUME NEW c \in Clients, NEW s \in Settlements,
                 call' = [call EXCEPT ![c] = [NoCall EXCEPT !.op = "submit", !.id = s]]
          PROVE  \A d \in Clients, e \in Earnings : call'[d].seen[e] \in {call[d].seen[e], NoEarning}
      <3>1. \A e \in Earnings : [NoCall EXCEPT !.op = "submit", !.id = s].seen[e] = NoEarning
        BY DEF NoCall
      <3> QED
        BY <2>3, <3>1 DEF TypeOK
    <2>4. ASSUME NEW c \in Clients, GetEarning(c)
          PROVE  \A d \in Clients, e \in Earnings : call'[d].seen[e] \in {call[d].seen[e], earnings[e]}
      <3>1. PICK x \in Earnings : call' = [call EXCEPT ![c].op = "read", ![c].seen[x] = earnings[x]]
        BY <2>4 DEF GetEarning
      <3>2. call'[c] = [call[c] EXCEPT !.op = "read", !.seen[x] = earnings[x]]
        BY <3>1 DEF TypeOK
      <3>3. call'[c].seen = [call[c].seen EXCEPT ![x] = earnings[x]]
        BY <3>2 DEF TypeOK, CallStates
      <3> QED
        BY <3>1, <3>3 DEF TypeOK, CallStates
    <2>5. ASSUME NEW c \in Clients, StartSettlement(c)
          PROVE  \A d \in Clients, e \in Earnings : call'[d].seen[e] \in {call[d].seen[e], NoEarning}
      BY <2>1, <2>3, <2>5 DEF StartSettlement
    <2>6. ASSUME NEW c \in Clients, Submit(c)
          PROVE  \A d \in Clients, e \in Earnings : call'[d].seen[e] \in {call[d].seen[e], NoEarning}
      <3>1. call[c].id \in Settlements
        BY <2>6 DEF Submit, TypeOK, CallStates
      <3> QED
        BY <2>1, <2>2, <2>6, <3>1 DEF Submit
    <2>7. ASSUME NEW c \in Clients, NEW s \in Settlements, CallComplete(c, s)
          PROVE  \A d \in Clients, e \in Earnings : call'[d].seen[e] \in {call[d].seen[e], NoEarning}
      BY <2>2, <2>7 DEF CallComplete
    <2>8. ASSUME NEW c \in Clients, Abandon(c) \/ TransitionEarning(c) \/ FinishSettlement(c) \/ FinishRepeated(c)
          PROVE  \A d \in Clients, e \in Earnings : call'[d].seen[e] \in {call[d].seen[e], NoEarning}
      BY <2>1, <2>8 DEF Abandon, TransitionEarning, FinishSettlement, FinishRepeated
    <2>9. ASSUME UNCHANGED call
          PROVE  \A d \in Clients, e \in Earnings : call'[d].seen[e] = call[d].seen[e]
      BY <2>9
    <2>10. (\E e \in Earnings : Accrue(e)) \/ (\E s \in Settlements : HostSubmits(s) \/ ProviderDecides(s))
              \/ MakeAvailableDue \/ Tick \/ UNCHANGED vars
           => UNCHANGED call
      BY DEF Accrue, HostSubmits, ProviderDecides, MakeAvailableDue, Tick, vars
    <2> QED
      BY <2>4, <2>5, <2>6, <2>7, <2>8, <2>9, <2>10 DEF Next, Step
  <1>3. /\ \A e \in Earnings : \/ earnings'[e] = earnings[e]
                               \/ earnings'[e].version > earnings[e].version
        /\ \A e \in Earnings : /\ earnings'[e] # NoEarning => earnings'[e].version >= 1
                               /\ earnings'[e].status = "settling" => earnings'[e].version >= 2
    <2> DEFINE Grows == /\ \A e \in Earnings : \/ earnings'[e] = earnings[e]
                                              \/ earnings'[e].version > earnings[e].version
                        /\ \A e \in Earnings : /\ earnings'[e] # NoEarning => earnings'[e].version >= 1
                                               /\ earnings'[e].status = "settling" =>
                                                    earnings'[e].version >= 2
    <2>1. ASSUME UNCHANGED earnings PROVE Grows
      BY <2>1 DEF VersionBounds
    <2>2. ASSUME NEW S \in SUBSET Earnings, NEW action, earnings' = Transitioned(S, action),
                 \A e \in S : NextStatus(earnings[e].status, action) # "invalid"
          PROVE  Grows
      BY <1>1, <2>2, TransitionVersions
    <2>3. ASSUME NEW e \in Earnings, Accrue(e) PROVE Grows
      BY <1>1, <2>3 DEF Accrue, NoEarning, TypeOK, VersionBounds
    <2>4. ASSUME NEW c \in Clients, StartSettlement(c) PROVE Grows
      <3>1. /\ Seen(c) \in SUBSET Earnings
            /\ earnings' = Transitioned(Seen(c), "start_settlement")
            /\ \A e \in Seen(c) : NextStatus(earnings[e].status, "start_settlement") # "invalid"
        BY <2>4 DEF StartSettlement, Claimable, NextStatus, Seen
      <3> QED
        BY <2>2, <3>1
    <2>5. ASSUME NEW c \in Clients, TransitionEarning(c) PROVE Grows
      <3>1. Seen(c) \in SUBSET Earnings
        BY DEF Seen
      <3> QED
        BY <2>2, <2>5, <3>1 DEF TransitionEarning, ApplyTransitions
    <2>6. ASSUME NEW c \in Clients, FinishSettlement(c) PROVE Grows
      <3>1. settlements[call[c].id].earnings \in SUBSET Earnings
        BY <2>6 DEF FinishSettlement, TypeOK, CallStates, Batches, NoBatch
      <3> QED
        BY <2>2, <2>6, <3>1 DEF FinishSettlement, ApplyTransitions
    <2>7. ASSUME MakeAvailableDue PROVE Grows
      <3>1. DueBatch \in SUBSET Earnings
        BY DEF DueBatch, DueEarnings
      <3> QED
        BY <2>2, <2>7, <3>1 DEF MakeAvailableDue, ApplyTransitions
    <2> HIDE DEF Grows
    <2>8. (\E c \in Clients : GetEarning(c) \/ (\E s \in Settlements : CallComplete(c, s)) \/ Abandon(c)
                                \/ Submit(c) \/ FinishRepeated(c))
            \/ (\E s \in Settlements : HostSubmits(s) \/ ProviderDecides(s)) \/ Tick \/ UNCHANGED vars
          => UNCHANGED earnings
      BY DEF GetEarning, CallComplete, Abandon, Submit, FinishRepeated, HostSubmits, ProviderDecides,
             Tick, vars
    <2>9. Grows
      BY <2>1, <2>3, <2>4, <2>5, <2>6, <2>7, <2>8 DEF Next, Step
    <2> QED
      BY <2>9 DEF Grows
  <1> QED
    BY <1>1, <1>2, <1>3, VersionsGrow

(* Versions and what callers have read of them stay in order.                *)
LEMMA OptimisticInv == Spec => [](TypeOK /\ VersionBounds /\ VersionsIdentify)
  <1> DEFINE Inv == TypeOK /\ VersionBounds /\ VersionsIdentify
  <1>1. Init => Inv
    <2>1. Init => VersionBounds /\ VersionsIdentify
      BY DEF Init, VersionBounds, VersionsIdentify, NoEarning, NoCall
    <2> QED
      BY <2>1, TypeInit
  <1>2. Inv /\ [Next]_vars => Inv'
    BY TypeStep, VersionStep
  <1> QED
    BY <1>1, <1>2, PTL DEF Spec

(* No version of an earning comes back with another state.                   *)
THEOREM OptimisticVersions == Spec => []VersionsIdentify
  BY OptimisticInv, PTL

-----------------------------------------------------------------------------
(* The journal.                                                              *)

(* A transition other than a claim leaves an entry and an event that explain *)
(* the new status of each earning it touches (applyEarningTransitionsLocked). *)
LEMMA JournalTransition ==
  ASSUME TypeOK, JournalExplains, EventIds, NEW S \in SUBSET Earnings, NEW action,
         action # "start_settlement",
         NEW further, \A event \in further : event.aggregate = "settlement" /\ event.id \in Settlements,
         ApplyTransitions(S, action, further)
  PROVE  JournalExplains' /\ EventIds'
  <1>1. \A e \in Earnings : earnings[e].version \in Nat
    BY DEF TypeOK, EarningStates, NoEarning
  <1>2. \A e \in S : /\ earnings'[e].status = NextStatus(earnings[e].status, action)
                     /\ earnings'[e].version = earnings[e].version + 1
    BY DEF ApplyTransitions, Transitioned
  <1>3. \A e \in Earnings \ S : earnings'[e] = earnings[e]
    BY DEF ApplyTransitions, Transitioned
  <1>4. \A e \in Earnings : earnings'[e].version >= earnings[e].version /\ earnings'[e].version \in Nat
    BY <1>1, <1>2, <1>3
  <1>5. ASSUME NEW e \in S
        PROVE  /\ NextStatus(earnings[e].status, action) # "settling"
               /\ [earning |-> e, kind |-> Explains(NextStatus(earnings[e].status, action)),
                   version |-> earnings[e].version + 1] \in journal'
               /\ Event("earning", e, NextStatus(earnings[e].status, action), earnings[e].version + 1)
                    \in outbox'
    <2>1. NextStatus(earnings[e].status, action) # "invalid"
      BY DEF ApplyTransitions
    <2>2. NextStatus(earnings[e].status, action) # "settling"
      BY <2>1 DEF NextStatus
    <2>3. JournalKind(action, NextStatus(earnings[e].status, action))
            = Explains(NextStatus(earnings[e].status, action))
      BY <2>1, KindExplains
    <2> QED
      BY <2>2, <2>3 DEF ApplyTransitions, Entries, Events
  <1>6. ASSUME NEW e \in Earnings, earnings'[e] # NoEarning
        PROVE  LET last == IF earnings'[e].status = "settling" THEN earnings'[e].version - 1
                           ELSE earnings'[e].version
                   status == IF earnings'[e].status = "settling" THEN "available" ELSE earnings'[e].status
               IN /\ [earning |-> e, kind |-> Explains(status), version |-> last] \in journal'
                  /\ Event("earning", e, status, last) \in outbox'
    <2>1. CASE e \in S
      BY <1>2, <1>5, <2>1
    <2>2. CASE e \notin S
      BY <1>3, <1>6, <2>2 DEF JournalExplains, ApplyTransitions
    <2> QED
      BY <2>1, <2>2
  <1>7. ASSUME NEW entry \in journal'
        PROVE  entry.version <= earnings'[entry.earning].version
    <2>1. CASE entry \in journal
      <3>1. entry.earning \in Earnings /\ entry.version \in Nat
        BY <2>1 DEF TypeOK
      <3> QED
        BY <1>1, <1>4, <2>1, <3>1 DEF JournalExplains
    <2>2. CASE entry \in Entries(S, action)
      BY <1>1, <1>2, <2>2 DEF Entries
    <2> QED
      BY <2>1, <2>2 DEF ApplyTransitions
  <1>8. ASSUME NEW event \in outbox'
        PROVE  /\ event.aggregate = "earning" => event.version <= earnings'[event.id].version
               /\ event.id \in IF event.aggregate = "earning" THEN Earnings ELSE Settlements
    <2>1. CASE event \in outbox
      <3>1. event.version \in Nat
        BY <2>1 DEF TypeOK
      <3> QED
        BY <1>1, <1>4, <2>1, <3>1 DEF JournalExplains, EventIds
    <2>2. CASE event \in Events(S, action)
      BY <1>1, <1>2, <2>2 DEF Events, Event
    <2>3. CASE event \in further
      BY <2>3
    <2> QED
      BY <2>1, <2>2, <2>3 DEF ApplyTransitions
  <1> QED
    BY <1>6, <1>7, <1>8 DEF JournalExplains, EventIds

(* Every step keeps the journal and the outbox in step with the earnings.    *)
LEMMA JournalStep ==
  TypeOK /\ EventIds /\ JournalExplains /\ [Next]_vars => JournalExplains' /\ EventIds'
  <1> SUFFICES ASSUME TypeOK, EventIds, JournalExplains, [Next]_vars
               PROVE  JournalExplains' /\ EventIds'
    OBVIOUS
  <1>1. \A e \in Earnings : earnings[e].version \in Nat
    BY DEF TypeOK, EarningStates, NoEarning
  <1>2. ASSUME NEW e \in Earnings, Accrue(e) PROVE JournalExplains' /\ EventIds'
    <2> DEFINE status == IF AvailableAt[e] <= now THEN "available" ELSE "pending"
    <2>1. /\ earnings[e] = NoEarning
          /\ earnings' = [earnings EXCEPT ![e] = [status |-> status, version |-> 1]]
          /\ outbox' = outbox \cup {Event("earning", e, status, 1)}
          /\ journal \subseteq journal'
          /\ [earning |-> e, kind |-> Explains(status), version |-> 1] \in journal'
          /\ \A entry \in journal' \ journal : entry.earning = e /\ entry.version = 1
      BY <1>2 DEF Accrue, Explains
    <2>2. status # "settling"
      OBVIOUS
    <2> HIDE DEF status
    <2>3. earnings'[e] = [status |-> status, version |-> 1] /\ \A d \in Earnings \ {e} : earnings'[d] = earnings[d]
      BY <2>1 DEF TypeOK
    <2>4. \A d \in Earnings : earnings'[d].version >= earnings[d].version /\ earnings'[d].version \in Nat
      BY <1>1, <2>1, <2>3 DEF NoEarning
    <2>5. ASSUME NEW d \in Earnings, earnings'[d] # NoEarning
          PROVE  LET last == IF earnings'[d].status = "settling" THEN earnings'[d].version - 1
                             ELSE earnings'[d].version
                     st == IF earnings'[d].status = "settling" THEN "available" ELSE earnings'[d].status
                 IN /\ [earning |-> d, kind |-> Explains(st), version |-> last] \in journal'
                    /\ Event("earning", d, st, last) \in outbox'
      <3>1. CASE d = e
        BY <2>1, <2>2, <2>3, <3>1
      <3>2. CASE d # e
        BY <2>1, <2>3, <2>5, <3>2 DEF JournalExplains
      <3> QED
        BY <3>1, <3>2
    <2>6. ASSUME NEW entry \in journal' PROVE entry.version <= earnings'[entry.earning].version
      <3>1. CASE entry \in journal
        <4>1. entry.earning \in Earnings /\ entry.version \in Nat
          BY <3>1 DEF TypeOK
        <4> QED
          BY <1>1, <2>4, <3>1, <4>1 DEF JournalExplains
      <3>2. CASE entry \notin journal
        BY <2>1, <2>3, <3>2
      <3> QED
        BY <3>1, <3>2
    <2>7. ASSUME NEW event \in outbox'
          PROVE  /\ event.aggregate = "earning" => event.version <= earnings'[event.id].version
                 /\ event.id \in IF event.aggregate = "earning" THEN Earnings ELSE Settlements
      <3>1. CASE event \in outbox
        <4>1. event.version \in Nat
          BY <3>1 DEF TypeOK
        <4> QED
          BY <1>1, <2>4, <3>1, <4>1 DEF JournalExplains, EventIds
      <3>2. CASE event = Event("earning", e, status, 1)
        BY <2>3, <3>2 DEF Event
      <3> QED
        BY <2>1, <3>1, <3>2
    <2> QED
      BY <2>5, <2>6, <2>7 DEF JournalExplains, EventIds
  <1>3. ASSUME NEW c \in Clients, StartSettlement(c) PROVE JournalExplains' /\ EventIds'
    <2>1. PICK s \in Settlements : /\ outbox' = outbox \cup {Event("settlement", s, "submitted", 1)}
                                   /\ earnings' = Transitioned(Seen(c), "start_settlement")
                                   /\ journal' = journal
                                   /\ \A e \in Seen(c) : earnings[e].status = "available"
      BY <1>3 DEF StartSettlement, Claimable
    <2>2. \A e \in Seen(c) : /\ e \in Earnings
                             /\ earnings'[e].status = "settling"
                             /\ earnings'[e].version = earnings[e].version + 1
      BY <2>1 DEF Transitioned, NextStatus, Seen
    <2>3. \A e \in Earnings \ Seen(c) : earnings'[e] = earnings[e]
      BY <2>1 DEF Transitioned
    <2>4. \A e \in Earnings : earnings'[e].version >= earnings[e].version /\ earnings'[e].version \in Nat
      BY <1>1, <2>2, <2>3
    <2>5. ASSUME NEW d \in Earnings, earnings'[d] # NoEarning
          PROVE  LET last == IF earnings'[d].status = "settling" THEN earnings'[d].version - 1
                             ELSE earnings'[d].version
                     st == IF earnings'[d].status = "settling" THEN "available" ELSE earnings'[d].status
                 IN /\ [earning |-> d, kind |-> Explains(st), version |-> last] \in journal'
                    /\ Event("earning", d, st, last) \in outbox'
      <3>1. CASE d \in Seen(c)
        <4>1. earnings[d] # NoEarning /\ earnings[d].status = "available"
          BY <2>1, <3>1 DEF NoEarning
        <4>2. /\ [earning |-> d, kind |-> Explains("available"), version |-> earnings[d].version] \in journal
              /\ Event("earning", d, "available", earnings[d].version) \in outbox
          BY <4>1 DEF JournalExplains
        <4>3. earnings'[d].status = "settling" /\ earnings'[d].version - 1 = earnings[d].version
          BY <1>1, <2>2, <3>1
        <4> QED
          BY <2>1, <4>2, <4>3
      <3>2. CASE d \notin Seen(c)
        BY <2>1, <2>3, <2>5, <3>2 DEF JournalExplains
      <3> QED
        BY <3>1, <3>2
    <2>6. ASSUME NEW entry \in journal' PROVE entry.version <= earnings'[entry.earning].version
      <3>1. entry \in journal /\ entry.earning \in Earnings /\ entry.version \in Nat
        BY <2>1 DEF TypeOK
      <3> QED
        BY <1>1, <2>4, <3>1 DEF JournalExplains
    <2>7. ASSUME NEW event \in outbox'
          PROVE  /\ event.aggregate = "earning" => event.version <= earnings'[event.id].version
                 /\ event.id \in IF event.aggregate = "earning" THEN Earnings ELSE Settlements
      <3>1. CASE event \in outbox
        <4>1. event.version \in Nat
          BY <3>1 DEF TypeOK
        <4> QED
          BY <1>1, <2>4, <3>1, <4>1 DEF JournalExplains, EventIds
      <3>2. CASE event = Event("settlement", s, "submitted", 1)
        BY <3>2 DEF Event
      <3> QED
        BY <2>1, <3>1, <3>2
    <2> QED
      BY <2>5, <2>6, <2>7 DEF JournalExplains, EventIds
  <1>4. ASSUME NEW c \in Clients, TransitionEarning(c) PROVE JournalExplains' /\ EventIds'
    <2>1. PICK a \in ManualActions : ApplyTransitions(Seen(c), a, {})
      BY <1>4 DEF TransitionEarning
    <2>2. Seen(c) \in SUBSET Earnings /\ a # "start_settlement"
      BY DEF Seen, ManualActions
    <2> QED
      BY <2>1, <2>2, JournalTransition
  <1>5. ASSUME NEW c \in Clients, FinishSettlement(c) PROVE JournalExplains' /\ EventIds'
    <2> DEFINE further == {Event("settlement", call[c].id,
                                 IF call[c].action = "settle" THEN "settled" ELSE "rejected", 2)}
    <2>1. /\ call[c].id \in Settlements /\ call[c].action # "start_settlement"
          /\ settlements[call[c].id].earnings \in SUBSET Earnings
      BY <1>5 DEF FinishSettlement, TypeOK, CallStates, Batches, NoBatch
    <2>2. ApplyTransitions(settlements[call[c].id].earnings, call[c].action, further)
      BY <1>5 DEF FinishSettlement
    <2>3. \A event \in further : event.aggregate = "settlement" /\ event.id \in Settlements
      BY <2>1 DEF Event
    <2> HIDE DEF further
    <2> QED
      BY <2>1, <2>2, <2>3, JournalTransition
  <1>6. ASSUME MakeAvailableDue PROVE JournalExplains' /\ EventIds'
    <2>1. DueBatch \in SUBSET Earnings
      BY DEF DueBatch, DueEarnings
    <2> QED
      BY <1>6, <2>1, JournalTransition DEF MakeAvailableDue
  <1>7. ASSUME UNCHANGED <<earnings, journal, outbox>> PROVE JournalExplains' /\ EventIds'
    BY <1>7 DEF JournalExplains, EventIds
  <1>8. (\E c \in Clients : GetEarning(c) \/ (\E s \in Settlements : CallComplete(c, s)) \/ Abandon(c)
                              \/ Submit(c) \/ FinishRepeated(c))
          \/ (\E s \in Settlements : HostSubmits(s) \/ ProviderDecides(s)) \/ Tick \/ UNCHANGED vars
        => UNCHANGED <<earnings, journal, outbox>>
    BY DEF GetEarning, CallComplete, Abandon, Submit, FinishRepeated, HostSubmits, ProviderDecides,
           Tick, vars
  <1> QED
    BY <1>2, <1>3, <1>4, <1>5, <1>6, <1>7, <1>8 DEF Next, Step

(* Every earning is explained by the journal entry and the event of its      *)
(* version, and none is ahead of it: no transition is ever refused for an    *)
(* identifier in use (validateEarningTransitionsLocked).                     *)
THEOREM Journal == Spec => []JournalExplains
  <1>1. Init => JournalExplains /\ EventIds
    BY DEF Init, JournalExplains, EventIds
  <1> QED
    BY <1>1, JournalStep, TypeCorrect, PTL DEF Spec
=============================================================================
