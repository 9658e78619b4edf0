----------------------------- MODULE RemoteCall -----------------------------
(***************************************************************************)
(* Remote calls of the engine as the screens see them.  A call has a       *)
(* sequence number; the engine announces its start and its end, and        *)
(* reducers/remoteCall.ts folds the announcements into one flag that       *)
(* blocks the screens (src/sagas/remoteCall.ts forwards them, once the     *)
(* terminal is initialized).                                               *)
(***************************************************************************)
EXTENDS Integers

CONSTANT LastCall  \* bound on the sequence numbers

ASSUME LastCallAssumption == LastCall \in Nat

VARIABLES listening,  \* is there a channel?
          announced,  \* the announcements made so far
          state       \* state.remoteCall

vars == <<listening, announced, state>>

Calls == 0 .. LastCall

\* IRemoteCallInfo
Announcements == [sequenceNumber : Calls, isProcessing : BOOLEAN]

Info(call, isProcessing) == [sequenceNumber |-> call, isProcessing |-> isProcessing]

Init == /\ listening = FALSE
        /\ announced = {}
        /\ state = [isProcessing |-> FALSE, lastSequenceNumber |-> -1]

\* Mutant: the end of a call has to be more recent, too.
Accepts_MoreRecentEnd(info) ==
  /\ info.sequenceNumber > state.lastSequenceNumber
  /\ info.isProcessing => ~state.isProcessing

\* The condition of the reducer.
Accepts(info) ==
  /\ info.sequenceNumber >= state.lastSequenceNumber
  /\ \/ /\ info.sequenceNumber > state.lastSequenceNumber
        /\ info.isProcessing
        /\ ~state.isProcessing
     \/ ~info.isProcessing

Reduced(info) ==
  IF Accepts(info)
    THEN [isProcessing |-> info.isProcessing, lastSequenceNumber |-> info.sequenceNumber]
    ELSE state

\* TERMINAL_SETTINGS_INITIALIZED: the channel is opened, or an earlier one is
\* closed and opened again, in one synchronous stretch that loses nothing.
\* Until then the engine has made no call.
Initialized ==
  /\ listening' = TRUE
  /\ UNCHANGED <<announced, state>>

\* An announcement, in any order: the channel hands it to the watcher, which
\* puts it to the reducer.
Announce(info) ==
  /\ listening
  /\ info \notin announced
  /\ announced' = announced \cup {info}
  /\ state' = Reduced(info)
  /\ UNCHANGED listening

Next == Initialized \/ \E info \in Announcements : Announce(info)

Spec == Init /\ [][Next]_vars

-----------------------------------------------------------------------------

TypeOK ==
  /\ listening \in BOOLEAN
  /\ announced \subseteq Announcements
  /\ state \in [isProcessing : BOOLEAN, lastSequenceNumber : Calls \cup {-1}]

\* The screens are blocked only by a call whose end is still to be announced:
\* the reducer avoids "the issue of blocking the UI due to out of sequence
\* events", whatever order starts and ends come in.
NotBlocked ==
  state.isProcessing => /\ Info(state.lastSequenceNumber, TRUE) \in announced
                        /\ Info(state.lastSequenceNumber, FALSE) \notin announced

\* No end is forgotten: the last sequence number is at least that of every
\* call that has ended, so that no late start of an earlier call can block.
EndsRemembered ==
  \A call \in Calls : Info(call, FALSE) \in announced => call <= state.lastSequenceNumber
=============================================================================
