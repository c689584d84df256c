--------------------------- MODULE ProfileStatus ---------------------------
(***************************************************************************)
(* The denial bookkeeping of a ResourceSigningProfile                      *)
(* (shield/pkg/apis/resourcesigningprofile/v1alpha1/types.go).             *)
(*                                                                         *)
(* UpdateStatus increments DenyCount, finds or creates the Summary entry   *)
(* of the request's GroupVersionKind, and prepends the new denial to       *)
(* Latest, keeping at most maxHistoryLength entries.  This module checks   *)
(* the operator against a reference definition computed from the whole     *)
(* history of calls.                                                       *)
(***************************************************************************)
EXTENDS Naturals, Sequences, SequencesExt

CONSTANTS
    GVKs,       \* GroupVersionKinds of denied requests (model values)
    Messages,   \* denial messages, abstracted to a small set
    MaxCalls    \* bound on the number of UpdateStatus calls explored

ASSUME MaxCalls \in Nat

\* const maxHistoryLength = 3
maxHistoryLength == 3

\* A denial as recorded in Latest: the request's GVK and the result message.
Detail == [gvk : GVKs, msg : Messages]

EmptyStatus == [denyCount |-> 0, summary |-> <<>>, latest |-> <<>>]

\* Mutant of UpdateStatus: the new denial is appended after the existing
\* Latest entries instead of prepended, so truncation drops the newest.
UpdateStatusAppendLatest(st, gvk, msg) ==
    LET ids     == {i \in 1..Len(st.summary) : st.summary[i].gvk = gvk}
        summary == IF ids = {}
                   THEN Append(st.summary, [gvk |-> gvk, count |-> 1])
                   ELSE [st.summary EXCEPT ![Max(ids)].count = @ + 1]
        events  == Append(st.latest, [gvk |-> gvk, msg |-> msg])
        latest  == IF Len(events) > maxHistoryLength
                   THEN SubSeq(events, 1, maxHistoryLength)
                   ELSE events
    IN  [denyCount |-> st.denyCount + 1, summary |-> summary, latest |-> latest]

\* Mutant of UpdateStatus: Latest is never truncated.
UpdateStatusNoTruncate(st, gvk, msg) ==
    LET ids     == {i \in 1..Len(st.summary) : st.summary[i].gvk = gvk}
        summary == IF ids = {}
                   THEN Append(st.summary, [gvk |-> gvk, count |-> 1])
                   ELSE [st.summary EXCEPT ![Max(ids)].count = @ + 1]
    IN  [denyCount |-> st.denyCount + 1, summary |-> summary,
         latest |-> <<[gvk |-> gvk, msg |-> msg]>> \o st.latest]

(***************************************************************************)
(* ResourceSigningProfile.UpdateStatus.  The Summary loop has no break,    *)
(* so it keeps the LAST index whose GVK matches.                           *)
(***************************************************************************)
UpdateStatus(st, gvk, msg) ==
    LET ids     == {i \in 1..Len(st.summary) : st.summary[i].gvk = gvk}
        summary == IF ids = {}
                   THEN Append(st.summary, [gvk |-> gvk, count |-> 1])
                   ELSE [st.summary EXCEPT ![Max(ids)].count = @ + 1]
        events  == <<[gvk |-> gvk, msg |-> msg]>> \o st.latest
        latest  == IF Len(events) > maxHistoryLength
                   THEN SubSeq(events, 1, maxHistoryLength)
                   ELSE events
    IN  [denyCount |-> st.denyCount + 1, summary |-> summary, latest |-> latest]

VARIABLES
    status,   \* the profile's Status
    history   \* ghost: every denial passed to UpdateStatus, oldest first

vars == <<status, history>>

TypeOK ==
    /\ status.denyCount \in 0..MaxCalls
    /\ status.summary \in Seq([gvk : GVKs, count : 1..MaxCalls])
    /\ status.latest \in Seq(Detail)
    /\ Len(status.latest) <= maxHistoryLength
    /\ history \in Seq(Detail)

Init ==
    /\ status = EmptyStatus
    /\ history = <<>>

\* One denial charged to this profile (RSPLoader.UpdateStatus calling it).
Deny(gvk, msg) ==
    /\ Len(history) < MaxCalls
    /\ status' = UpdateStatus(status, gvk, msg)
    /\ history' = Append(history, [gvk |-> gvk, msg |-> msg])

\* The model stops after MaxCalls denials.
Finished ==
    /\ Len(history) = MaxCalls
    /\ UNCHANGED vars

Next ==
    \/ \E g \in GVKs, m \in Messages : Deny(g, m)
    \/ Finished

Spec == Init /\ [][Next]_vars

-----------------------------------------------------------------------------
(* Reference definition of the status after the calls in `history`. *)

CountOf(g) == Len(SelectSeq(history, LAMBDA d : d.gvk = g))

RefLatest ==
    LET newestFirst == Reverse(history)
    IN  SubSeq(newestFirst, 1, IF Len(newestFirst) < maxHistoryLength
                                THEN Len(newestFirst) ELSE maxHistoryLength)

(***************************************************************************)
(* After any sequence of denials the status agrees with the history that  *)
(* produced it: DenyCount is the number of denials, Summary has exactly    *)
(* one entry per GVK ever denied, carrying that GVK's number of denials,   *)
(* and Latest holds the newest denials, newest first, at most three.       *)
(* This is what UpdateStatus's find-or-append on Summary and its           *)
(* prepend-and-truncate on Latest must maintain together.                  *)
(***************************************************************************)
StatusMatchesHistory ==
    /\ status.denyCount = Len(history)
    /\ \A i, j \in 1..Len(status.summary) :
          status.summary[i].gvk = status.summary[j].gvk => i = j
    /\ {s.gvk : s \in ToSet(status.summary)} = {d.gvk : d \in ToSet(history)}
    /\ \A i \in 1..Len(status.summary) :
          status.summary[i].count = CountOf(status.summary[i].gvk)
    /\ status.latest = RefLatest

=============================================================================
