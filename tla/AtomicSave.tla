------------------------------ MODULE AtomicSave ------------------------------
(***************************************************************************)
(* What saving a remote file promises, whatever else happens to the file.  *)
(*                                                                         *)
(* A save that may rename over its target replaces it in one step: nobody  *)
(* sees it missing or half written.  Once that was refused, and only then, *)
(* the file may be missing, or hold the first bytes of the new content; a  *)
(* save that fails then may leave it so.                                   *)
(*                                                                         *)
(* A save is reported as saved only if the file held all of its data at    *)
(* some moment of the save.  There is one exception, Overtaken: a save that *)
(* writes over the file itself while another call replaces, removes or     *)
(* writes it.  Nothing tells it, and its data may never have been there.   *)
(***************************************************************************)
EXTENDS Naturals, Sequences

CONSTANTS
    Saves,
    NewContent,   \* the bytes each save writes
    Contents,     \* what can be under the name
    Missing       \* nothing is

VARIABLES
    file,       \* what is under the name
    state,      \* "idle", "writing", "fallback", "landed", "saved", "failed"
    disturbed,  \* saves that write over the file while another call did something to it
    meddling    \* whether a call that is not a save is at work

vars == <<file, state, disturbed, meddling>>

Becomes(s, next) == state' = [state EXCEPT ![s] = next]

(* A save disturbs others, not itself.                                      *)
Disturbs(s) ==
    /\ disturbed' \ {s} \subseteq {r \in Saves : state[r] = "fallback"}
    /\ s \in disturbed' => s \in disturbed

Begun(s) == {SubSeq(NewContent[s], 1, n) : n \in 0..Len(NewContent[s])}

(* What a save in its fallback may make of the file, one step at a time.    *)
Torn(s) == {file, Missing} \cup Begun(s) \cup (IF s \in disturbed THEN Contents ELSE {})

Init ==
    /\ file \in Contents
    /\ state \in [Saves -> {"idle", "saved"}]
    /\ disturbed = {}
    /\ meddling \in BOOLEAN

Begin(s) ==
    /\ state[s] = "idle" /\ Becomes(s, "writing")
    /\ UNCHANGED <<file, disturbed, meddling>>

Replace(s) ==
    /\ state[s] \in {"writing", "fallback"} /\ Becomes(s, "saved")
    /\ file' = NewContent[s]
    /\ Disturbs(s) /\ UNCHANGED meddling

Refuse(s) ==
    /\ state[s] = "writing" /\ Becomes(s, "fallback")
    /\ file' \in {file, NewContent[s]}
    /\ Disturbs(s) /\ UNCHANGED meddling

Tear(s) ==
    /\ state[s] = "fallback"
    /\ file' \in Torn(s)
    /\ Disturbs(s) /\ UNCHANGED <<state, meddling>>

Land(s) ==
    /\ state[s] = "fallback" /\ s \notin disturbed /\ Becomes(s, "landed")
    /\ file = NewContent[s]
    /\ UNCHANGED <<file, disturbed, meddling>>

Overtaken(s) ==
    /\ state[s] = "fallback" /\ s \in disturbed /\ Becomes(s, "landed")
    /\ disturbed' = disturbed \ {s}
    /\ UNCHANGED <<file, meddling>>

Saved(s) ==
    /\ state[s] = "landed" /\ Becomes(s, "saved")
    /\ UNCHANGED <<file, disturbed, meddling>>

Fail(s) ==
    /\ state[s] \in {"idle", "writing", "fallback", "landed"} /\ Becomes(s, "failed")
    /\ file' \in IF state[s] = "fallback" THEN Torn(s) ELSE {file}
    /\ Disturbs(s) /\ UNCHANGED meddling

Meddle ==
    /\ meddling
    /\ file' \in Contents /\ disturbed' \subseteq {r \in Saves : state[r] = "fallback"}
    /\ meddling' \in BOOLEAN /\ UNCHANGED state

Next ==
    \/ \E s \in Saves : \/ Begin(s) \/ Replace(s) \/ Refuse(s) \/ Tear(s) \/ Land(s)
                         \/ Overtaken(s) \/ Saved(s) \/ Fail(s)
    \/ Meddle

Spec == Init /\ [][Next]_vars
===============================================================================
