---------------------------- MODULE OutputMirror -----------------------------
(***************************************************************************)
(* What DobissController promises about the states it caches, without      *)
(* frames, dump requests, timers, locks or tasks.  A cached state is right *)
(* until its output changes.  News of every change follow as long as the   *)
(* host can hear, and end in a right state; when it could not, one answer  *)
(* about every output makes up for it.  Only a write that stores what its  *)
(* outputs no longer have spoils a right state.                            *)
(* StateCache implements it (controller.py).                               *)
(***************************************************************************)

CONSTANTS Outputs, Values, Unknown

VARIABLES
    output,     \* the state of each output
    cached,     \* the state the host has for it, Unknown at first
    standing    \* what the cached state is worth

mvars == <<output, cached, standing>>

\* "due": news are on the way; "spoilt": a write was stored too late;
\* "blind": the host was deaf, or has asked for an answer it does not have yet.
Standings == {"right", "due", "spoilt", "blind"}

MInit ==
    /\ output \in [Outputs -> Values]
    /\ cached = [k \in Outputs |-> Unknown]
    /\ standing = [k \in Outputs |-> "blind"]

\* Outputs change, by a wall switch or a write; an output may be told the state
\* it has, and be reported nevertheless.
Change ==
    /\ output' \in [Outputs -> Values]
    /\ \E told \in SUBSET Outputs :
          /\ \A k \in Outputs \ told : output'[k] = output[k]
          /\ standing' = [k \in Outputs |-> IF k \in told /\ standing[k] # "blind"
                                            THEN "due" ELSE standing[k]]
    /\ UNCHANGED cached

\* A piece of news, old or the last one: that one is what the output has.
Hear(k) ==
    /\ standing[k] \in {"due", "blind"}
    /\ \E v \in Values : cached' = [cached EXCEPT ![k] = v]
    /\ \/ UNCHANGED standing
       \/ /\ standing[k] = "due" /\ cached'[k] = output[k]
          /\ standing' = [standing EXCEPT ![k] = "right"]
    /\ UNCHANGED output

\* A write is stored, for all its outputs at once.  Where news are due, they
\* will correct it.
Store ==
    \E written \in SUBSET Outputs, late \in BOOLEAN : \E value \in [written -> Values] :
       LET settled == {k \in written : standing[k] \notin {"due", "blind"}} IN
       /\ late \/ \A k \in settled : value[k] = output[k]
       /\ cached' = [k \in Outputs |-> IF k \in written THEN value[k] ELSE cached[k]]
       /\ standing' = [k \in Outputs |-> IF k \in settled THEN IF late THEN "spoilt" ELSE "right"
                                         ELSE standing[k]]
       /\ UNCHANGED output

\* The host is deaf, or waits for an answer about every output.
GoBlind ==
    /\ standing' = [k \in Outputs |-> "blind"]
    /\ UNCHANGED <<output, cached>>

Answer ==
    /\ \A k \in Outputs : standing[k] = "blind"
    /\ standing' = [k \in Outputs |-> "due"]
    /\ UNCHANGED <<output, cached>>

MNext == Change \/ (\E k \in Outputs : Hear(k)) \/ Store \/ GoBlind \/ Answer

MSpec == MInit /\ [][MNext]_mvars

MTypeOK ==
    /\ output \in [Outputs -> Values]
    /\ cached \in [Outputs -> Values \cup {Unknown}]
    /\ standing \in [Outputs -> Standings]

\* Where the standing says so the cache is right.
RightIsRight == \A k \in Outputs : standing[k] = "right" => cached[k] = output[k]

=============================================================================
