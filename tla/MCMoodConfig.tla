---------------------------- MODULE MCMoodConfig ----------------------------
(* The subentries of an entry on small instances. *)
EXTENDS MoodConfig, TLC

Symmetry == Permutations(Subs) \cup Permutations(Letters)
                \cup Permutations(Dialogs) \cup Permutations(MoodDialogs)

\* Modules and moods share no state: one of the two moves.
ModulesOrMoods ==
    /\ SubentryInit
    /\ [][\/ MoodInit /\ Next /\ UNCHANGED moodVars
          \/ Init /\ MoodNext /\ UNCHANGED vars]_subentryVars

=============================================================================
