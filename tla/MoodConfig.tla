----------------------------- MODULE MoodConfig -----------------------------
(***************************************************************************)
(* The moods of an entry next to its modules, as the dialogs of            *)
(* config_flow.py change them: MoodSubentryFlowHandler and                 *)
(* MoodImportSubentryFlowHandler.  An import keeps the numbers it knew     *)
(* while it downloads; forms and other imports store meanwhile.            *)
(***************************************************************************)
EXTENDS ModuleConfig, FiniteSets

CONSTANTS
    MoodDialogs,        \* dialogs that import moods
    MoodsPerController

ASSUME MoodsAssumption == MoodsPerController \in Nat

VARIABLES
    moods,              \* the numbers that have a mood subentry
    moodImport          \* moodImport[d]: the numbers an import that downloads
                        \* knew when it began, or None

moodVars == <<moods, moodImport>>
subentryVars == <<vars, moodVars>>

MoodNumbers == 0..(MoodsPerController - 1)
Importing(d) == moodImport[d] # None

-----------------------------------------------------------------------------
\* A number that exists is an error of the form.
AddMood(n) ==
    /\ n \notin moods
    /\ moods' = moods \cup {n}
    /\ UNCHANGED moodImport

RemoveMood(n) ==
    /\ n \in moods
    /\ moods' = moods \ {n}
    /\ UNCHANGED moodImport

BeginMoodImport(d) ==
    /\ ~Importing(d)
    /\ moodImport' = [moodImport EXCEPT ![d] = moods]
    /\ UNCHANGED moods

MoodImportFails(d) ==
    /\ Importing(d)
    /\ moodImport' = [moodImport EXCEPT ![d] = None]
    /\ UNCHANGED moods

\* Mutant of NewMoods: the moods that exist are not left out.
AllNamed(d, named) == named
NewMoods(d, named) == named \ moodImport[d]

\* In the order of their numbers, up to the first that async_add_subentry
\* refuses because it was added meanwhile; the dialog ends there.
StoredMoods(new) == {n \in new : \A m \in new : m <= n => m \notin moods}

MoodNamesArrive(d, named) ==
    /\ Importing(d)
    /\ moods' = moods \cup StoredMoods(NewMoods(d, named))
    /\ moodImport' = [moodImport EXCEPT ![d] = None]

-----------------------------------------------------------------------------
MoodInit ==
    /\ moods = {}
    /\ moodImport = [d \in MoodDialogs |-> None]

MoodNext ==
    \/ \E n \in MoodNumbers : AddMood(n) \/ RemoveMood(n)
    \/ \E d \in MoodDialogs :
          \/ BeginMoodImport(d) \/ MoodImportFails(d)
          \/ \E named \in SUBSET MoodNumbers : MoodNamesArrive(d, named)

SubentryInit == Init /\ MoodInit

SubentryNext ==
    \/ Next /\ UNCHANGED moodVars
    \/ MoodNext /\ UNCHANGED vars

SubentrySpec == SubentryInit /\ [][SubentryNext]_subentryVars

-----------------------------------------------------------------------------
\* An import stores every mood it downloaded a name of and did not know, next to
\* forms and other imports, unless one of these has added a mood since it began:
\* then it stops at the first that is taken and leaves out the ones after it
\* (MoodImportSubentryFlowHandler.async_step_user).
ImportStoresNewMoods ==
    [][\A d \in MoodDialogs, named \in SUBSET MoodNumbers :
          MoodNamesArrive(d, named) =>
             \/ named \subseteq moods' \cup moodImport[d]
             \/ \E n \in named \cap moods : n \notin moodImport[d]]_subentryVars

=============================================================================
