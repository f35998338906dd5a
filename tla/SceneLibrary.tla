---------------------------- MODULE SceneLibrary ----------------------------
(***************************************************************************)
(* The scene configurations of a session and the list of scenes on the     *)
(* desk: the LV1 actor announces every list, Scenes aligns its             *)
(* configurations with it, and a lost announcement is made up for by a     *)
(* snapshot.                                                               *)
(*                                                                         *)
(* Every scene of the desk carries an identity the protocol does not show; *)
(* "of" is the one of the scene a configuration was made for, or linked to *)
(* by the user.  A configuration is otherwise its UUID and its locator.    *)
(* One generation with accepted peers; ScenesRecall models the others.     *)
(***************************************************************************)
EXTENDS Integers, Sequences, FiniteSets, SequencesExt

CONSTANTS
    Names,       \* scene names the operator may give
    MaxScenes,   \* bound: scenes on the desk
    Scenarios    \* initial desk and how often each kind of event may happen

Kinds == {"edit", "rename", "lose", "lag", "link", "delete", "cue", "go", "replace", "save"}

ASSUME LibraryAssumption ==
    /\ MaxScenes \in Nat
    /\ \A s \in Scenarios : /\ s.desk \in Seq([scene : Nat, name : Names]) \ {<<>>}
                            /\ s.left \in [Kinds -> Nat]

VARIABLES
    desk,      \* the scenes of the desk, in order
    edition,   \* how often the desk changed
    up,        \* LV1: the session is connected
    known,     \* LV1: its scene list was received
    facts,     \* bus: facts queued for Scenes
    lagged,    \* bus: the oldest of them were lost
    status,    \* scene_library_status
    seen,      \* last_scene_list, or None
    revision,  \* scene_list_revision
    recovery,  \* pending_lag_recovery, or None
    configs,   \* scene_configs
    ids,       \* UUIDs handed out so far
    followed,  \* history: the edition last aligned with
    clear,     \* history: no edition was missed or ambiguous, no linked config removed
    left       \* how many events of each kind may still happen

lv1Vars == <<desk, edition, up, known>>
trackVars == <<status, seen, revision, recovery>>
documentVars == <<configs, ids, followed, clear>>
libraryVars == <<lv1Vars, facts, lagged, trackVars, documentVars, left>>

None == <<>>   \* no list, no recovery: an empty desk is never announced
Unlinked == 0
Spend(kind) == left[kind] > 0 /\ left' = [left EXCEPT ![kind] = @ - 1]

UniqueNames(list) == \A i, j \in DOMAIN list : list[i].name = list[j].name => i = j

-----------------------------------------------------------------------------
(* Alignment of configurations with a list, align_by_current_lv1_order *)

\* The elements of a sequence at some of its positions.
Kept(s, positions) ==
    LET kept[n \in 0 .. Len(s)] ==
            IF n = 0 THEN <<>>
            ELSE IF n \in positions THEN Append(kept[n - 1], s[n]) ELSE kept[n - 1]
    IN kept[Len(s)]

LinkedAt(cs) == {k \in DOMAIN cs : cs[k].index # Unlinked}
Linked(cs) == Kept(cs, LinkedAt(cs))

\* The positions of a sequence of scenes or configurations that bear a name.
Named(s, name) == {k \in DOMAIN s : s[k].name = name}

\* Mutant of SoleRename: lists of any lengths are compared index by index.
SoleRenameAnyLength(linked, list) ==
    LET differing == {k \in DOMAIN linked : linked[k].index \in DOMAIN list
                                            /\ linked[k].name # list[linked[k].index].name}
    IN IF Cardinality(differing) = 1 THEN linked[CHOOSE k \in differing : TRUE].index ELSE Unlinked

\* The index of the one scene that may have been renamed in place.
SoleRename(linked, list) ==
    LET differing == {k \in DOMAIN linked : linked[k].name # list[linked[k].index].name}
    IN IF /\ Len(linked) = Len(list)
          /\ \A k \in DOMAIN linked : linked[k].index \in DOMAIN list
          /\ Cardinality(differing) = 1
       THEN linked[CHOOSE k \in differing : TRUE].index
       ELSE Unlinked

UniquelyNamed(linked, list, name) ==
    Cardinality(Named(linked, name)) = 1 /\ Cardinality(Named(list, name)) = 1

\* The configurations of rest that the i-th scene may take over: the best matches.
Matches(rest, linked, list, i) ==
    LET exact == {k \in Named(rest, list[i].name) : rest[k].index = i}
        named == IF UniquelyNamed(linked, list, list[i].name)
                 THEN Named(rest, list[i].name) ELSE {}
        renamed == {k \in DOMAIN rest : rest[k].index = i /\ SoleRename(linked, list) = i}
    IN IF exact # {} THEN exact ELSE IF named # {} THEN named ELSE renamed

Locate(config, list, i) == [config EXCEPT !.index = i, !.name = list[i].name]
Default(id, list, i) == [id |-> id, index |-> i, name |-> list[i].name, of |-> list[i].scene]

\* One scene of the list: next are the configurations aligned so far, rest the
\* linked ones not matched yet.
AlignScene(linked, list, acc, i) ==
    LET found == Matches(acc.rest, linked, list, i)
    IN IF found = {}
       THEN [acc EXCEPT !.next = Append(@, Default(acc.ids + 1, list, i)), !.ids = @ + 1]
       ELSE LET k == Min(found)
            IN [acc EXCEPT !.next = Append(@, Locate(acc.rest[k], list, i)),
                           !.rest = RemoveAt(@, k)]

\* The scenes of the list one after the other.
Aligned(linked, list) ==
    LET aligned[i \in 0 .. Len(list)] ==
            IF i = 0 THEN [next |-> <<>>, rest |-> linked, ids |-> ids]
            ELSE AlignScene(linked, list, aligned[i - 1], i)
    IN aligned[Len(list)]

Unlink(s) == [k \in DOMAIN s |-> [s[k] EXCEPT !.index = Unlinked]]

Align(cs, list) ==
    LET aligned == Aligned(Linked(cs), list)
    IN [configs |-> aligned.next \o Unlink(aligned.rest) \o Kept(cs, DOMAIN cs \ LinkedAt(cs)),
        ids |-> aligned.ids]

-----------------------------------------------------------------------------
(* The desk and the LV1 actor *)

Publish(fact) == facts' = Append(facts, fact)
ListFact == [kind |-> "list", list |-> desk', edition |-> edition']

InsertScene ==
    \E i \in 1 .. Len(desk) + 1, n \in Names :
        /\ Len(desk) < MaxScenes
        /\ desk' = InsertAt(desk, i, [scene |-> edition' + MaxScenes, name |-> n])
RemoveScene == \E i \in DOMAIN desk : Len(desk) > 1 /\ desk' = RemoveAt(desk, i)
MoveScene ==
    \E i, j \in DOMAIN desk : i # j /\ desk' = InsertAt(RemoveAt(desk, i), j, desk[i])
RenameScene ==
    \E i \in DOMAIN desk, n \in Names : desk[i].name # n /\ desk' = [desk EXCEPT ![i].name = n]

\* The operator edits the desk's list; a connected console announces the new one.
DeskEdit ==
    /\ edition' = edition + 1
    /\ \/ Spend("edit") /\ (InsertScene \/ RemoveScene \/ MoveScene)
       \/ Spend("rename") /\ RenameScene
    /\ IF known THEN Publish(ListFact) ELSE UNCHANGED facts
    /\ UNCHANGED <<up, known, lagged, trackVars, documentVars>>

Lose ==
    /\ up /\ Spend("lose")
    /\ up' = FALSE /\ known' = FALSE
    /\ Publish([kind |-> "gone"])
    /\ UNCHANGED <<desk, edition, lagged, trackVars, documentVars>>

Reconnect ==
    /\ ~up /\ up' = TRUE
    /\ UNCHANGED <<desk, edition, known, facts, lagged, trackVars, documentVars, left>>

Announce ==
    /\ up /\ ~known /\ known' = TRUE
    /\ UNCHANGED <<desk, edition, up>> /\ Publish(ListFact)
    /\ UNCHANGED <<lagged, trackVars, documentVars, left>>

\* GetState, answered with the list LV1 has at that moment.
AnswerRecovery ==
    /\ recovery # None /\ ~recovery.answered
    /\ recovery' = [recovery EXCEPT !.answered = TRUE, !.edition = edition,
                                    !.list = IF known THEN desk ELSE None]
    /\ UNCHANGED <<lv1Vars, facts, lagged, status, seen, revision, documentVars, left>>

\* The channel overwrites the oldest fact.
BusLag ==
    /\ facts # <<>> /\ Spend("lag")
    /\ facts' = Tail(facts) /\ lagged' = TRUE
    /\ UNCHANGED <<lv1Vars, trackVars, documentVars>>

-----------------------------------------------------------------------------
(* Scenes *)

\* apply_scene_list: the list becomes the one seen and the library is ready.
Apply(list, listEdition) ==
    LET aligned == Align(configs, list)
    IN /\ configs' = aligned.configs /\ ids' = aligned.ids
       /\ seen' = list /\ status' = "ready"
       /\ followed' = listEdition
       /\ clear' = (clear /\ listEdition \in followed .. followed + 1 /\ UniqueNames(list))

Receives(kind) == ~lagged /\ facts # <<>> /\ Head(facts).kind = kind /\ facts' = Tail(facts)

ReceiveList ==
    /\ Receives("list")
    /\ revision' = revision + 1
    /\ Apply(Head(facts).list, Head(facts).edition)
    /\ UNCHANGED <<lv1Vars, lagged, recovery, left>>

ReceiveDisconnected ==
    /\ Receives("gone")
    /\ recovery' = None /\ revision' = revision + 1
    /\ status' = "awaiting" /\ seen' = None
    /\ UNCHANGED <<lv1Vars, lagged, documentVars, left>>

\* Everything still queued is discarded and a snapshot is asked for.
ReceiveLag ==
    /\ lagged /\ lagged' = FALSE /\ facts' = <<>>
    /\ status' = "awaiting" /\ seen' = None
    /\ recovery' = [revision |-> revision, answered |-> FALSE, list |-> None, edition |-> 0]
    /\ UNCHANGED <<lv1Vars, revision, documentVars, left>>

Quiet == facts = <<>> /\ ~lagged

\* Mutant of FinishRecovery: the snapshot counts although a newer list was applied.
FinishRecoveryAnyway ==
    /\ Quiet /\ recovery # None /\ recovery.answered /\ recovery' = None
    /\ IF recovery.list # None
       THEN Apply(recovery.list, recovery.edition)
       ELSE UNCHANGED <<documentVars, status, seen>>
    /\ UNCHANGED <<lv1Vars, facts, lagged, revision, left>>

FinishRecovery ==
    /\ Quiet /\ recovery # None /\ recovery.answered /\ recovery' = None
    /\ IF recovery.revision = revision /\ recovery.list # None
       THEN Apply(recovery.list, recovery.edition)
       ELSE UNCHANGED <<documentVars, status, seen>>
    /\ UNCHANGED <<lv1Vars, facts, lagged, revision, left>>

\* LinkSceneConfig: an unlinked configuration takes a scene, and the place of
\* the configuration that has it, which is removed.
LinkConfig ==
    /\ status = "ready" /\ Spend("link")
    /\ \E k \in DOMAIN configs, i \in DOMAIN seen, overwrite \in BOOLEAN :
          LET owners == {j \in DOMAIN configs : configs[j].index = i}
              linked == [configs EXCEPT ![k] = [Locate(@, seen, i) EXCEPT !.of = seen[i].scene]]
          IN /\ configs[k].index = Unlinked
             /\ owners = {} \/ overwrite
             /\ configs' = IF owners = {} THEN linked ELSE RemoveAt(linked, Min(owners))
    /\ UNCHANGED <<lv1Vars, facts, lagged, trackVars, ids, followed, clear>>

DeleteConfig ==
    /\ Spend("delete")
    /\ \E k \in DOMAIN configs :
          /\ configs' = RemoveAt(configs, k)
          /\ clear' = (clear /\ configs[k].index = Unlinked)
    /\ UNCHANGED <<lv1Vars, facts, lagged, trackVars, ids, followed>>

-----------------------------------------------------------------------------
\* A connected desk, its list aligned with a blank session.
LibraryInit ==
    \E s \in Scenarios :
        /\ desk = s.desk /\ left = s.left
        /\ edition = 0 /\ up = TRUE /\ known = TRUE /\ facts = <<>> /\ lagged = FALSE
        /\ status = "ready" /\ seen = desk /\ revision = 0 /\ recovery = None
        /\ configs = [i \in DOMAIN desk |-> Default(i, desk, i)] /\ ids = Len(desk)
        /\ followed = 0 /\ clear = UniqueNames(desk)

Console == DeskEdit \/ Lose \/ Reconnect \/ Announce \/ AnswerRecovery \/ BusLag

-----------------------------------------------------------------------------
(* Properties *)

\* A library that calls itself ready and has heard everything shows the list of
\* the desk it is connected to: no snapshot taken before a newer announcement
\* overwrites it (scenes/actor.rs:682).
ReadyIsCurrent == status = "ready" /\ Quiet => known /\ seen = desk

\* As long as every change of the desk was seen, one at a time and under unique
\* names, each scene of the list has exactly one configuration, the one made for
\* it: alignment gives no configuration to another scene and loses none.
ConfigFollowsScene ==
    clear /\ status = "ready" =>
        \A i \in DOMAIN seen :
            LET owners == {k \in DOMAIN configs : configs[k].index = i}
            IN Cardinality(owners) = 1
               /\ \A k \in owners : configs[k].of = seen[i].scene /\ configs[k].name = seen[i].name
=============================================================================
