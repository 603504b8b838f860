--------------------------- MODULE RuntimeHandles ---------------------------
(***************************************************************************)
(* The handles of android-runtime/session.cpp that live in tables: spaces, *)
(* paths and actions.  No entry is ever freed: xrDestroySpace and          *)
(* xrDestroyAction only check the handle, and so are stuttering steps      *)
(* here, as are all calls that fail.  A new instance starts the tables of  *)
(* spaces and paths again and leaves the actions.                          *)
(*                                                                         *)
(* Two things are not obvious from one call.  A path is stored cut to 127  *)
(* characters and compared with all that is asked for, so a long path is   *)
(* entered each time it is asked for, and a path of 127 characters may get *)
(* the number of a longer one.  An action space takes its hand from the    *)
(* table of paths when it is created, whichever instance its subaction     *)
(* path is from.                                                           *)
(***************************************************************************)
EXTENDS Naturals, Sequences

CONSTANTS Texts,         \* path strings the application asks for
          Cut,           \* what record.text keeps of each
          Left, Right,   \* "/user/hand/left" and "/user/hand/right"
          MaxSpaces,     \* g_spaces.size()
          MaxPaths,      \* g_paths.size()
          MaxActions,    \* the literal 8 of xrCreateAction_impl
          MaxInstances   \* bound: instances the application creates

ASSUME TextAssumption ==
    /\ Cut \in [Texts -> Texts]
    /\ \A t \in Texts : Cut[Cut[t]] = Cut[t]
    /\ Left \in Texts /\ Right \in Texts /\ Left # Right
    /\ \A t \in Texts : Cut[t] \in {Left, Right} <=> t \in {Left, Right}
    /\ Cut[Left] = Left /\ Cut[Right] = Right

ASSUME TableAssumption == /\ MaxSpaces \in Nat
                          /\ MaxPaths \in Nat
                          /\ MaxActions \in Nat
                          /\ MaxInstances \in Nat

Kinds == {"Reference", "View", "LeftHand", "RightHand"}

NullPath == 0

VARIABLES
    instance,     \* instances created so far
    given,        \* handles without a table: "session", "actionSet"
    spaces,       \* the kinds of g_spaces[0 .. g_spaceCount - 1]
    paths,        \* g_paths[0 .. g_pathCount - 1]
    nextPath,     \* g_nextPath
    actionCount,  \* g_actionCount
    asked,        \* history: the answers of xrStringToPath
    placed        \* history: what each space of the instance was created for

vars == <<instance, given, spaces, paths, nextPath, actionCount, asked, placed>>

Init == /\ instance = 0
        /\ given = {}
        /\ spaces = <<>>
        /\ paths = <<>>
        /\ nextPath = 1
        /\ actionCount = 0
        /\ asked = {}
        /\ placed = {}
----------------------------------------------------------------------------
\* Slip: the paths stay, and are numbered from 1 again.
CreateInstanceKeepingPaths == /\ instance < MaxInstances
                              /\ instance' = instance + 1
                              /\ spaces' = <<>>
                              /\ nextPath' = 1
                              /\ placed' = {}
                              /\ UNCHANGED <<given, paths, actionCount, asked>>

CreateInstance == /\ instance < MaxInstances
                  /\ instance' = instance + 1
                  /\ spaces' = <<>>
                  /\ paths' = <<>>
                  /\ nextPath' = 1
                  /\ placed' = {}
                  /\ UNCHANGED <<given, actionCount, asked>>

\* Slip: the spaces of the session before are forgotten.
CreateSessionForgettingSpaces ==
    /\ instance > 0
    /\ given' = given \cup {"session"}
    /\ spaces' = <<>>
    /\ UNCHANGED <<instance, paths, nextPath, actionCount, asked, placed>>

\* The session handle is valid from now on; the spaces stay.
CreateSession ==
    /\ instance > 0
    /\ given' = given \cup {"session"}
    /\ UNCHANGED <<instance, spaces, paths, nextPath, actionCount, asked, placed>>

CreateActionSet ==
    /\ instance > 0
    /\ given' = given \cup {"actionSet"}
    /\ UNCHANGED <<instance, spaces, paths, nextPath, actionCount, asked, placed>>

CreateAction ==
    /\ "actionSet" \in given
    /\ actionCount < MaxActions
    /\ actionCount' = actionCount + 1
    /\ UNCHANGED <<instance, given, spaces, paths, nextPath, asked, placed>>

\* The i-th action given is valid, also after a new instance.
ValidAction(i) == i <= actionCount
----------------------------------------------------------------------------
(***************************************************************************)
(* Paths.                                                                  *)
(***************************************************************************)
\* Entry i is the first that satisfies a search of the table.
FirstWithText(i, t) == /\ i \in 1 .. Len(paths)
                       /\ paths[i].text = t
                       /\ \A j \in 1 .. i - 1 : paths[j].text # t

Answer(t, p) ==
    asked' = asked \cup {[instance |-> instance, text |-> t, path |-> p]}

FindPath(t) == /\ instance > 0
               /\ \E i \in 1 .. Len(paths) : /\ FirstWithText(i, t)
                                             /\ Answer(t, paths[i].path)
               /\ UNCHANGED <<instance, given, spaces, paths, nextPath,
                              actionCount, placed>>

EnterPath(t) == /\ instance > 0
                /\ \A i \in 1 .. Len(paths) : paths[i].text # t
                /\ Len(paths) < MaxPaths
                /\ paths' = Append(paths, [path |-> nextPath, text |-> Cut[t]])
                /\ nextPath' = nextPath + 1
                /\ Answer(t, nextPath)
                /\ UNCHANGED <<instance, given, spaces, actionCount, placed>>

\* path_text(p) = t
Names(p, t) == \E i \in 1 .. Len(paths) : paths[i].path = p /\ paths[i].text = t

HandOf(t) == CASE t = Left  -> "LeftHand"
               [] t = Right -> "RightHand"
               [] OTHER     -> "Reference"

ActionSpaceKind(p) == CASE Names(p, Left)  -> "LeftHand"
                        [] Names(p, Right) -> "RightHand"
                        [] OTHER           -> "Reference"
----------------------------------------------------------------------------
(***************************************************************************)
(* Spaces.                                                                 *)
(***************************************************************************)
\* The handle of a place is valid while the table reaches that far.
ValidSpace(i) == i \in 1 .. Len(spaces)

\* Slip: the table is not checked for room.
MakeSpaceUnchecked(k) == spaces' = Append(spaces, k)

MakeSpace(k) == /\ Len(spaces) < MaxSpaces
                /\ spaces' = Append(spaces, k)

\* The handle is the place of the space in the table.
PlacedFor(k) ==
    placed' = placed \cup {[slot |-> Len(spaces) + 1, kind |-> k]}

CreateReferenceSpace(k) ==
    /\ "session" \in given
    /\ MakeSpace(k)
    /\ PlacedFor(k)
    /\ UNCHANGED <<instance, given, paths, nextPath, actionCount, asked>>

CreateActionSpace(p) ==
    /\ "session" \in given
    /\ \E i \in 1 .. MaxActions : ValidAction(i)
    /\ MakeSpace(ActionSpaceKind(p))
    /\ UNCHANGED <<instance, given, paths, nextPath, actionCount, asked>>

\* The subaction path is one that the present instance gave for a text.
CreateHandSpace == \E a \in asked : /\ a.instance = instance
                                    /\ CreateActionSpace(a.path)
                                    /\ PlacedFor(HandOf(a.text))

\* It is none, and the space is not bound to a hand.
CreateActionSpaceOnly == /\ CreateActionSpace(NullPath)
                         /\ PlacedFor("Reference")

\* It is from an earlier instance, and names what now has its number.
CreateStaleSpace == \E a \in asked : /\ a.instance < instance
                                     /\ CreateActionSpace(a.path)
                                     /\ UNCHANGED placed
----------------------------------------------------------------------------
Next == \/ CreateInstance \/ CreateSession
        \/ CreateActionSet \/ CreateAction
        \/ \E t \in Texts : FindPath(t) \/ EnterPath(t)
        \/ \E k \in {"Reference", "View"} : CreateReferenceSpace(k)
        \/ CreateHandSpace \/ CreateActionSpaceOnly \/ CreateStaleSpace

Spec == Init /\ [][Next]_vars
----------------------------------------------------------------------------
\* The types of the variables: no table is longer than its array.
TypeOK == /\ instance \in 0 .. MaxInstances
          /\ given \subseteq {"session", "actionSet"}
          /\ spaces \in Seq(Kinds)
          /\ Len(spaces) <= MaxSpaces
          /\ paths \in Seq([path : Nat, text : Texts])
          /\ Len(paths) <= MaxPaths
          /\ nextPath \in Nat
          /\ actionCount \in 0 .. MaxActions
          /\ asked \subseteq [instance : Nat, text : Texts, path : Nat]
          /\ placed \subseteq [slot : Nat \ {0}, kind : Kinds]

\* Within an instance two texts share a path only if they are cut to the same
\* text, and a text that is stored whole has one path for ever, whatever long
\* texts are entered over and over around it.
PathsAgree ==
    \A a, b \in asked : a.instance = b.instance =>
        /\ a.path = b.path => Cut[a.text] = Cut[b.text]
        /\ a.text = b.text /\ Cut[a.text] = a.text => a.path = b.path

\* A space of the present instance is what it was created for, a view, a hand
\* or neither, whatever was created and destroyed before it and since: an
\* action space of a hand is located at that hand.
SpacesKeepKind ==
    \A s \in placed : ValidSpace(s.slot) /\ spaces[s.slot] = s.kind
=============================================================================
