------------------------ MODULE RuntimeHandles_proofs ------------------------
(***************************************************************************)
(* The properties of RuntimeHandles for tables of any size and any number  *)
(* of texts and instances.  None but TypeOK is inductive: they need that a *)
(* path is its place in the table (PathIsPlace) and that the answers of    *)
(* the present instance are still in the table (AnswersInTable).           *)
(***************************************************************************)
EXTENDS RuntimeHandles, SequenceTheorems, TLAPS

\* g_nextPath and g_pathCount count together, and what is stored is cut.
PathIsPlace == /\ nextPath = Len(paths) + 1
               /\ \A i \in 1 .. Len(paths) : /\ paths[i].path = i
                                             /\ Cut[paths[i].text] = paths[i].text

\* An answer of the present instance names the entry of its text, the first
\* one if the text is stored whole; no answer is of a later instance.
AnswersInTable ==
    \A a \in asked :
        /\ a.instance <= instance
        /\ a.instance = instance =>
              /\ a.path \in 1 .. Len(paths)
              /\ paths[a.path].text = Cut[a.text]
              /\ Cut[a.text] = a.text =>
                    \A j \in 1 .. a.path - 1 : paths[j].text # a.text

\* The state calls preserve, as one formula.
IInv == /\ TypeOK
        /\ PathIsPlace
        /\ AnswersInTable
        /\ PathsAgree
        /\ SpacesKeepKind
----------------------------------------------------------------------------
LEMMA InitEstablishes == Init => IInv
BY TextAssumption, TableAssumption
   DEF Init, IInv, TypeOK, PathIsPlace, AnswersInTable, PathsAgree,
       SpacesKeepKind, Kinds

\* xrCreateInstance: no answer is of the new instance, and there is no space.
LEMMA NewInstance == ASSUME IInv, CreateInstance PROVE IInv'
<1>1. instance \in Nat /\ instance' = instance + 1 /\ instance' <= MaxInstances
  BY TableAssumption DEF IInv, TypeOK, CreateInstance
<1>2. paths' = <<>> /\ spaces' = <<>> /\ nextPath' = 1 /\ placed' = {}
      /\ asked' = asked /\ given' = given /\ actionCount' = actionCount
  BY DEF CreateInstance
<1>3. TypeOK'
  BY <1>1, <1>2, TableAssumption DEF IInv, TypeOK, Kinds
<1>4. PathIsPlace' /\ SpacesKeepKind'
  BY <1>2 DEF PathIsPlace, SpacesKeepKind, ValidSpace
<1>5. \A a \in asked : a.instance \in Nat /\ a.instance < instance'
  BY <1>1 DEF IInv, TypeOK, AnswersInTable
<1>6. AnswersInTable' /\ PathsAgree'
  BY <1>1, <1>2, <1>5 DEF IInv, AnswersInTable, PathsAgree
<1> QED BY <1>3, <1>4, <1>6 DEF IInv

\* Calls that touch neither table nor history.
LEMMA OtherCalls ==
    ASSUME IInv,
           \/ CreateSession
           \/ CreateActionSet
           \/ CreateAction
           \/ UNCHANGED vars
    PROVE  IInv'
<1>1. /\ instance' = instance /\ spaces' = spaces /\ paths' = paths
      /\ nextPath' = nextPath /\ asked' = asked /\ placed' = placed
  BY DEF CreateSession, CreateActionSet, CreateAction, vars
<1>2. given' \subseteq {"session", "actionSet"}
  BY DEF IInv, TypeOK, CreateSession, CreateActionSet, CreateAction, vars
<1>3. actionCount' \in 0 .. MaxActions
  <2>1. CASE CreateAction
    BY <2>1, TableAssumption DEF IInv, TypeOK, CreateAction
  <2>2. CASE CreateSession \/ CreateActionSet \/ UNCHANGED vars
    BY <2>2 DEF IInv, TypeOK, CreateSession, CreateActionSet, vars
  <2> QED BY <2>1, <2>2
<1>4. TypeOK'
  BY <1>1, <1>2, <1>3 DEF IInv, TypeOK
<1> QED
  BY <1>1, <1>4
     DEF IInv, PathIsPlace, AnswersInTable, PathsAgree, SpacesKeepKind,
         ValidSpace
----------------------------------------------------------------------------
(***************************************************************************)
(* xrStringToPath.                                                         *)
(***************************************************************************)
\* Answers that are in the table agree with each other.
LEMMA TableAgrees ==
    ASSUME TypeOK', AnswersInTable', PathsAgree, instance' = instance,
           NEW t, NEW p,
           asked' = asked \cup {[instance |-> instance, text |-> t, path |-> p]}
    PROVE  PathsAgree'
<1> SUFFICES ASSUME NEW a \in asked', NEW b \in asked', a.instance = b.instance
             PROVE  /\ a.path = b.path => Cut[a.text] = Cut[b.text]
                    /\ a.text = b.text /\ Cut[a.text] = a.text => a.path = b.path
  BY DEF PathsAgree
<1>1. CASE a.instance = instance
  <2>1. /\ a.path \in 1 .. Len(paths') /\ b.path \in 1 .. Len(paths')
        /\ paths'[a.path].text = Cut[a.text]
        /\ paths'[b.path].text = Cut[b.text]
    BY <1>1 DEF AnswersInTable
  <2>2. ASSUME a.text = b.text, Cut[a.text] = a.text
        PROVE  a.path = b.path
    <3>1. ~(a.path \in 1 .. b.path - 1) /\ ~(b.path \in 1 .. a.path - 1)
      <4>0. ASSUME NEW c \in asked', c.instance = instance, Cut[c.text] = c.text
            PROVE  \A j \in 1 .. c.path - 1 : paths'[j].text # c.text
        BY <4>0 DEF AnswersInTable
      <4>1. /\ \A j \in 1 .. a.path - 1 : paths'[j].text # a.text
            /\ \A j \in 1 .. b.path - 1 : paths'[j].text # b.text
        <5>1. b.instance = instance /\ Cut[b.text] = b.text
          BY <1>1, <2>2
        <5> QED BY <1>1, <2>2, <4>0, <5>1
      <4>2. paths'[a.path].text = a.text /\ paths'[b.path].text = a.text
        BY <2>1, <2>2
      <4> QED BY <2>2, <4>1, <4>2
    <3>2. a.path \in Nat \ {0} /\ b.path \in Nat \ {0}
      <4>1. Len(paths') \in Nat
        BY DEF TypeOK
      <4> QED BY <2>1, <4>1
    <3> QED BY <3>1, <3>2
  <2> QED BY <2>1, <2>2
<1>2. CASE a.instance # instance
  <2>1. a \in asked /\ b \in asked
    BY <1>2
  <2> QED BY <2>1 DEF PathsAgree
<1> QED BY <1>1, <1>2

LEMMA PathFound ==
    ASSUME IInv, NEW t \in Texts, FindPath(t)
    PROVE  IInv'
<1>1. PICK i \in 1 .. Len(paths) :
          FirstWithText(i, t) /\ Answer(t, paths[i].path)
  BY DEF FindPath
<1>2. /\ instance' = instance /\ given' = given /\ spaces' = spaces
      /\ paths' = paths /\ nextPath' = nextPath
      /\ actionCount' = actionCount /\ placed' = placed
  BY DEF FindPath
<1>3. /\ paths[i].path = i /\ paths[i].text = t /\ Cut[t] = t
      /\ \A j \in 1 .. i - 1 : paths[j].text # t
  BY <1>1 DEF IInv, PathIsPlace, FirstWithText
<1>4. asked' = asked \cup {[instance |-> instance, text |-> t, path |-> i]}
  BY <1>1, <1>3 DEF Answer
<1>5. instance \in Nat /\ i \in Nat
  BY TableAssumption DEF IInv, TypeOK
<1>6. TypeOK'
  BY <1>2, <1>4, <1>5 DEF IInv, TypeOK
<1>7. AnswersInTable'
  BY <1>2, <1>3, <1>4, <1>5 DEF IInv, AnswersInTable
<1>8. PathsAgree'
  BY <1>2, <1>4, <1>6, <1>7, TableAgrees DEF IInv
<1>9. PathIsPlace' /\ SpacesKeepKind'
  BY <1>2 DEF IInv, PathIsPlace, SpacesKeepKind, ValidSpace
<1> QED BY <1>6, <1>7, <1>8, <1>9 DEF IInv

LEMMA PathEntered ==
    ASSUME IInv, NEW t \in Texts, EnterPath(t)
    PROVE  IInv'
<1> DEFINE n == Len(paths) + 1
           e == [path |-> n, text |-> Cut[t]]
<1>1. /\ instance' = instance /\ given' = given /\ spaces' = spaces
      /\ actionCount' = actionCount /\ placed' = placed
  BY DEF EnterPath
<1>2. /\ nextPath = n /\ n \in Nat \ {0} /\ n <= MaxPaths
      /\ e \in [path : Nat, text : Texts]
      /\ Cut[t] \in Texts /\ Cut[Cut[t]] = Cut[t]
  BY TextAssumption, TableAssumption DEF IInv, TypeOK, PathIsPlace, EnterPath
<1>3. /\ paths' = Append(paths, e) /\ nextPath' = n + 1
      /\ asked' = asked \cup {[instance |-> instance, text |-> t, path |-> n]}
  BY <1>2 DEF EnterPath, Answer
<1>4. /\ paths' \in Seq([path : Nat, text : Texts]) /\ Len(paths') = n
      /\ \A i \in 1 .. Len(paths) : paths'[i] = paths[i]
      /\ paths'[n] = e
  BY <1>2, <1>3 DEF IInv, TypeOK
<1>5. instance \in Nat
  BY TableAssumption DEF IInv, TypeOK
<1>6. TypeOK'
  BY <1>1, <1>2, <1>3, <1>4, <1>5 DEF IInv, TypeOK
<1>7. PathIsPlace'
  BY <1>2, <1>3, <1>4 DEF IInv, PathIsPlace
<1>8. AnswersInTable'
  <2> SUFFICES ASSUME NEW a \in asked'
               PROVE  /\ a.instance <= instance
                      /\ a.instance = instance =>
                            /\ a.path \in 1 .. n
                            /\ paths'[a.path].text = Cut[a.text]
                            /\ Cut[a.text] = a.text =>
                                  \A j \in 1 .. a.path - 1 :
                                      paths'[j].text # a.text
    BY <1>1, <1>4 DEF AnswersInTable
  <2>1. CASE a \in asked
    <3>1. a.path \in Nat
      BY <2>1 DEF IInv, TypeOK
    <3>2. a.instance <= instance
      BY <2>1 DEF IInv, AnswersInTable
    <3>3. ASSUME a.instance = instance
          PROVE  /\ a.path \in 1 .. Len(paths)
                 /\ paths[a.path].text = Cut[a.text]
                 /\ Cut[a.text] = a.text =>
                       \A j \in 1 .. a.path - 1 : paths[j].text # a.text
      BY <2>1, <3>3 DEF IInv, AnswersInTable
    <3>4. ASSUME a.instance = instance
          PROVE  /\ a.path \in 1 .. n
                 /\ paths'[a.path].text = Cut[a.text]
                 /\ \A j \in 1 .. a.path - 1 : paths'[j] = paths[j]
      <4>1. Len(paths) \in Nat
        BY DEF IInv, TypeOK
      <4>2. a.path \in 1 .. Len(paths)
        BY <3>3, <3>4
      <4>3. a.path \in 1 .. n /\ 1 .. a.path - 1 \subseteq 1 .. Len(paths)
        BY <3>1, <4>1, <4>2
      <4> QED BY <1>4, <3>3, <3>4, <4>2, <4>3
    <3> HIDE DEF n
    <3> QED BY <3>2, <3>3, <3>4
  <2>2. CASE a = [instance |-> instance, text |-> t, path |-> n]
    <3>1. \A j \in 1 .. n - 1 : paths'[j].text # t
      BY <1>2, <1>4 DEF EnterPath
    <3> QED BY <1>2, <1>4, <1>5, <2>2, <3>1
  <2> QED BY <1>3, <2>1, <2>2
<1>9. PathsAgree'
  BY <1>1, <1>3, <1>6, <1>8, TableAgrees DEF IInv
<1>10. SpacesKeepKind'
  BY <1>1 DEF IInv, SpacesKeepKind, ValidSpace
<1> QED BY <1>6, <1>7, <1>8, <1>9, <1>10 DEF IInv
----------------------------------------------------------------------------
(***************************************************************************)
(* Spaces.                                                                 *)
(***************************************************************************)
\* A path that is its place names the text stored there, so an action space
\* whose subaction path was given for a hand is of that hand.
LEMMA HandFound ==
    ASSUME IInv, NEW a \in asked, a.instance = instance
    PROVE  ActionSpaceKind(a.path) = HandOf(a.text)
<1>1. /\ a.path \in 1 .. Len(paths) /\ paths[a.path].text = Cut[a.text]
      /\ a.text \in Texts
  BY DEF IInv, AnswersInTable, TypeOK
<1>2. \A t : Names(a.path, t) <=> Cut[a.text] = t
  BY <1>1 DEF IInv, PathIsPlace, Names
<1>3. /\ Cut[a.text] = Left <=> a.text = Left
      /\ Cut[a.text] = Right <=> a.text = Right
  BY <1>1, TextAssumption
<1> QED BY <1>2, <1>3 DEF ActionSpaceKind, HandOf

\* No text is at NullPath.
LEMMA NoHand == ASSUME IInv PROVE ActionSpaceKind(NullPath) = "Reference"
BY DEF IInv, PathIsPlace, Names, ActionSpaceKind, NullPath

\* A space is added behind those there are; what it is for is noted or not.
LEMMA SpaceMade ==
    ASSUME IInv, NEW k \in Kinds, MakeSpace(k),
           PlacedFor(k) \/ UNCHANGED placed,
           UNCHANGED <<instance, given, paths, nextPath, actionCount, asked>>
    PROVE  IInv'
<1> DEFINE n == Len(spaces) + 1
<1>1. /\ spaces' \in Seq(Kinds) /\ Len(spaces') = n /\ n \in Nat \ {0}
      /\ n <= MaxSpaces /\ spaces'[n] = k
      /\ \A i \in 1 .. Len(spaces) : spaces'[i] = spaces[i]
  BY TableAssumption DEF IInv, TypeOK, MakeSpace
<1>2. placed' \subseteq placed \cup {[slot |-> n, kind |-> k]}
  BY DEF PlacedFor
<1>3. placed' \subseteq [slot : Nat \ {0}, kind : Kinds]
  BY <1>1, <1>2 DEF IInv, TypeOK
<1>4. TypeOK'
  BY <1>1, <1>3 DEF IInv, TypeOK
<1>5. SpacesKeepKind'
  <2> SUFFICES ASSUME NEW s \in placed'
               PROVE  s.slot \in 1 .. Len(spaces') /\ spaces'[s.slot] = s.kind
    BY DEF SpacesKeepKind, ValidSpace
  <2>1. CASE s \in placed
    <3>1. s.slot \in 1 .. Len(spaces) /\ spaces[s.slot] = s.kind
      BY <2>1 DEF IInv, SpacesKeepKind, ValidSpace
    <3>2. s.slot \in 1 .. n
      BY <3>1 DEF IInv, TypeOK
    <3> QED BY <1>1, <3>1, <3>2
  <2>2. CASE s = [slot |-> n, kind |-> k]
    BY <1>1, <2>2
  <2> QED BY <1>2, <2>1, <2>2
<1>6. PathIsPlace' /\ AnswersInTable' /\ PathsAgree'
  BY DEF IInv, PathIsPlace, AnswersInTable, PathsAgree
<1> QED BY <1>4, <1>5, <1>6 DEF IInv

LEMMA SpaceCalls ==
    ASSUME IInv,
           \/ \E k \in {"Reference", "View"} : CreateReferenceSpace(k)
           \/ CreateHandSpace
           \/ CreateActionSpaceOnly
           \/ CreateStaleSpace
    PROVE  IInv'
<1>0. \A p : ActionSpaceKind(p) \in Kinds
  BY DEF ActionSpaceKind, Kinds
<1>1. ASSUME NEW k \in {"Reference", "View"}, CreateReferenceSpace(k)
      PROVE  IInv'
  BY <1>1, SpaceMade DEF CreateReferenceSpace, Kinds
<1>2. CASE CreateHandSpace
  <2>1. PICK a \in asked : /\ a.instance = instance
                           /\ CreateActionSpace(a.path)
                           /\ PlacedFor(HandOf(a.text))
    BY <1>2 DEF CreateHandSpace
  <2>2. PlacedFor(ActionSpaceKind(a.path))
    BY <2>1, HandFound
  <2> QED BY <1>0, <2>1, <2>2, SpaceMade DEF CreateActionSpace
<1>3. CASE CreateActionSpaceOnly
  <2>1. PlacedFor(ActionSpaceKind(NullPath))
    BY <1>3, NoHand DEF CreateActionSpaceOnly
  <2> QED
    BY <1>0, <1>3, <2>1, SpaceMade DEF CreateActionSpaceOnly, CreateActionSpace
<1>4. CASE CreateStaleSpace
  BY <1>0, <1>4, SpaceMade DEF CreateStaleSpace, CreateActionSpace
<1> QED BY <1>1, <1>2, <1>3, <1>4
----------------------------------------------------------------------------
LEMMA Preserved == IInv /\ [Next]_vars => IInv'
<1> SUFFICES ASSUME IInv, [Next]_vars PROVE IInv'
  OBVIOUS
<1>1. CASE CreateInstance
  BY <1>1, NewInstance
<1>2. CASE CreateSession \/ CreateActionSet \/ CreateAction \/ UNCHANGED vars
  BY <1>2, OtherCalls
<1>3. ASSUME NEW t \in Texts, FindPath(t) PROVE IInv'
  BY <1>3, PathFound
<1>4. ASSUME NEW t \in Texts, EnterPath(t) PROVE IInv'
  BY <1>4, PathEntered
<1>5. CASE \/ \E k \in {"Reference", "View"} : CreateReferenceSpace(k)
           \/ CreateHandSpace \/ CreateActionSpaceOnly \/ CreateStaleSpace
  BY <1>5, SpaceCalls
<1> QED BY <1>1, <1>2, <1>3, <1>4, <1>5 DEF Next

LEMMA Invariance == Spec => []IInv
BY InitEstablishes, Preserved, PTL DEF Spec

\* The tables of spaces, paths and actions never run over their arrays.
THEOREM TypeCorrect == Spec => []TypeOK
<1>1. IInv => TypeOK
  BY DEF IInv
<1> QED BY Invariance, <1>1, PTL

\* xrStringToPath gives a text that is stored whole one path per instance,
\* and two texts the same path only if they are stored alike.
THEOREM OnePathPerText == Spec => []PathsAgree
<1>1. IInv => PathsAgree
  BY DEF IInv
<1> QED BY Invariance, <1>1, PTL

\* A space of the present instance is located as what it was created for.
THEOREM SpacesTrue == Spec => []SpacesKeepKind
<1>1. IInv => SpacesKeepKind
  BY DEF IInv
<1> QED BY Invariance, <1>1, PTL
=============================================================================
