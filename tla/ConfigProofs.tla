---------------------------- MODULE ConfigProofs ----------------------------
(***************************************************************************)
(* Theorems about Config, for any files, directories and failures.         *)
(***************************************************************************)
EXTENDS Config, SequenceTheorems, FiniteSetTheorems, TLAPS

(***************************************************************************)
(* What the operations on the stack do, and what each label releases.      *)
(***************************************************************************)
LEMMA FrontTop ==
  ASSUME NEW S, NEW s \in Seq(S), s # <<>>
  PROVE  /\ Len(s) \in Nat \ {0} /\ Last(s) \in S /\ Last(s) = s[Len(s)]
         /\ Front(s) \in Seq(S) /\ Len(Front(s)) = Len(s) - 1
         /\ \A k \in 1 .. Len(s) - 1 : Front(s)[k] = s[k]
  <1>1. Len(s) \in Nat \ {0} /\ \A k \in 1 .. Len(s) : s[k] \in S
    OBVIOUS
  <1>2. PICK n \in Nat : Len(s) = n + 1
    <2>1. \A m \in Nat \ {0} : m - 1 \in Nat /\ m = (m - 1) + 1
      OBVIOUS
    <2> QED BY <1>1, <2>1
  <1>3. /\ SubSeq(s, 1, n) \in Seq(S)
        /\ Len(SubSeq(s, 1, n)) = IF 1 <= n THEN n - 1 + 1 ELSE 0
        /\ \A k \in 1 .. n - 1 + 1 : SubSeq(s, 1, n)[k] = s[1 + k - 1]
    <2>1. \A k \in 1 .. n : s[k] \in S
      BY <1>1, <1>2
    <2>2. 1 \in Int /\ n \in Int
      OBVIOUS
    <2> QED BY <2>1, <2>2, SubSeqProperties, SMT
  <1>4. Len(SubSeq(s, 1, n)) = n /\ \A k \in 1 .. n : SubSeq(s, 1, n)[k] = s[k]
    BY <1>3
  <1>5. Len(s) - 1 = n
    BY <1>2
  <1> QED BY <1>1, <1>3, <1>4, <1>5 DEF Front, Last

LEMMA SetTopEffect ==
  ASSUME NEW S, NEW frame \in S, stack \in Seq(S), stack # <<>>, SetTop(frame)
  PROVE  /\ stack' \in Seq(S) /\ Len(stack') = Len(stack) /\ stack' # <<>>
         /\ stack'[Len(stack)] = frame
         /\ \A k \in 1 .. Len(stack) - 1 : stack'[k] = stack[k]
  <1>1. Len(stack) \in Nat \ {0} /\ Front(stack) \in Seq(S) /\ Len(Front(stack)) = Len(stack) - 1
        /\ \A k \in 1 .. Len(stack) - 1 : Front(stack)[k] = stack[k]
    BY FrontTop
  <1> QED BY <1>1 DEF SetTop

LEMMA CallEffect ==
  ASSUME NEW S, NEW frame, NEW file, Waiting(frame) \in S, Frame(file) \in S,
         stack \in Seq(S), stack # <<>>, Call(frame, file)
  PROVE  /\ stack' \in Seq(S) /\ Len(stack') = Len(stack) + 1 /\ stack' # <<>>
         /\ stack'[Len(stack) + 1] = Frame(file)
         /\ stack'[Len(stack)] = Waiting(frame)
         /\ \A k \in 1 .. Len(stack) - 1 : stack'[k] = stack[k]
  <1>1. Len(stack) \in Nat \ {0} /\ Front(stack) \in Seq(S) /\ Len(Front(stack)) = Len(stack) - 1
        /\ \A k \in 1 .. Len(stack) - 1 : Front(stack)[k] = stack[k]
    BY FrontTop
  <1>2. stack' = Append(Append(Front(stack), Waiting(frame)), Frame(file))
    BY DEF Call
  <1> QED BY <1>1, <1>2

LEMMA Labels ==
  /\ FallThrough("final") = {}
  /\ FallThrough("f") = {"f"}
  /\ FallThrough("f_str") = {"f", "f_str"}
  /\ FallThrough("t") = {"f", "f_str", "t"}
  /\ FallThrough("r") = {"f", "f_str", "t", "r"}
  /\ FallThrough("dirname") = {"f", "f_str", "t", "r", "dirname"}
  /\ FallThrough("dir") = {"f", "f_str", "t", "r", "dirname", "dir"}
  <1> DEFINE Among(label) == {m \in 1 .. 7 : \E j \in 1 .. m : Ladder[j] = label}
  <1>1. DOMAIN Ladder = 1 .. 7 /\ Ladder[1] = "dir" /\ Ladder[2] = "dirname" /\ Ladder[3] = "r"
        /\ Ladder[4] = "t" /\ Ladder[5] = "f_str" /\ Ladder[6] = "f" /\ Ladder[7] = "final"
    BY DEF Ladder
  <1>2. /\ Among("final") = {7} /\ Among("f") = {6, 7} /\ Among("f_str") = {5, 6, 7}
        /\ Among("t") = {4, 5, 6, 7} /\ Among("r") = {3, 4, 5, 6, 7}
        /\ Among("dirname") = {2, 3, 4, 5, 6, 7} /\ Among("dir") = {1, 2, 3, 4, 5, 6, 7}
    BY <1>1
  <1>3. \A label : FallThrough(label) = {Ladder[k] : k \in Among(label)} \ {"final"}
    BY <1>1 DEF FallThrough
  <1> HIDE DEF Among
  <1> QED BY <1>1, <1>2, <1>3

LEMMA LeaveEffect ==
  ASSUME NEW S, stack \in Seq(S), stack # <<>>, NEW held, NEW released, NEW code,
         Leave(held, released, code)
  PROVE  /\ stack' \in Seq(S) /\ Len(stack') = Len(stack) - 1
         /\ \A k \in 1 .. Len(stack) - 1 : stack'[k] = stack[k]
         /\ unbalanced' = unbalanced \cup SymDiff(held, released) /\ rc' = code
         /\ stack' = <<>> <=> cpc' = "idle"
         /\ cpc' \in {"idle", "return"}
  <1>1. /\ Len(stack) \in Nat \ {0}
        /\ Front(stack) \in Seq(S) /\ Len(Front(stack)) = Len(stack) - 1
        /\ \A k \in 1 .. Len(stack) - 1 : Front(stack)[k] = stack[k]
    BY FrontTop
  <1>2. stack' = Front(stack) /\ rc' = code /\ unbalanced' = unbalanced \cup SymDiff(held, released)
        /\ cpc' = IF Len(stack) = 1 THEN "idle" ELSE "return"
    BY DEF Leave
  <1>3. Front(stack) = <<>> <=> Len(stack) = 1
    BY <1>1
  <1> QED BY <1>1, <1>2, <1>3

(***************************************************************************)
(* What a call holds follows from where it is: at an item, in a directory, *)
(* or waiting for a file it includes from one or the other.                *)
(***************************************************************************)
AtItem  == {"f", "f_str", "t", "r"}
InEntry == AtItem \cup {"dirname", "dir"}
InCall  == {AtItem \cup {"new_filename"}, InEntry \cup {"new_filename"}}

Holds(frame, sets) == frame.held \in sets /\ frame.file \in DOMAIN Content

Calls ==
  /\ cpc = "idle" <=> stack = <<>>
  /\ \A k \in 1 .. Len(stack) - 1 : Holds(stack[k], InCall)
  /\ cpc = "open" => stack[Len(stack)].held = {}
  /\ cpc = "items" => Holds(stack[Len(stack)], {AtItem})
  /\ cpc = "entries" => Holds(stack[Len(stack)], {InEntry})
  /\ cpc = "return" => Holds(stack[Len(stack)], InCall)

Held ==
  /\ stack \in Seq(FrameType)
  /\ cpc \in {"idle", "open", "items", "entries", "return", "undefined"}
  /\ cpc # "undefined" => Calls
  /\ ReleasesAll

LEMMA HeldInit == Init => Held
  BY DEF Init, Held, Calls, ReleasesAll

(* A step of the loop: the top frame is replaced.                           *)
LEMMA AtItems ==
  ASSUME Held, Calls, stack # <<>>, NEW frame \in FrameType, SetTop(frame),
         cpc' = "items", Holds(frame, {AtItem}), UNCHANGED <<unbalanced, closedir_failed>>
  PROVE  Held'
  <1>1. /\ stack' \in Seq(FrameType) /\ Len(stack') = Len(stack) /\ stack' # <<>>
        /\ stack'[Len(stack)] = frame
        /\ \A k \in 1 .. Len(stack) - 1 : stack'[k] = stack[k]
    BY SetTopEffect DEF Held
  <1>2. \A k \in 1 .. Len(stack') - 1 : Holds(stack'[k], InCall)
    BY <1>1 DEF Calls
  <1> QED BY <1>1, <1>2 DEF Held, Calls, ReleasesAll

LEMMA AtEntries ==
  ASSUME Held, Calls, stack # <<>>, NEW frame \in FrameType, SetTop(frame),
         cpc' = "entries", Holds(frame, {InEntry}), UNCHANGED <<unbalanced, closedir_failed>>
  PROVE  Held'
  <1>1. /\ stack' \in Seq(FrameType) /\ Len(stack') = Len(stack) /\ stack' # <<>>
        /\ stack'[Len(stack)] = frame
        /\ \A k \in 1 .. Len(stack) - 1 : stack'[k] = stack[k]
    BY SetTopEffect DEF Held
  <1>2. \A k \in 1 .. Len(stack') - 1 : Holds(stack'[k], InCall)
    BY <1>1 DEF Calls
  <1> QED BY <1>1, <1>2 DEF Held, Calls, ReleasesAll

(* A call, from an item or from a directory.                                *)
LEMMA Called ==
  ASSUME Held, Calls, stack # <<>>, NEW frame, NEW file \in Files, Call(frame, file),
         Waiting(frame) \in FrameType, Holds(Waiting(frame), InCall),
         UNCHANGED <<unbalanced, closedir_failed>>
  PROVE  Held'
  <1>1. Frame(file) \in FrameType /\ Frame(file).held = {}
    BY DEF Frame, FrameType
  <1>2. /\ stack' \in Seq(FrameType) /\ Len(stack') = Len(stack) + 1 /\ stack' # <<>>
        /\ stack'[Len(stack) + 1] = Frame(file)
        /\ stack'[Len(stack)] = Waiting(frame)
        /\ \A k \in 1 .. Len(stack) - 1 : stack'[k] = stack[k]
    BY <1>1, CallEffect DEF Held
  <1>3. \A k \in 1 .. Len(stack') - 1 : Holds(stack'[k], InCall)
    <2>1. Len(stack) \in Nat
      BY DEF Held
    <2> QED BY <1>2, <2>1 DEF Calls
  <1>4. cpc' = "open"
    BY DEF Call
  <1> QED BY <1>1, <1>2, <1>3, <1>4 DEF Held, Calls, ReleasesAll

(* A return, and one with everything released.                              *)
LEMMA Left ==
  ASSUME Held, Calls, stack # <<>>, NEW held, NEW released, NEW code,
         Leave(held, released, code), ReleasesAll'
  PROVE  Held'
  <1>1. /\ stack' \in Seq(FrameType) /\ Len(stack') = Len(stack) - 1
        /\ \A k \in 1 .. Len(stack) - 1 : stack'[k] = stack[k]
        /\ stack' = <<>> <=> cpc' = "idle"
        /\ cpc' \in {"idle", "return"}
    BY LeaveEffect DEF Held
  <1>2. Len(stack) \in Nat
    BY DEF Held
  <1>3. \A k \in 1 .. Len(stack') : Holds(stack'[k], InCall)
    BY <1>1, <1>2 DEF Calls
  <1>4. stack' # <<>> => Len(stack') \in 1 .. Len(stack')
    BY <1>1
  <1> QED BY <1>1, <1>2, <1>3, <1>4 DEF Held, Calls

LEMMA LeftAll ==
  ASSUME Held, Calls, stack # <<>>, NEW held, NEW code, Leave(held, held, code),
         closedir_failed' = closedir_failed
  PROVE  Held'
  <1>1. unbalanced' = unbalanced
    <2>1. unbalanced' = unbalanced \cup SymDiff(held, held)
      BY LeaveEffect DEF Held
    <2>2. SymDiff(held, held) = {}
      BY DEF SymDiff
    <2> QED BY <2>1, <2>2
  <1>2. ReleasesAll'
    BY <1>1 DEF Held, ReleasesAll
  <1> QED BY <1>2, Left

LEMMA TopFrame ==
  ASSUME Held, stack # <<>>
  PROVE  /\ Top \in FrameType /\ Top = stack[Len(stack)]
         /\ Top.item \in Nat \ {0} /\ Top.left \in SUBSET Files /\ Top.held \in SUBSET Resources
         /\ Step = [Top EXCEPT !.item = Top.item + 1] /\ Step \in FrameType
         /\ Step.held = Top.held /\ Step.file = Top.file
  <1>1. Top \in FrameType /\ Top = stack[Len(stack)]
    BY FrontTop DEF Held, Top
  <1> HIDE DEF Top
  <1>2. Step = [Top EXCEPT !.item = Top.item + 1]
    BY DEF Step
  <1> QED BY <1>1, <1>2 DEF FrameType

(* The items of the file at the top.                                        *)
LEMMA ItemAt ==
  ASSUME Held, Calls, NEW kind, At(kind)
  PROVE  /\ stack # <<>> /\ Holds(Top, {AtItem})
         /\ IsItem(Item) /\ Item.kind = kind
         /\ Top.item \in 1 .. Len(Content[Top.file])
  <1>1. stack # <<>> /\ cpc = "items"
    BY DEF At, Calls
  <1>2. Holds(Top, {AtItem}) /\ Top.item \in Nat \ {0}
    BY <1>1, TopFrame DEF Calls
  <1>3. Top.item <= Len(Content[Top.file]) /\ Item = Content[Top.file][Top.item] /\ Item.kind = kind
    BY DEF At, Items, Item
  <1>4. Top.file \in DOMAIN Content
    BY <1>2 DEF Holds
  <1>5. Top.item \in 1 .. Len(Content[Top.file])
    BY <1>2, <1>3, ContentType
  <1> QED BY <1>1, <1>2, <1>3, <1>4, <1>5, ContentType

LEMMA HeldReading == Held /\ Reading => Held'
  <1> SUFFICES ASSUME Held, Reading PROVE Held'
    OBVIOUS
  <1>a. cpc \notin {"idle", "undefined"} => Calls /\ stack # <<>>
    BY DEF Held, Calls
  <1>b. \A kind : At(kind) => Calls /\ stack # <<>>
    BY <1>a DEF At
  <1>t. stack # <<>> => /\ Top \in FrameType /\ Top = stack[Len(stack)]
                        /\ Step \in FrameType /\ Step.held = Top.held /\ Step.file = Top.file
    BY TopFrame
  <1>1. CASE Open
    <2>1. cpc = "open" /\ Top.file \in DOMAIN Content /\ cpc' = "items" /\ UNCHANGED <<unbalanced, closedir_failed>>
          /\ SetTop([Top EXCEPT !.held = AtItem])
      BY <1>1 DEF Open, AtItem
    <2> DEFINE frame == [Top EXCEPT !.held = AtItem]
    <2>2. frame \in FrameType /\ Holds(frame, {AtItem})
      BY <1>a, <1>t, <2>1 DEF FrameType, AtItem, Resources, Holds
    <2> HIDE DEF frame
    <2>3. SetTop(frame)
      BY <2>1 DEF frame
    <2> QED BY <1>a, <2>1, <2>2, <2>3, AtItems
  <1>2. CASE OpenFails
    BY <1>2, <1>a, LeftAll, Labels DEF OpenFails, Fail
  <1>3. CASE ParseFails
    BY <1>3, <1>a, LeftAll, Labels DEF ParseFails, Fail
  <1>4. CASE ReadFails
    <2>1. Calls /\ stack # <<>> /\ closedir_failed' = closedir_failed
      BY <1>4, <1>a DEF ReadFails
    <2>2. \/ Leave({}, {}, "error") \/ Leave({"f"}, {"f"}, "error")
          \/ Leave({"f", "f_str"}, {"f", "f_str"}, "error")
          \/ Leave({"f", "f_str", "t"}, {"f", "f_str", "t"}, "error")
      BY <1>4, Labels DEF ReadFails, Fail
    <2> QED BY <2>1, <2>2, LeftAll
  <1>s. ASSUME NEW kind, At(kind), SetTop(Step), cpc' = cpc, UNCHANGED <<unbalanced, closedir_failed>>
        PROVE  Held'
    <2>1. cpc' = "items" /\ Calls /\ stack # <<>>
      BY <1>s, <1>b DEF At
    <2>2. Step \in FrameType /\ Holds(Step, {AtItem})
      BY <1>s, <1>b, <1>t, <2>1, ItemAt DEF Holds
    <2> QED BY <1>s, <2>1, <2>2, AtItems
  <1>5. CASE SetBool
    BY <1>5, <1>s DEF SetBool
  <1>6. CASE Ignore
    BY <1>6, <1>s DEF Ignore
  <1>c. ASSUME NEW kind, At(kind), Fail(Top.held, "r"), closedir_failed' = closedir_failed
        PROVE  Held'
    <2>1. Top.held = AtItem
      BY <1>b, <1>c, ItemAt DEF Holds
    <2> QED BY <1>b, <1>c, <2>1, LeftAll, Labels DEF Fail, AtItem
  <1>7. CASE WrongType
    BY <1>7, <1>c DEF WrongType
  <1>8. CASE SetPlugins
    <2>1. CASE Item.ok
      BY <1>8, <2>1, <1>s DEF SetPlugins
    <2>2. CASE ~Item.ok
      BY <1>8, <2>2, <1>c DEF SetPlugins
    <2> QED BY <2>1, <2>2
  <1>9. CASE SetPluginsFails
    BY <1>9, <1>c DEF SetPluginsFails
  <1>10. CASE NameFails \/ OpenMoved
    BY <1>10 DEF NameFails, OpenMoved, Held, ReleasesAll
  <1>11. CASE Include
    <2>1. At("include") /\ Call(Top, Item.file) /\ UNCHANGED <<unbalanced, closedir_failed>>
      BY <1>11 DEF Include
    <2>2. Item.file \in Files /\ Holds(Top, {AtItem})
      BY <1>b, <2>1, ItemAt DEF IsItem
    <2>3. Waiting(Top) \in FrameType /\ Holds(Waiting(Top), InCall)
      BY <1>b, <1>t, <2>1, <2>2 DEF Waiting, FrameType, Holds, InCall, AtItem, Resources
    <2> QED BY <1>b, <2>1, <2>2, <2>3, Called
  <1>12. CASE IncludeFails
    BY <1>12, <1>c DEF IncludeFails
  <1>13. CASE OpenDir
    <2> DEFINE frame == [Top EXCEPT !.held = Top.held \cup {"dirname", "dir"}, !.left = Entries[Item.dir]]
    <2>1. At("include directory") /\ Item.dir \in DOMAIN Entries /\ SetTop(frame)
          /\ cpc' = "entries" /\ UNCHANGED <<unbalanced, closedir_failed>>
      BY <1>13 DEF OpenDir
    <2>2. Holds(Top, {AtItem}) /\ Entries[Item.dir] \subseteq Files
      BY <1>b, <2>1, ItemAt, FilesType
    <2>3. frame \in FrameType /\ Holds(frame, {InEntry})
      BY <1>b, <1>t, <2>1, <2>2 DEF FrameType, Holds, InEntry, AtItem, Resources
    <2> HIDE DEF frame
    <2> QED BY <1>b, <2>1, <2>3, AtEntries
  <1>d. ASSUME NEW kind, At(kind), Fail(Top.held \cup {"dirname"}, "dirname"),
               closedir_failed' = closedir_failed
        PROVE  Held'
    <2>1. Top.held = AtItem
      BY <1>b, <1>d, ItemAt DEF Holds
    <2>2. AtItem \cup {"dirname"} = FallThrough("dirname")
      BY Labels DEF AtItem
    <2> QED BY <1>b, <1>d, <2>1, <2>2, LeftAll DEF Fail
  <1>14. CASE OpenDirFails
    BY <1>14, <1>d DEF OpenDirFails
  <1>15. CASE DirNameFails
    BY <1>15, <1>c, <1>d DEF DirNameFails
  <1>e. cpc = "entries" => Holds(Top, {InEntry})
    BY <1>a, <1>t DEF Calls
  <1>16. CASE ReadEntry
    <2>1. PICK e \in Top.left \ Hidden : Call([Top EXCEPT !.left = Top.left \ {e}], e)
      BY <1>16 DEF ReadEntry
    <2>2. cpc = "entries" /\ UNCHANGED <<unbalanced, closedir_failed>>
      BY <1>16 DEF ReadEntry
    <2> DEFINE frame == [Top EXCEPT !.left = Top.left \ {e}]
    <2>3. e \in Files /\ frame \in FrameType /\ Holds(frame, {InEntry})
      BY <1>a, <1>t, <1>e, <2>1, <2>2 DEF FrameType, Holds
    <2> HIDE DEF frame
    <2>4. Waiting(frame) \in FrameType /\ Holds(Waiting(frame), InCall)
      BY <2>3 DEF Waiting, FrameType, Holds, InCall, InEntry, AtItem, Resources
    <2>5. Call(frame, e)
      BY <2>1 DEF frame
    <2> QED BY <1>a, <2>2, <2>3, <2>4, <2>5, Called
  <1>17. CASE SkipEntry
    <2>1. PICK e \in Top.left \cap Hidden : SetTop([Top EXCEPT !.left = Top.left \ {e}])
      BY <1>17 DEF SkipEntry
    <2>2. cpc = "entries" /\ cpc' = cpc /\ UNCHANGED <<unbalanced, closedir_failed>>
      BY <1>17 DEF SkipEntry
    <2> DEFINE frame == [Top EXCEPT !.left = Top.left \ {e}]
    <2>3. frame \in FrameType /\ Holds(frame, {InEntry})
      BY <1>a, <1>t, <1>e, <2>1, <2>2 DEF FrameType, Holds
    <2> HIDE DEF frame
    <2>4. SetTop(frame)
      BY <2>1 DEF frame
    <2> QED BY <1>a, <2>2, <2>3, <2>4, AtEntries
  <1>18. CASE ReadEntryFails
    <2>1. cpc = "entries" /\ Fail(Top.held, "dir") /\ closedir_failed' = closedir_failed
      BY <1>18 DEF ReadEntryFails
    <2>2. Top.held = FallThrough("dir")
      BY <1>e, <2>1, Labels DEF Holds, InEntry, AtItem
    <2> QED BY <1>a, <2>1, <2>2, LeftAll DEF Fail
  <1>19. CASE CloseDir
    <2> DEFINE frame == [Step EXCEPT !.held = Step.held \ {"dirname", "dir"}]
    <2>1. cpc = "entries" /\ SetTop(frame) /\ cpc' = "items" /\ UNCHANGED <<unbalanced, closedir_failed>>
      BY <1>19 DEF CloseDir
    <2>2. frame \in FrameType /\ frame.held = Step.held \ {"dirname", "dir"} /\ frame.file = Step.file
      BY <1>a, <1>t, <2>1 DEF FrameType
    <2>3. Holds(frame, {AtItem})
      BY <1>a, <1>t, <1>e, <2>1, <2>2 DEF Holds, InEntry, AtItem
    <2> HIDE DEF frame
    <2> QED BY <1>a, <2>1, <2>2, <2>3, AtItems
  <1>20. CASE Return
    <2>0. cpc = "return" /\ Calls /\ stack # <<>> /\ Holds(Top, InCall)
      BY <1>20, <1>a, <1>t DEF Return, Calls
    <2>1. Resumed \in FrameType /\ Resumed.file = Top.file
          /\ Resumed.held = Top.held \ {"new_filename"} /\ Resumed.item \in Nat \ {0}
      BY <1>t, <2>0 DEF Resumed, FrameType
    <2>2. IF InDir THEN Holds(Resumed, {InEntry}) ELSE Holds(Resumed, {AtItem})
      BY <2>0, <2>1 DEF InDir, Holds, InCall, InEntry, AtItem
    <2>3. CASE rc = "ok" /\ InDir
      <3>1. SetTop(Resumed) /\ cpc' = "entries" /\ UNCHANGED <<unbalanced, closedir_failed>>
        BY <1>20, <2>3 DEF Return
      <3> QED BY <2>0, <2>1, <2>2, <2>3, <3>1, AtEntries
    <2>4. CASE rc = "ok" /\ ~InDir
      <3> DEFINE frame == [Resumed EXCEPT !.item = Resumed.item + 1]
      <3>1. SetTop(frame) /\ cpc' = "items" /\ UNCHANGED <<unbalanced, closedir_failed>>
        BY <1>20, <2>4 DEF Return
      <3>2. frame \in FrameType /\ frame.held = Resumed.held /\ frame.file = Resumed.file
        BY <2>1 DEF FrameType
      <3>3. Holds(frame, {AtItem})
        BY <2>2, <2>4, <3>2 DEF Holds
      <3> HIDE DEF frame
      <3> QED BY <2>0, <3>1, <3>2, <3>3, AtItems
    <2>5. CASE rc # "ok"
      <3>1. Resumed.held = FallThrough(IF InDir THEN "dir" ELSE "r")
        BY <2>2, Labels DEF Holds, InEntry, AtItem
      <3>2. Fail(Resumed.held, IF InDir THEN "dir" ELSE "r") /\ closedir_failed' = closedir_failed
        BY <1>20, <2>5 DEF Return
      <3> QED BY <2>0, <3>1, <3>2, LeftAll DEF Fail
    <2> QED BY <2>3, <2>4, <2>5
  <1>21. CASE Done \/ DoneFails
    <2>1. /\ cpc = "items" /\ closedir_failed' = closedir_failed
          /\ \/ Leave(Top.held, {"r", "t", "f_str", "f"}, "ok")
             \/ Leave(Top.held, {"r", "t", "f_str", "f"}, "error")
      BY <1>21 DEF Done, DoneFails
    <2>2. Top.held = {"r", "t", "f_str", "f"}
      BY <1>a, <1>t, <2>1 DEF Calls, Holds, AtItem
    <2> QED BY <1>a, <2>1, <2>2, LeftAll
  <1>22. CASE CloseDirFails
    <2>1. cpc = "entries" /\ Fail(Top.held \ {"dir"}, "dirname") /\ closedir_failed' = closedir_failed
      BY <1>22 DEF CloseDirFails
    <2>2. Top.held \ {"dir"} = FallThrough("dirname")
      BY <1>e, <2>1, Labels DEF Holds, InEntry, AtItem
    <2> QED BY <1>a, <2>1, <2>2, LeftAll DEF Fail
  <1>23. CASE DirCleanupFails
    <2>1. Calls /\ stack # <<>> /\ closedir_failed' = TRUE
          /\ Leave(Resumed.held, FallThrough("dir") \ {"dirname"}, "error")
      BY <1>23, <1>a DEF DirCleanupFails
    <2>2. Top.held \in {InEntry, InEntry \cup {"new_filename"}}
      BY <1>23, <1>a, <1>t, <1>e DEF DirCleanupFails, Calls, Holds, InCall, InDir, AtItem
    <2>3. Resumed.held = InEntry
      BY <1>t, <2>1, <2>2 DEF Resumed, FrameType, InEntry, AtItem
    <2>4. SymDiff(InEntry, FallThrough("dir") \ {"dirname"}) = {"dirname"}
      BY Labels DEF SymDiff, InEntry, AtItem
    <2>5. unbalanced' = unbalanced \cup {"dirname"}
      BY <2>1, <2>3, <2>4, LeaveEffect DEF Held
    <2>6. ReleasesAll'
      BY <2>1, <2>5 DEF Held, ReleasesAll
    <2> QED BY <2>1, <2>6, Left
  <1> QED BY <1>1, <1>2, <1>3, <1>4, <1>5, <1>6, <1>7, <1>8, <1>9, <1>10, <1>11, <1>12,
             <1>13, <1>14, <1>15, <1>16, <1>17, <1>18, <1>19, <1>20, <1>21, <1>22, <1>23 DEF Reading

LEMMA HeldNext == Held /\ [Next]_vars => Held'
  <1> SUFFICES ASSUME Held, [Next]_vars PROVE Held'
    OBVIOUS
  <1>1. CASE ConfInit \/ ConfInitFails
    BY <1>1 DEF ConfInit, ConfInitFails, Held, Calls, ReleasesAll
  <1>2. CASE ConfDeinit
    BY <1>2 DEF ConfDeinit, Held, Calls, ReleasesAll
  <1>3. ASSUME NEW file \in Roots, ConfLoad(file) PROVE Held'
    <2>1. stack' = <<Frame(file)>> /\ cpc' = "open" /\ UNCHANGED <<unbalanced, closedir_failed>>
      BY <1>3 DEF ConfLoad
    <2>2. Frame(file) \in FrameType /\ Frame(file).held = {}
      BY FilesType DEF Frame, FrameType
    <2> HIDE DEF FrameType
    <2> QED BY <2>1, <2>2 DEF Held, Calls, ReleasesAll
  <1>4. CASE Reading
    BY <1>4, HeldReading
  <1>5. CASE Plugins
    BY <1>5 DEF Plugins, reading, Held, Calls, ReleasesAll
  <1>6. CASE UNCHANGED vars
    BY <1>6 DEF vars, reading, Held, Calls, ReleasesAll
  <1> QED BY <1>1, <1>2, <1>3, <1>4, <1>5, <1>6 DEF Next

(* Every call of conf_load_recurse that returns has released what it took   *)
(* and nothing else, for any files and whatever fails, but for dirname when *)
(* closedir fails at dir_cleanup (conf.c:434-467).                          *)
THEOREM Released == Spec => []ReleasesAll
  <1>1. Held => ReleasesAll
    BY DEF Held
  <1> QED BY HeldInit, HeldNext, <1>1, PTL DEF Spec

(***************************************************************************)
(* The plugins.  While files are read nothing is loaded; the entries that  *)
(* are open are those up to at in a load, and in an unload those from at   *)
(* and those that could not be closed.                                     *)
(***************************************************************************)
OpenNow ==
  CASE lpc = "load" -> 1 .. at - 1
    [] lpc = "init" -> 1 .. at
    [] lpc = "unload" -> failed \cup at .. Len(list)
    [] OTHER -> OpenEntries

OpenOf(l) == {k \in OpenNow : list[k].lib = l}

Loading ==
  /\ cpc # "idle" => lpc = "idle" /\ loaded = "no"
  /\ lpc \in {"load", "init"} => loaded = "no" /\ at \in 1 .. Len(list) + 1
  /\ lpc = "init" => at \in 1 .. Len(list)
  /\ lpc = "unload" => loaded = "yes" /\ at \in 1 .. Len(list) + 1 /\ failed \subseteq 1 .. at - 1
  /\ loaded = "partly" => lpc = "idle" /\ at \in 1 .. Len(list)
  /\ loaded = "left" => lpc = "idle" /\ failed \subseteq 1 .. Len(list)

PluginTypes ==
  /\ list \in Seq(PluginType) /\ at \in Nat
  /\ lpc \in {"idle", "load", "init", "unload"}
  /\ failed \subseteq Nat /\ loaded \in {"no", "yes", "partly", "left"}

Handles == PluginTypes /\ Loading /\ \A k \in OpenNow : list[k].h = "handle"

LEMMA HandlesInit == Init => Handles
  BY DEF Init, PlInit, Handles, PluginTypes, Loading, OpenNow, OpenEntries

LEMMA SetHandleEffect ==
  ASSUME PluginTypes, at \in 1 .. Len(list), NEW h \in {"unset", "null", "handle"}, SetHandle(h)
  PROVE  /\ list' \in Seq(PluginType) /\ Len(list') = Len(list) /\ list'[at].h = h
         /\ \A k \in 1 .. Len(list) : list'[k].lib = list[k].lib
         /\ \A k \in 1 .. Len(list) : k # at => list'[k].h = list[k].h
  <1> DEFINE entry == [list[at] EXCEPT !.h = h]
  <1>1. list[at] \in PluginType
    BY DEF PluginTypes
  <1>2. entry \in PluginType /\ entry.h = h /\ entry.lib = list[at].lib
    BY <1>1 DEF PluginType
  <1>3. list' = [list EXCEPT ![at] = entry]
    BY DEF SetHandle
  <1> HIDE DEF entry
  <1>4. list' \in Seq(PluginType) /\ Len(list') = Len(list) /\ list'[at] = entry
        /\ \A k \in 1 .. Len(list) : k # at => list'[k] = list[k]
    BY <1>3, <1>2 DEF PluginTypes
  <1> QED BY <1>2, <1>4

(* Reading a file only appends to the list.                                 *)
LEMMA ReadingAdds ==
  ASSUME Held, Handles, Reading
  PROVE  /\ cpc # "idle" /\ list' \in Seq(PluginType)
         /\ UNCHANGED <<refs, at, lpc, failed, loaded>>
  <1>1. CASE SetPlugins \/ SetPluginsFails
    <2>1. cpc # "idle" /\ At("plugins") /\ UNCHANGED <<refs, at, lpc, failed, loaded>>
      BY <1>1 DEF SetPlugins, SetPluginsFails, At
    <2>2. Item.list \in Seq(PluginType)
      <3>1. Item.list \in Seq(NewPlugin)
        BY <2>1, ItemAt DEF Held, At, IsItem
      <3>2. NewPlugin \subseteq PluginType
        BY DEF NewPlugin, PluginType
      <3> QED BY <3>1, <3>2, SeqMonotonic
    <2>3. CASE SetPlugins
      BY <2>1, <2>2, <2>3 DEF SetPlugins, Add, Handles, PluginTypes
    <2>4. CASE SetPluginsFails
      <3>1. PICK k \in DOMAIN Item.list : Add(SubSeq(Item.list, 1, k - 1))
        BY <2>4 DEF SetPluginsFails
      <3>2. k \in Int /\ k - 1 \in Int /\ 1 \in Int /\ \A m \in 1 .. k - 1 : Item.list[m] \in PluginType
        BY <2>2, <3>1
      <3>3. SubSeq(Item.list, 1, k - 1) \in Seq(PluginType)
        BY <3>2, SubSeqProperties
      <3> QED BY <2>1, <3>1, <3>3 DEF Add, Handles, PluginTypes
    <2> QED BY <1>1, <2>3, <2>4
  <1>2. CASE ~(SetPlugins \/ SetPluginsFails)
    BY <1>2 DEF Reading, Open, OpenMoved, OpenFails, ParseFails, ReadFails, SetBool, Ignore, WrongType, NameFails,
       Include, IncludeFails, OpenDir, OpenDirFails, DirNameFails, ReadEntry, SkipEntry,
       ReadEntryFails, CloseDir, CloseDirFails, DirCleanupFails, Return, Done, DoneFails, At, plvars, Handles, PluginTypes
  <1> QED BY <1>1, <1>2

LEMMA HandlesPlNext == Handles /\ Plugins => Handles'
  <1> SUFFICES ASSUME Handles, Plugins PROVE Handles'
    OBVIOUS
  <1>a. cpc = "idle" /\ cpc' = cpc /\ PlNext /\ Len(list) \in Nat
    BY DEF Plugins, reading, Handles, PluginTypes
  <1> USE DEF Handles, PluginTypes, Loading, OpenNow, OpenEntries, Idle, More, Current
  <1>1. CASE Load
    BY <1>1, <1>a DEF Load
  <1>2. CASE LoadOpen
    <2>1. at \in 1 .. Len(list) /\ SetHandle("handle") /\ UNCHANGED <<at, failed, loaded>>
          /\ lpc = "load" /\ lpc' = "init"
      BY <1>2, <1>a DEF LoadOpen
    <2>2. list' \in Seq(PluginType) /\ Len(list') = Len(list) /\ list'[at].h = "handle"
          /\ \A k \in 1 .. Len(list) : k # at => list'[k].h = list[k].h
      BY <2>1, SetHandleEffect
    <2> QED BY <1>a, <2>1, <2>2
  <1>3. CASE (LoadOpenFails \/ LoadInitFails) /\ SetHandle("null")
    <2>1. at \in 1 .. Len(list) /\ SetHandle("null") /\ at' = at /\ failed' = failed
          /\ lpc \in {"load", "init"} /\ lpc' = "idle" /\ loaded' = "partly"
      BY <1>3, <1>a DEF LoadOpenFails, LoadInitFails
    <2>2. list' \in Seq(PluginType) /\ Len(list') = Len(list)
          /\ \A k \in 1 .. Len(list) : k # at => list'[k].h = list[k].h
      BY <2>1, SetHandleEffect
    <2>3. \A k \in OpenNow' : list'[k].h = "handle"
      BY <2>1
    <2>4. PluginTypes' /\ Loading'
      BY <1>a, <2>1, <2>2
    <2> QED BY <2>3, <2>4
  <1>9. CASE LoadInitFails /\ list' = list
    BY <1>9, <1>a DEF LoadInitFails
  <1>4. CASE LoadInit
    BY <1>4, <1>a DEF LoadInit
  <1>5. CASE LoadDone
    BY <1>5, <1>a DEF LoadDone
  <1>6. CASE Unload
    BY <1>6, <1>a DEF Unload
  <1>7. CASE UnloadOne
    BY <1>7, <1>a DEF UnloadOne
  <1>8. CASE UnloadDone
    BY <1>8, <1>a DEF UnloadDone
  <1> QED BY <1>a, <1>1, <1>2, <1>3, <1>4, <1>5, <1>6, <1>7, <1>8, <1>9
          DEF PlNext, LoadOpenFails, LoadInitFails

LEMMA HandlesNext == Held /\ Handles /\ [Next]_vars => Handles'
  <1> SUFFICES ASSUME Held, Handles, [Next]_vars PROVE Handles'
    OBVIOUS
  <1> USE DEF Handles, PluginTypes, Loading, OpenNow, OpenEntries
  <1>1. CASE ConfInit \/ ConfInitFails
    BY <1>1 DEF ConfInit, ConfInitFails, plvars
  <1>2. CASE ConfDeinit
    BY <1>2 DEF ConfDeinit, Reset, Between, Idle
  <1>3. ASSUME NEW file \in Roots, ConfLoad(file) PROVE Handles'
    BY <1>3 DEF ConfLoad, Reset, Between, Idle
  <1>4. CASE Reading
    BY <1>4, ReadingAdds
  <1>5. CASE Plugins
    BY <1>5, HandlesPlNext
  <1>6. CASE UNCHANGED vars
    BY <1>6 DEF vars, plvars, reading
  <1> QED BY <1>1, <1>2, <1>3, <1>4, <1>5, <1>6 DEF Next

(* dlclose is called only with a handle that dlopen returned, for any list  *)
(* and whichever library fails (pl.c:126, 148).                             *)
THEOREM ClosedHandles == Spec => []HandlesValid
  <1>1. Handles => HandlesValid
    BY DEF Handles, PluginTypes, Loading, OpenNow, HandlesValid, More, Current
  <1> QED BY HeldInit, HeldNext, HandlesInit, HandlesNext, <1>1, PTL DEF Spec

(***************************************************************************)
(* What dlopen counts for a library is the number of its open entries.     *)
(***************************************************************************)
Balanced ==
  /\ refs \in [Libs -> Int]
  /\ \A l \in Libs : IsFiniteSet(OpenOf(l)) /\ refs[l] = Cardinality(OpenOf(l))

LEMMA NothingOpen ==
  ASSUME OpenNow = {}, refs \in [Libs -> Int]
  PROVE  (\A l \in Libs : refs[l] = 0) <=> Balanced
  <1>1. \A l \in Libs : OpenOf(l) = {}
    BY DEF OpenOf
  <1> QED BY <1>1, FS_EmptySet DEF Balanced

LEMMA BalancedInit == Init => Balanced
  <1> SUFFICES ASSUME Init PROVE Balanced
    OBVIOUS
  <1>1. OpenNow = {} /\ refs \in [Libs -> Int] /\ \A l \in Libs : refs[l] = 0
    BY DEF Init, PlInit, OpenNow, OpenEntries
  <1> QED BY <1>1, NothingOpen

(* The open entries, and the libraries they name, are the same as before.   *)
LEMMA SameOpen ==
  ASSUME Balanced, OpenNow' = OpenNow, \A k \in OpenNow : list'[k].lib = list[k].lib, refs' = refs
  PROVE  Balanced'
  <1>1. \A l \in Libs : OpenOf(l)' = OpenOf(l)
    BY DEF OpenOf
  <1> QED BY <1>1 DEF Balanced

(* The list is replaced or extended while nothing is open.                  *)
LEMMA StillNothingOpen ==
  ASSUME Balanced, OpenNow = {}, OpenNow' = {}, refs' = refs
  PROVE  Balanced'
  BY SameOpen

LEMMA EntryType ==
  ASSUME Handles, at \in 1 .. Len(list)
  PROVE  list[at].lib \in Libs
  <1>1. list[at] \in PluginType
    BY DEF Handles, PluginTypes
  <1> QED BY <1>1 DEF PluginType

LEMMA BalancedPlNext == Handles /\ Balanced /\ PlNext => Balanced'
  <1> SUFFICES ASSUME Handles, Balanced, PlNext PROVE Balanced'
    OBVIOUS
  <1>a. Len(list) \in Nat /\ at \in Nat
    BY DEF Handles, PluginTypes
  <1> USE DEF OpenNow, OpenEntries, Idle, More, Current
  <1>1. CASE Load \/ LoadDone \/ Unload \/ UnloadDone \/ LoadInit
    <2>1. refs' = refs /\ list' = list
      BY <1>1 DEF Load, LoadDone, Unload, UnloadDone, LoadInit
    <2>2. OpenNow' = OpenNow
      <3>1. CASE UnloadDone
        <4>1. at .. Len(list) = {}
          BY <3>1, <1>a DEF UnloadDone
        <4>2. OpenNow = failed /\ OpenNow' = failed
          BY <3>1, <4>1 DEF UnloadDone
        <4> QED BY <4>2
      <3>2. CASE Unload
        BY <3>2, <1>a DEF Unload, Handles, Loading, PluginTypes
      <3>3. CASE Load \/ LoadDone \/ LoadInit
        BY <3>3, <1>a DEF Load, LoadDone, LoadInit, Handles, Loading, PluginTypes
      <3> QED BY <1>1, <3>1, <3>2, <3>3
    <2> HIDE DEF OpenNow
    <2> QED BY <2>1, <2>2, SameOpen
  <1>2. CASE LoadOpen
    <2>1. at \in 1 .. Len(list) /\ SetHandle("handle") /\ at' = at /\ Dlopen(list[at].lib)
          /\ lpc = "load" /\ lpc' = "init"
      BY <1>2 DEF LoadOpen, Handles, Loading
    <2>2. \A k \in 1 .. Len(list) : list'[k].lib = list[k].lib
      BY <2>1, SetHandleEffect DEF Handles
    <2>3. OpenNow' = OpenNow \cup {at} /\ at \notin OpenNow /\ OpenNow \subseteq 1 .. Len(list)
      BY <2>1, <1>a
    <2>4. list[at].lib \in Libs
      BY <2>1, EntryType
    <2>5. \A l \in Libs : OpenOf(l)' = IF l = list[at].lib THEN OpenOf(l) \cup {at} ELSE OpenOf(l)
      BY <2>1, <2>2, <2>3 DEF OpenOf
    <2>6. \A l \in Libs : at \notin OpenOf(l)
      BY <2>3 DEF OpenOf
    <2>7. \A l \in Libs : /\ IsFiniteSet(OpenOf(l) \cup {at})
                          /\ Cardinality(OpenOf(l) \cup {at}) = Cardinality(OpenOf(l)) + 1
      BY <2>6, FS_AddElement DEF Balanced
    <2>8. refs' = [refs EXCEPT ![list[at].lib] = refs[list[at].lib] + 1]
      BY <2>1 DEF Dlopen
    <2> QED BY <2>4, <2>5, <2>7, <2>8 DEF Balanced
  <1>k. ASSUME at \in 1 .. Len(list), SetHandle("null"), lpc \in {"load", "init"}
        PROVE  {k \in 1 .. at : list'[k].h = "handle"} = 1 .. at - 1
    <2>1. list'[at].h = "null" /\ \A k \in 1 .. Len(list) : k # at => list'[k].h = list[k].h
      BY <1>k, SetHandleEffect DEF Handles
    <2>2. \A k \in 1 .. at - 1 : list[k].h = "handle"
      BY <1>k DEF Handles
    <2> QED BY <1>k, <1>a, <2>1, <2>2
  <1>3. CASE LoadOpenFails
    <2>1. at \in 1 .. Len(list) /\ SetHandle("null") /\ at' = at /\ refs' = refs
          /\ lpc = "load" /\ lpc' = "idle" /\ loaded' = "partly"
      BY <1>3 DEF LoadOpenFails, Handles, Loading
    <2>2. \A k \in 1 .. Len(list) : list'[k].lib = list[k].lib
      BY <2>1, SetHandleEffect DEF Handles
    <2>3. OpenNow' = OpenNow /\ OpenNow \subseteq 1 .. Len(list)
      BY <2>1, <1>a, <1>k
    <2> HIDE DEF OpenNow
    <2> QED BY <2>1, <2>2, <2>3, SameOpen
  <1>c. ASSUME at \in 1 .. Len(list), Dlclose(list[at].lib),
               \A k \in 1 .. Len(list) : list'[k].lib = list[k].lib,
               OpenNow \subseteq 1 .. Len(list), at \in OpenNow, OpenNow' = OpenNow \ {at}
        PROVE  Balanced'
    <2> HIDE DEF OpenNow
    <2>1. list[at].lib \in Libs
      BY <1>c, EntryType
    <2>2. \A l \in Libs : OpenOf(l)' = IF l = list[at].lib THEN OpenOf(l) \ {at} ELSE OpenOf(l)
      BY <1>c DEF OpenOf
    <2>3. at \in OpenOf(list[at].lib)
      BY <1>c DEF OpenOf
    <2>4. \A l \in Libs : /\ IsFiniteSet(OpenOf(l) \ {at})
                          /\ at \in OpenOf(l) => Cardinality(OpenOf(l) \ {at}) = Cardinality(OpenOf(l)) - 1
      BY FS_RemoveElement DEF Balanced
    <2>5. refs' = [refs EXCEPT ![list[at].lib] = refs[list[at].lib] - 1]
      BY <1>c DEF Dlclose
    <2> QED BY <2>1, <2>2, <2>3, <2>4, <2>5 DEF Balanced
  <1>4. CASE LoadInitFails /\ Dlclose(list[at].lib) /\ SetHandle("null")
    <2>1. at \in 1 .. Len(list) /\ SetHandle("null") /\ at' = at /\ Dlclose(list[at].lib)
          /\ lpc = "init" /\ lpc' = "idle" /\ loaded' = "partly"
      BY <1>4 DEF LoadInitFails, Handles, Loading
    <2>2. \A k \in 1 .. Len(list) : list'[k].lib = list[k].lib
      BY <2>1, SetHandleEffect DEF Handles
    <2>3. OpenNow' = 1 .. at - 1
      BY <2>1, <1>k
    <2>4. OpenNow \subseteq 1 .. Len(list) /\ at \in OpenNow /\ OpenNow' = OpenNow \ {at}
      BY <2>1, <2>3, <1>a
    <2> HIDE DEF OpenNow
    <2> QED BY <2>1, <2>2, <2>4, <1>c
  <1>6. CASE LoadInitFails /\ refs' = refs /\ list' = list
    <2>1. at \in 1 .. Len(list) /\ at' = at /\ lpc = "init" /\ lpc' = "idle" /\ loaded' = "partly"
      BY <1>6 DEF LoadInitFails, Handles, Loading
    <2>2. \A k \in OpenNow : list[k].h = "handle"
      BY DEF Handles
    <2>3. OpenNow' = OpenNow
      BY <1>6, <2>1, <2>2
    <2> HIDE DEF OpenNow
    <2> QED BY <1>6, <2>3, SameOpen
  <1>7. CASE UnloadOne /\ refs' = refs /\ failed' = failed \cup {at}
    <2>1. at \in 1 .. Len(list) /\ list' = list /\ at' = at + 1 /\ failed' = failed \cup {at}
          /\ lpc = "unload" /\ lpc' = "unload"
      BY <1>7 DEF UnloadOne, Handles, Loading
    <2>2. OpenNow' = OpenNow
      BY <2>1, <1>a
    <2> HIDE DEF OpenNow
    <2> QED BY <1>7, <2>1, <2>2, SameOpen
  <1>5. CASE UnloadOne /\ Dlclose(list[at].lib) /\ failed' = failed
    <2>1. at \in 1 .. Len(list) /\ list' = list /\ at' = at + 1 /\ Dlclose(list[at].lib)
          /\ lpc = "unload" /\ lpc' = "unload"
      BY <1>5 DEF UnloadOne, Handles, Loading
    <2>2. failed \subseteq 1 .. at - 1
      BY <2>1 DEF Handles, Loading
    <2>3. OpenNow \subseteq 1 .. Len(list) /\ at \in OpenNow /\ OpenNow' = OpenNow \ {at}
      BY <1>5, <2>1, <2>2, <1>a
    <2> HIDE DEF OpenNow
    <2> QED BY <2>1, <2>3, <1>5, <1>c
  <1> QED BY <1>1, <1>2, <1>3, <1>4, <1>5, <1>6, <1>7 DEF PlNext, LoadInitFails, UnloadOne

LEMMA BalancedNext == Held /\ Handles /\ Balanced /\ [Next]_vars => Balanced'
  <1> SUFFICES ASSUME Held, Handles, Balanced, [Next]_vars PROVE Balanced'
    OBVIOUS
  <1>1. CASE ConfInit \/ ConfInitFails
    BY <1>1, SameOpen DEF ConfInit, ConfInitFails, plvars, OpenNow, OpenEntries
  <1>2. CASE ConfDeinit \/ \E file \in Roots : ConfLoad(file)
    <2>1. lpc = "idle" /\ lpc' = "idle" /\ loaded = "no" /\ loaded' = "no" /\ refs' = refs
      BY <1>2 DEF ConfDeinit, ConfLoad, Between, Idle
    <2> QED BY <2>1, StillNothingOpen DEF OpenNow, OpenEntries
  <1>3. CASE Reading
    <2>1. lpc = "idle" /\ lpc' = "idle" /\ loaded = "no" /\ loaded' = "no" /\ refs' = refs
      BY <1>3, ReadingAdds DEF Handles, Loading
    <2> QED BY <2>1, StillNothingOpen DEF OpenNow, OpenEntries
  <1>4. CASE Plugins
    BY <1>4, BalancedPlNext DEF Plugins
  <1>5. CASE UNCHANGED vars
    BY <1>5, SameOpen DEF vars, plvars, OpenNow, OpenEntries
  <1> QED BY <1>1, <1>2, <1>3, <1>4, <1>5 DEF Next

(* Between calls every library is open once for each of its entries that    *)
(* were loaded, for any list, any repetitions in it and any failure.        *)
THEOREM Matched == Spec => []RefsMatch
  <1>1. Balanced => RefsMatch
    BY DEF Balanced, OpenOf, OpenNow, RefsMatch, Idle
  <1> QED BY HeldInit, HeldNext, HandlesInit, HandlesNext, BalancedInit, BalancedNext, <1>1, PTL DEF Spec

(***************************************************************************)
(* Types.  That refs is never negative is Balanced; the rest is direct.    *)
(***************************************************************************)
Simple ==
  /\ thread_safe \in BOOLEAN /\ ready \in BOOLEAN /\ fault \in BOOLEAN
  /\ rc \in {"none", "ok", "error"} /\ root \in Roots /\ closedir_failed \in BOOLEAN

LEMMA SimpleNext == Held /\ Simple /\ [Next]_vars => Simple'
  <1> SUFFICES ASSUME Held, Simple, [Next]_vars PROVE Simple'
    OBVIOUS
  <1> USE DEF Simple
  <1>1. CASE ConfInit \/ ConfInitFails \/ ConfDeinit \/ \E file \in Roots : ConfLoad(file)
    BY <1>1 DEF ConfInit, ConfInitFails, ConfDeinit, ConfLoad
  <1>2. CASE SetBool
    <2>1. At("bool") /\ Calls
      BY <1>2 DEF SetBool, At, Held
    <2>2. Item.val \in BOOLEAN
      BY <2>1, ItemAt DEF IsItem
    <2> QED BY <1>2, <2>2 DEF SetBool
  <1>3. CASE Reading /\ ~SetBool
    BY <1>3 DEF Reading, Open, OpenMoved, OpenFails, ParseFails, ReadFails, Ignore, WrongType, SetPlugins,
       SetPluginsFails, NameFails, Include, IncludeFails, OpenDir, OpenDirFails, DirNameFails,
       ReadEntry, SkipEntry, ReadEntryFails, CloseDir, CloseDirFails, DirCleanupFails, Return, Done, DoneFails, Fail, Leave
  <1>4. CASE Plugins
    BY <1>4 DEF Plugins, reading
  <1>5. CASE UNCHANGED vars
    BY <1>5 DEF vars, reading
  <1> QED BY <1>1, <1>2, <1>3, <1>4, <1>5 DEF Next

(* Every variable keeps its type; in particular no library is closed more   *)
(* often than it was opened.                                                *)
THEOREM Typing == Spec => []TypeOK
  <1>1. Init => Simple
    BY DEF Init, Simple
  <1>2. Held /\ Handles /\ Balanced /\ Simple => TypeOK
    <2> SUFFICES ASSUME Held, Handles, Balanced, Simple PROVE TypeOK
      OBVIOUS
    <2>1. \A l \in Libs : refs[l] \in Nat
      BY FS_CardinalityType DEF Balanced
    <2>2. refs \in [Libs -> Nat]
      BY <2>1 DEF Balanced
    <2>3. unbalanced \subseteq Resources
      BY DEF Held, ReleasesAll, Resources
    <2> QED BY <2>2, <2>3 DEF TypeOK, PlTypeOK, Held, Calls, Handles, PluginTypes, Simple
  <1> QED BY HeldInit, HeldNext, HandlesInit, HandlesNext, BalancedInit, BalancedNext,
             SimpleNext, <1>1, <1>2, PTL DEF Spec
=============================================================================
