------------------------- MODULE FileStorageProofs -------------------------
(***************************************************************************)
(* Theorems about FileStorage, for any requests, names, contents and       *)
(* upload limits.                                                          *)
(***************************************************************************)
EXTENDS FileStorage, SequenceTheorems, TLAPS

-----------------------------------------------------------------------------
(* Writing a block.                                                        *)

LEMMA WriteAtType ==
    ASSUME NEW s \in Seq(Block), NEW n \in Nat \ {0}, NEW b \in Block
    PROVE  /\ WriteAt(s, n, b) \in Seq(Block)
           /\ Len(WriteAt(s, n, b)) = IF n > Len(s) THEN n ELSE Len(s)
           /\ \A j \in 1..Len(WriteAt(s, n, b)) :
                 WriteAt(s, n, b)[j] = IF j = n THEN b ELSE IF j <= Len(s) THEN s[j] ELSE Hole
<1> DEFINE m == IF n > Len(s) THEN n ELSE Len(s)
           e(j) == IF j = n THEN b ELSE IF j <= Len(s) THEN s[j] ELSE Hole
<1>1. m \in Nat /\ Hole \in Block /\ Len(s) \in Nat
  BY Assumptions
<1>2. \A j \in 1..m : e(j) \in Block
  BY <1>1, ElementOfSeq
<1>3. WriteAt(s, n, b) = [j \in 1..m |-> e(j)]
  BY DEF WriteAt
<1> HIDE DEF m, e
<1>4. WriteAt(s, n, b) \in [1..m -> Block]
  BY <1>2, <1>3
<1>5. WriteAt(s, n, b) \in Seq(Block)
  BY <1>1, <1>4, SeqDef
<1>6. Len(WriteAt(s, n, b)) = m
  BY <1>1, <1>4, <1>5, LenProperties
<1> QED
  BY <1>1, <1>3, <1>5, <1>6 DEF m, e

(* What the LimitReader lets through. *)
LEMMA LimitedType ==
    ASSUME NEW c \in Contents, NEW n \in Nat
    PROVE  /\ Limited(c, n) \in Nat /\ Limited(c, n) <= Len(c) /\ Limited(c, n) <= n + 1
           /\ Len(c) \in Nat
           /\ Limited(c, n) <= n => Limited(c, n) = Len(c)
           /\ \A j \in 1..Limited(c, n) : c[j] \in Block
<1>1. c \in Seq(Block)
  BY Assumptions
<1>2. Len(c) \in Nat
  BY <1>1
<1>3. Limited(c, n) \in Nat /\ Limited(c, n) <= Len(c) /\ Limited(c, n) <= n + 1
      /\ (Limited(c, n) <= n => Limited(c, n) = Len(c))
  BY <1>2 DEF Limited
<1>4. ASSUME NEW j \in 1..Limited(c, n) PROVE c[j] \in Block
  <2>1. j \in 1..Len(c)
    BY <1>2, <1>3
  <2> QED
    BY <1>1, <2>1, ElementOfSeq
<1> QED
  BY <1>2, <1>3, <1>4

-----------------------------------------------------------------------------
(* Type correctness.                                                       *)

Stage == {"idle", "free", "copying", "failed", "copied", "found", "removed"}

LEMMA TypeInit == Init => TypeOK
<1> SUFFICES ASSUME Init PROVE TypeOK
  OBVIOUS
<1>1. data \in [Inode -> Seq(Block)] /\ \A i \in Inode : Len(data[i]) = 0
  BY EmptySeq DEF Init
<1>2. CfgMaxSize \in Nat
  BY Assumptions
<1>3. \A i \in Inode : Len(data[i]) <= highest + 1
  BY <1>1, <1>2 DEF Init
<1> QED
  BY <1>1, <1>2, <1>3, Assumptions DEF Init, TypeOK

(* What a write leaves of the types. *)
LEMMA CopyData ==
    ASSUME TypeOK, NEW w \in Worker, Copy(w)
    PROVE  /\ written[w] \in Nat /\ written'[w] = written[w] + 1
           /\ written'[w] <= bound[w] + 1 /\ written'[w] <= Len(content[w])
           /\ bound[w] \in Nat /\ bound[w] <= highest /\ highest \in Nat
           /\ fd[w] \in Inode /\ content[w] \in Contents
           /\ data' \in [Inode -> Seq(Block)]
           /\ \A i \in Inode \ {fd[w]} : data'[i] = data[i]
           /\ data'[fd[w]] = WriteAt(data[fd[w]], written[w] + 1, content[w][written[w] + 1])
           /\ Len(data'[fd[w]]) =
                 IF written[w] + 1 > Len(data[fd[w]]) THEN written[w] + 1 ELSE Len(data[fd[w]])
           /\ \A j \in 1..Len(data'[fd[w]]) :
                 data'[fd[w]][j] = IF j = written[w] + 1 THEN content[w][written[w] + 1]
                                   ELSE IF j <= Len(data[fd[w]]) THEN data[fd[w]][j] ELSE Hole
<1>1. /\ fd[w] \in Inode /\ content[w] \in Contents /\ highest \in Nat
      /\ written[w] \in Nat /\ bound[w] \in Nat /\ bound[w] <= highest
      /\ data[fd[w]] \in Seq(Block)
  BY DEF TypeOK, Copy
<1>2. written[w] < Limited(content[w], bound[w]) /\ written'[w] = written[w] + 1
  BY DEF TypeOK, Copy
<1>3. /\ written[w] + 1 \in 1..Limited(content[w], bound[w])
      /\ written[w] + 1 <= Len(content[w]) /\ written[w] + 1 <= bound[w] + 1
      /\ written[w] + 1 \in Nat \ {0}
  BY <1>1, <1>2, LimitedType
<1>4. content[w][written[w] + 1] \in Block
  BY <1>1, <1>3, LimitedType
<1> DEFINE new == WriteAt(data[fd[w]], written[w] + 1, content[w][written[w] + 1])
<1>5. data' = [data EXCEPT ![fd[w]] = new]
  BY DEF Copy
<1>6. /\ new \in Seq(Block)
      /\ Len(new) = IF written[w] + 1 > Len(data[fd[w]]) THEN written[w] + 1 ELSE Len(data[fd[w]])
      /\ \A j \in 1..Len(new) :
            new[j] = IF j = written[w] + 1 THEN content[w][written[w] + 1]
                     ELSE IF j <= Len(data[fd[w]]) THEN data[fd[w]][j] ELSE Hole
  <2> DEFINE s == data[fd[w]]
             n == written[w] + 1
             b == content[w][written[w] + 1]
  <2>1. s \in Seq(Block) /\ n \in Nat \ {0} /\ b \in Block
    BY <1>1, <1>3, <1>4
  <2> HIDE DEF s, n, b
  <2>2. /\ WriteAt(s, n, b) \in Seq(Block)
        /\ Len(WriteAt(s, n, b)) = IF n > Len(s) THEN n ELSE Len(s)
        /\ \A j \in 1..Len(WriteAt(s, n, b)) :
              WriteAt(s, n, b)[j] = IF j = n THEN b ELSE IF j <= Len(s) THEN s[j] ELSE Hole
    BY <2>1, WriteAtType
  <2> QED
    BY <2>2 DEF s, n, b
<1> HIDE DEF new
<1>7. data \in [Inode -> Seq(Block)]
  BY DEF TypeOK
<1>8. /\ data' \in [Inode -> Seq(Block)] /\ data'[fd[w]] = new
      /\ \A i \in Inode \ {fd[w]} : data'[i] = data[i]
  BY <1>1, <1>5, <1>6, <1>7
<1> QED
  BY <1>1, <1>2, <1>3, <1>6, <1>8 DEF new

LEMMA TypeStep == TypeOK /\ [Next]_vars => TypeOK'
<1> SUFFICES ASSUME TypeOK, [Next]_vars PROVE TypeOK'
  OBVIOUS
<1> USE Assumptions DEF disk, op, history, limits, Goto
<1>1. ASSUME NEW w \in Worker, NEW f \in Name, NEW c \in Contents, UploadBegin(w, f, c)
      PROVE  TypeOK'
  BY <1>1 DEF TypeOK, UploadBegin, Begin
<1>2. ASSUME NEW w \in Worker, NEW f \in Name, DeleteBegin(w, f)
      PROVE  TypeOK'
  BY <1>2 DEF TypeOK, DeleteBegin, Begin
<1>3. ASSUME NEW w \in Worker, NEW i \in Inode, pc[w] = "free", Open(w, i)
      PROVE  TypeOK'
  <2>1. /\ data' \in [Inode -> Seq(Block)]
        /\ \A j \in Inode : Len(data'[j]) <= highest' + 1
    <3>1. <<>> \in Seq(Block) /\ Len(<<>>) = 0 /\ highest \in Nat /\ highest' = highest
      BY <1>3, EmptySeq DEF TypeOK, Open
    <3>2. \A j \in Inode : data'[j] = IF j = i THEN <<>> ELSE data[j]
      BY <1>3 DEF TypeOK, Open
    <3> QED
      BY <1>3, <3>1, <3>2 DEF TypeOK, Open
  <2>2. name[w] \in Name /\ content[w] \in Contents
    BY <1>3 DEF TypeOK
  <2> QED
    BY <1>3, <2>1, <2>2 DEF TypeOK, Open
<1>4. ASSUME NEW w \in Worker, Create(w)
      PROVE  TypeOK'
  <2>1. PICK i \in Inode : Open(w, i)
    BY <1>4 DEF Create, TypeOK
  <2> QED
    BY <1>3, <1>4, <2>1 DEF Create
<1>5. ASSUME NEW w \in Worker, CreateFails(w) \/ Discard(w) \/ Upsert(w) \/ RemoveFails(w)
                               \/ DeleteRecord(w)
      PROVE  TypeOK'
  <2>1. Return(w) /\ UNCHANGED <<data, limits>>
    BY <1>5 DEF CreateFails, Discard, Upsert, RemoveFails, DeleteRecord
  <2>2. pc[w] \in Stage \ {"idle"} /\ name[w] \in Name
    BY <1>5 DEF CreateFails, Discard, Upsert, RemoveFails, DeleteRecord, TypeOK, Stage
  <2>3. /\ dir' \in [Name -> Inode \cup {None}]
        /\ record' \in [Name -> Contents \cup {None}]
        /\ sound' \subseteq Name /\ cut' \subseteq Name /\ unsaved' \subseteq Name
    BY <1>5, <2>2 DEF CreateFails, Discard, Upsert, RemoveFails, DeleteRecord, TypeOK
  <2> QED
    BY <2>1, <2>2, <2>3 DEF TypeOK, Return
<1>6. ASSUME NEW w \in Worker, Copy(w)
      PROVE  TypeOK'
  <2>1. /\ written' \in [Worker -> 0..highest' + 1]
        /\ \A i \in Inode : Len(data'[i]) <= highest' + 1
    <3>1. highest' = highest /\ written' = [written EXCEPT ![w] = @ + 1]
      BY <1>6 DEF Copy
    <3>2. written'[w] \in 0..highest + 1
      BY <1>6, CopyData
    <3>3. ASSUME NEW i \in Inode PROVE Len(data'[i]) <= highest + 1
      <4>1. Len(data[i]) <= highest + 1
        BY DEF TypeOK
      <4> QED
        BY <1>6, <4>1, CopyData
    <3> QED
      BY <3>1, <3>2, <3>3 DEF TypeOK
  <2>2. data' \in [Inode -> Seq(Block)]
    BY <1>6, CopyData
  <2> QED
    BY <1>6, <2>1, <2>2 DEF TypeOK, Copy
<1>7. ASSUME NEW w \in Worker, CopyEnds(w) \/ CopyFails(w)
      PROVE  TypeOK'
  BY <1>7 DEF TypeOK, CopyEnds, CopyFails
<1>8. ASSUME NEW w \in Worker, Remove(w)
      PROVE  TypeOK'
  BY <1>8 DEF TypeOK, Remove
<1>9. ASSUME NEW n \in MaxSizes, SetMaxSize(n)
      PROVE  TypeOK'
  <2>1. n \in Nat /\ highest \in Nat /\ highest' \in Nat /\ highest <= highest' /\ n <= highest'
    BY <1>9 DEF TypeOK, SetMaxSize
  <2>2. /\ bound' \in [Worker -> 0..highest'] /\ written' \in [Worker -> 0..highest' + 1]
        /\ \A i \in Inode : Len(data'[i]) <= highest' + 1
    <3>1. ASSUME NEW i \in Inode PROVE Len(data[i]) <= highest' + 1
      <4>1. Len(data[i]) \in Nat /\ Len(data[i]) <= highest + 1
        BY DEF TypeOK
      <4> QED
        BY <2>1, <4>1
    <3> QED
      BY <1>9, <2>1, <3>1 DEF TypeOK, SetMaxSize
  <2> QED
    BY <1>9, <2>1, <2>2 DEF TypeOK, SetMaxSize
<1>10. CASE Restart
  BY <1>10 DEF TypeOK, Restart
<1>11. CASE UNCHANGED vars
  BY <1>11 DEF TypeOK, vars
<1> QED
  BY <1>1, <1>2, <1>4, <1>5, <1>6, <1>7, <1>8, <1>9, <1>10, <1>11 DEF Next

(* Every variable keeps its type. *)
THEOREM TypeCorrect == Spec => []TypeOK
BY TypeInit, TypeStep, PTL DEF Spec

-----------------------------------------------------------------------------
(* The invariant.                                                          *)

(* An operation that is alone is the only one on its name. *)
Solo == \A v, w \in Worker : alone[w] /\ name[w] \in Name /\ name[v] = name[w] => v = w

(* Nothing but an operation that is alone works on a sound name. *)
SoundSolo == \A w \in Worker : name[w] \in sound => alone[w]

(* A file has one name, and only operations on that name write to it. *)
OneFile ==
    /\ \A f, g \in Name : dir[f] = dir[g] /\ dir[f] # None => f = g
    /\ \A f \in Name, w \in Worker : dir[f] = fd[w] /\ dir[f] # None => name[w] = f
    /\ \A v, w \in Worker : fd[v] = fd[w] /\ fd[v] # None => name[v] = name[w]
    /\ \A w \in Worker : name[w] = None => fd[w] = None

(* Only an open file has been written to. *)
Unwritten == \A w \in Worker : pc[w] \in {"idle", "free"} => written[w] = 0

(* What an upload has written is the beginning of what it uploads. *)
Begun(w) ==
    /\ fd[w] \in Inode /\ dir[name[w]] = fd[w]
    /\ written[w] <= Len(content[w])
    /\ Len(data[fd[w]]) = written[w]
    /\ \A j \in 1..written[w] : data[fd[w]][j] = content[w][j]

(* What an operation that is alone finds in the directory. *)
Lone(w) ==
    alone[w] =>
        /\ pc[w] \in {"free", "removed"} => dir[name[w]] = None
        /\ pc[w] \in {"copying", "copied"} => Begun(w)
        /\ pc[w] = "copied" => written[w] = Len(content[w])

(* What it finds in the table when the name is sound. *)
Sound(w) ==
    name[w] \in sound =>
        /\ pc[w] \in {"free", "copying", "failed", "copied"} => record[name[w]] = None
        /\ pc[w] = "found" => Agrees(name[w])

Stages == (\A w \in Worker : Lone(w) /\ Sound(w)) /\ SoundAgrees

(* A file beyond the limit belongs to an upload that is going to fail. *)
LongOwned ==
    \A f \in Name \ cut :
        dir[f] # None /\ Len(data[dir[f]]) > highest =>
            \E w \in Worker : /\ name[w] = f /\ pc[w] \in {"copying", "failed"}
                              /\ written[w] > bound[w]

FilesInv == Solo /\ SoundSolo /\ OneFile /\ Unwritten /\ Stages

-----------------------------------------------------------------------------
(* Who works on which name.                                                *)

LEMMA SoloStep ==
    TypeOK /\ Solo /\ SoundSolo /\ [Next]_vars => (Solo /\ SoundSolo)'
<1> SUFFICES ASSUME TypeOK, Solo, SoundSolo, [Next]_vars PROVE Solo' /\ SoundSolo'
  OBVIOUS
<1> USE Assumptions DEF disk, op, history, limits, Goto, Solo, SoundSolo
<1>1. ASSUME NEW w \in Worker, NEW f \in Name, NEW stage, Begin(w, f, stage)
      PROVE  Solo' /\ SoundSolo'
  <2>1. /\ name[w] = None /\ name'[w] = f /\ alone'[w] = ~Busy(f)
        /\ \A v \in Worker \ {w} : name'[v] = name[v] /\ alone'[v] = (alone[v] /\ name[v] # f)
    BY <1>1 DEF Begin, TypeOK
  <2>2. Solo'
    BY <2>1 DEF Busy
  <2>3. CASE Busy(f)
    <3>1. sound' = sound \ {f}
      BY <1>1, <2>3 DEF Begin
    <3> QED
      BY <2>1, <2>2, <3>1
  <2>4. CASE ~Busy(f)
    <3>1. sound' = sound /\ \A v \in Worker : name[v] # f
      BY <1>1, <2>4 DEF Begin, Busy
    <3> QED
      BY <2>1, <2>2, <2>4, <3>1
  <2> QED
    BY <2>3, <2>4
<1>2. ASSUME NEW w \in Worker, Return(w), sound' \subseteq sound \cup {name[w]},
             name[w] \in sound' => name[w] \in sound \/ alone[w],
             name[w] \in Name, sound' \subseteq Name
      PROVE  Solo' /\ SoundSolo'
  <2>1. /\ alone' = alone /\ name'[w] = None
        /\ \A v \in Worker \ {w} : name'[v] = name[v]
    BY <1>2 DEF Return, TypeOK
  <2> QED
    BY <1>2, <2>1
<1>3. ASSUME NEW w \in Worker, CreateFails(w) \/ Discard(w) \/ Upsert(w) \/ RemoveFails(w)
                               \/ DeleteRecord(w)
      PROVE  Solo' /\ SoundSolo'
  <2>1. Return(w) /\ name[w] \in Name
    BY <1>3 DEF CreateFails, Discard, Upsert, RemoveFails, DeleteRecord, TypeOK
  <2>2. /\ sound' \subseteq sound \cup {name[w]} /\ sound' \subseteq Name
        /\ name[w] \in sound' => name[w] \in sound \/ alone[w]
    BY <1>3, <2>1 DEF CreateFails, Discard, Upsert, RemoveFails, DeleteRecord, TypeOK
  <2> QED
    BY <1>2, <2>1, <2>2
<1>4. ASSUME UNCHANGED <<name, alone, sound>>
      PROVE  Solo' /\ SoundSolo'
  BY <1>4
<1>5. ASSUME NEW w \in Worker, Create(w) \/ Copy(w) \/ CopyEnds(w) \/ CopyFails(w) \/ Remove(w)
      PROVE  Solo' /\ SoundSolo'
  BY <1>4, <1>5 DEF Create, Open, Copy, CopyEnds, CopyFails, Remove
<1>6. CASE Restart
  <2>1. \A w \in Worker : name'[w] = None
    BY <1>6 DEF Restart
  <2>2. sound' \subseteq Name
    BY <1>6 DEF Restart, TypeOK
  <2> QED
    BY <2>1, <2>2
<1>7. CASE \/ \E n \in MaxSizes : SetMaxSize(n)
           \/ UNCHANGED vars
  BY <1>4, <1>7 DEF SetMaxSize, vars
<1> QED
  BY <1>1, <1>3, <1>5, <1>6, <1>7 DEF Next, UploadBegin, DeleteBegin

LEMMA OneFileStep == TypeOK /\ OneFile /\ [Next]_vars => OneFile'
<1> SUFFICES ASSUME TypeOK, OneFile, [Next]_vars PROVE OneFile'
  OBVIOUS
<1> USE Assumptions DEF disk, op, history, limits, Goto, OneFile
<1>1. ASSUME NEW w \in Worker, NEW f \in Name, NEW stage, Begin(w, f, stage),
             UNCHANGED <<dir, fd>>
      PROVE  OneFile'
  <2>1. /\ name[w] = None /\ fd[w] = None /\ name'[w] = f
        /\ \A v \in Worker \ {w} : name'[v] = name[v]
    BY <1>1 DEF Begin, TypeOK
  <2> QED
    BY <1>1, <2>1
<1>2. ASSUME NEW w \in Worker, Return(w), \A f \in Name : dir'[f] \in {dir[f], None}
      PROVE  OneFile'
  <2>1. /\ fd'[w] = None /\ name'[w] = None
        /\ \A v \in Worker \ {w} : name'[v] = name[v] /\ fd'[v] = fd[v]
    BY <1>2 DEF Return, TypeOK
  <2> QED
    BY <1>2, <2>1
<1>3. ASSUME NEW w \in Worker, CreateFails(w) \/ Discard(w) \/ Upsert(w) \/ RemoveFails(w)
                               \/ DeleteRecord(w)
      PROVE  OneFile'
  <2>1. Return(w) /\ \A f \in Name : dir'[f] \in {dir[f], None}
    BY <1>3 DEF CreateFails, Discard, Upsert, RemoveFails, DeleteRecord, TypeOK
  <2> QED
    BY <1>2, <2>1
<1>4. ASSUME NEW w \in Worker, Create(w)
      PROVE  OneFile'
  <2> DEFINE f == name[w]
  <2>1. f \in Name
    BY <1>4 DEF Create, TypeOK
  <2>2. PICK i \in Inode :
           /\ Open(w, i)
           /\ \/ dir[f] = i
              \/ \A g \in Name : dir[g] # i /\ \A v \in Worker : fd[v] # i
    BY <1>4, <2>1 DEF Create, TypeOK
  <2>3. /\ dir'[f] = i /\ \A g \in Name \ {f} : dir'[g] = dir[g]
        /\ fd'[w] = i /\ \A v \in Worker \ {w} : fd'[v] = fd[v]
        /\ name' = name /\ i # None
    BY <2>1, <2>2 DEF Open, TypeOK
  <2>4. \A g \in Name : dir[g] = i => g = f
    BY <2>1, <2>2
  <2>5. \A v \in Worker : fd[v] = i => name[v] = f
    BY <2>1, <2>2, <2>3
  <2> QED
    BY <2>1, <2>3, <2>4, <2>5
<1>5. ASSUME NEW w \in Worker, Remove(w)
      PROVE  OneFile'
  <2>1. UNCHANGED <<name, fd>> /\ \A f \in Name : dir'[f] \in {dir[f], None}
    BY <1>5 DEF Remove, TypeOK
  <2> QED
    BY <2>1
<1>6. CASE Restart
  BY <1>6 DEF Restart
<1>7. CASE \/ \E w \in Worker : Copy(w) \/ CopyEnds(w) \/ CopyFails(w)
           \/ \E n \in MaxSizes : SetMaxSize(n)
           \/ UNCHANGED vars
  <2>1. UNCHANGED <<dir, fd, name>>
    BY <1>7 DEF Copy, CopyEnds, CopyFails, SetMaxSize, vars
  <2> QED
    BY <2>1
<1> QED
  BY <1>1, <1>3, <1>4, <1>5, <1>6, <1>7 DEF Next, UploadBegin, DeleteBegin

-----------------------------------------------------------------------------
(* Files beyond the limit.                                                 *)

LEMMA LongStep == TypeOK /\ TypeOK' /\ OneFile /\ LongOwned /\ [Next]_vars => LongOwned'
<1> SUFFICES ASSUME TypeOK, TypeOK', OneFile, LongOwned, [Next]_vars,
                    NEW f \in Name, f \notin cut', dir'[f] # None,
                    Len(data'[dir'[f]]) > highest'
             PROVE  \E w \in Worker : /\ name'[w] = f /\ pc'[w] \in {"copying", "failed"}
                                      /\ written'[w] > bound'[w]
  BY DEF LongOwned
<1> DEFINE Owner(w) == /\ name[w] = f /\ pc[w] \in {"copying", "failed"}
                       /\ written[w] > bound[w]
           Long == dir[f] # None /\ Len(data[dir[f]]) > highest
<1> USE Assumptions DEF disk, op, history, limits, Goto
<1>1. /\ Long /\ f \notin cut => \E w \in Worker : Owner(w)
      /\ dir'[f] \in Inode /\ highest \in Nat /\ highest' \in Nat
      /\ \A i \in Inode : Len(data[i]) \in Nat /\ Len(data'[i]) \in Nat
  BY DEF LongOwned, TypeOK
<1>2. ASSUME NEW w \in Worker, NEW g \in Name, NEW stage, Begin(w, g, stage),
             UNCHANGED <<disk, written, cut, limits>>,
             bound' \in {bound, [bound EXCEPT ![w] = maxSize]}
      PROVE  \E v \in Worker : Owner(v)'
  <2>1. PICK v \in Worker : Owner(v)
    BY <1>1, <1>2
  <2>2. v # w
    BY <1>2, <2>1 DEF Begin
  <2>3. Owner(v)'
    BY <1>2, <2>1, <2>2 DEF Begin, TypeOK
  <2> QED
    BY <2>3
<1>3. ASSUME NEW w \in Worker, CreateFails(w) \/ Discard(w) \/ Upsert(w) \/ RemoveFails(w)
                               \/ DeleteRecord(w)
      PROVE  \E v \in Worker : Owner(v)'
  <2>1. Return(w) /\ UNCHANGED <<data, limits>> /\ cut \subseteq cut'
        /\ \A g \in Name : dir'[g] \in {dir[g], None}
    BY <1>3 DEF CreateFails, Discard, Upsert, RemoveFails, DeleteRecord, TypeOK
  <2>2. PICK v \in Worker : Owner(v)
    BY <1>1, <2>1
  <2>3. v # w
    BY <1>3, <2>2 DEF CreateFails, Discard, Upsert, RemoveFails, DeleteRecord, TypeOK
  <2>4. Owner(v)'
    BY <2>1, <2>2, <2>3 DEF Return, TypeOK
  <2> QED
    BY <2>4
<1>4. ASSUME NEW w \in Worker, Create(w)
      PROVE  \E v \in Worker : Owner(v)'
  <2>1. PICK i \in Inode : Open(w, i) /\ pc[w] = "free"
    BY <1>4 DEF Create, TypeOK
  <2>2. data'[i] = <<>> /\ \A j \in Inode \ {i} : data'[j] = data[j]
    BY <2>1 DEF Open, TypeOK
  <2>3. Len(<<>>) = 0
    BY EmptySeq
  <2>4. dir'[f] # i
    BY <1>1, <2>2, <2>3
  <2>5. dir'[f] = dir[f] /\ UNCHANGED <<highest, cut>>
    BY <2>1, <2>4 DEF Open, TypeOK
  <2>6. PICK v \in Worker : Owner(v)
    BY <1>1, <2>2, <2>4, <2>5
  <2>7. Owner(v)'
    BY <2>1, <2>6 DEF Open, TypeOK
  <2> QED
    BY <2>7
<1>5. ASSUME NEW w \in Worker, Copy(w)
      PROVE  \E v \in Worker : Owner(v)'
  <2>1. UNCHANGED <<dir, name, pc, bound, cut, highest>>
    BY <1>5 DEF Copy
  <2>2. written[w] \in Nat /\ written'[w] = written[w] + 1
        /\ written'[w] <= bound[w] + 1 /\ bound[w] \in Nat /\ bound[w] <= highest
        /\ \A v \in Worker \ {w} : written'[v] = written[v]
    <3>1. \A v \in Worker \ {w} : written'[v] = written[v]
      BY <1>5 DEF Copy, TypeOK
    <3> QED
      BY <1>5, <3>1, CopyData
  <2>3. CASE Long
    <3>1. PICK v \in Worker : Owner(v)
      BY <1>1, <2>1, <2>3
    <3>2. written'[v] > bound'[v]
      BY <2>1, <2>2, <3>1
    <3> QED
      BY <2>1, <3>1, <3>2
  <2>4. CASE ~Long
    <3>1. dir[f] = fd[w] /\ written[w] + 1 > highest
      <4>1. /\ \A i \in Inode \ {fd[w]} : data'[i] = data[i]
            /\ Len(data'[fd[w]]) =
                  IF written[w] + 1 > Len(data[fd[w]]) THEN written[w] + 1 ELSE Len(data[fd[w]])
        BY <1>5, CopyData
      <4> QED
        BY <1>1, <2>1, <2>4, <4>1
    <3>2. name[w] = f
      BY <2>1, <3>1 DEF OneFile
    <3>3. written'[w] > bound'[w]
      BY <1>1, <2>1, <2>2, <3>1
    <3>4. pc[w] = "copying"
      BY <1>5 DEF Copy
    <3> QED
      BY <2>1, <3>2, <3>3, <3>4
  <2> QED
    BY <2>3, <2>4
<1>6. ASSUME NEW w \in Worker, CopyEnds(w) \/ CopyFails(w)
      PROVE  \E v \in Worker : Owner(v)'
  <2>1. UNCHANGED <<disk, name, bound, written, cut, highest>>
    BY <1>6 DEF CopyEnds, CopyFails
  <2>2. PICK v \in Worker : Owner(v)
    BY <1>1, <2>1
  <2>3. pc'[v] \in {"copying", "failed"}
    BY <1>6, <2>2 DEF CopyEnds, CopyFails, TypeOK
  <2> QED
    BY <2>1, <2>2, <2>3
<1>7. ASSUME NEW w \in Worker, Remove(w)
      PROVE  \E v \in Worker : Owner(v)'
  <2>1. UNCHANGED <<data, name, bound, written, cut, highest>> /\ dir'[f] = dir[f]
    BY <1>7 DEF Remove, TypeOK
  <2>2. PICK v \in Worker : Owner(v)
    BY <1>1, <2>1
  <2>3. v # w
    BY <1>7, <2>2 DEF Remove
  <2>4. pc'[v] = pc[v]
    BY <1>7, <2>3 DEF Remove, TypeOK
  <2> QED
    BY <2>1, <2>2, <2>4
<1>8. ASSUME NEW n \in MaxSizes, SetMaxSize(n)
      PROVE  \E v \in Worker : Owner(v)'
  <2>1. n \in Nat /\ highest <= highest' /\ UNCHANGED <<disk, op, cut>>
    <3>1. n \in Nat /\ highest' = IF n > highest THEN n ELSE highest
      BY <1>8 DEF SetMaxSize
    <3>2. UNCHANGED <<disk, op, cut>>
      BY <1>8 DEF SetMaxSize
    <3> QED
      BY <1>1, <3>1, <3>2
  <2>2. PICK v \in Worker : Owner(v)
    BY <1>1, <2>1
  <2> QED
    BY <2>1, <2>2
<1>9. CASE Restart
  <2>1. UNCHANGED <<disk, highest>> /\ f \notin cut /\ ~Busy(f)
    BY <1>9 DEF Restart
  <2> QED
    BY <1>1, <2>1 DEF Busy
<1>10. CASE UNCHANGED vars
  BY <1>1, <1>10 DEF vars
<1>11. ASSUME NEW w \in Worker, NEW g \in Name,
              DeleteBegin(w, g) \/ \E c \in Contents : UploadBegin(w, g, c)
       PROVE  \E v \in Worker : Owner(v)'
  <2>1. \E stage : Begin(w, g, stage)
    BY <1>11 DEF UploadBegin, DeleteBegin
  <2>2. /\ UNCHANGED <<disk, written, cut, limits>>
        /\ bound' \in {bound, [bound EXCEPT ![w] = maxSize]}
    BY <1>11 DEF UploadBegin, DeleteBegin
  <2> QED
    BY <1>2, <2>1, <2>2
<1> QED
  <2>1. \E v \in Worker : Owner(v)'
    BY <1>3, <1>4, <1>5, <1>6, <1>7, <1>8, <1>9, <1>10, <1>11 DEF Next
  <2> QED
    BY <2>1

LEMMA LongInit == Init => OneFile /\ LongOwned
BY Assumptions DEF Init, OneFile, LongOwned

(* No file beyond the upload limit stays behind, whatever operations       *)
(* overlap on a name, unless a crash or a failing Remove has left it.      *)
THEOREM AtRestCorrect == Spec => []AtRestWithinLimit
<1>1. Init => TypeOK /\ OneFile /\ LongOwned
  BY TypeInit, LongInit
<1>2. TypeOK /\ OneFile /\ LongOwned /\ [Next]_vars => (TypeOK /\ OneFile /\ LongOwned)'
  BY TypeStep, OneFileStep, LongStep
<1>3. TypeOK /\ OneFile /\ LongOwned => AtRestWithinLimit
  <2> SUFFICES ASSUME TypeOK, LongOwned, NEW f \in Name \ cut, dir[f] # None, ~Busy(f)
               PROVE  Len(data[dir[f]]) <= highest
    BY DEF AtRestWithinLimit
  <2>1. Len(data[dir[f]]) \in Nat /\ highest \in Nat
    BY DEF TypeOK
  <2> QED
    BY <2>1 DEF LongOwned, Busy
<1> QED
  BY <1>1, <1>2, <1>3, PTL DEF Spec

-----------------------------------------------------------------------------
(* File and record agree.                                                  *)

LEMMA UnwrittenStep == TypeOK /\ Unwritten /\ [Next]_vars => Unwritten'
<1> SUFFICES ASSUME TypeOK, Unwritten, [Next]_vars PROVE Unwritten'
  OBVIOUS
<1> USE DEF disk, op, history, limits, Goto, Unwritten
<1>1. ASSUME NEW w \in Worker, NEW f \in Name,
             DeleteBegin(w, f) \/ \E c \in Contents : UploadBegin(w, f, c)
      PROVE  Unwritten'
  BY <1>1 DEF UploadBegin, DeleteBegin, Begin, TypeOK
<1>2. ASSUME NEW w \in Worker, CreateFails(w) \/ Discard(w) \/ Upsert(w) \/ RemoveFails(w)
                               \/ DeleteRecord(w)
      PROVE  Unwritten'
  <2>1. Return(w)
    BY <1>2 DEF CreateFails, Discard, Upsert, RemoveFails, DeleteRecord
  <2> QED
    BY <2>1 DEF Return, TypeOK
<1>3. ASSUME NEW w \in Worker, Create(w) \/ Copy(w) \/ CopyEnds(w) \/ CopyFails(w) \/ Remove(w)
      PROVE  Unwritten'
  BY <1>3 DEF Create, Open, Copy, CopyEnds, CopyFails, Remove, TypeOK
<1>4. CASE Restart \/ (\E n \in MaxSizes : SetMaxSize(n)) \/ UNCHANGED vars
  BY <1>4 DEF Restart, SetMaxSize, vars
<1> QED
  BY <1>1, <1>2, <1>3, <1>4 DEF Next

(* A step on one name leaves alone what the operations on other names      *)
(* rest on.                                                                *)
LEMMA Frame ==
    ASSUME TypeOK, TypeOK', Solo, Solo', SoundSolo', OneFile, Stages,
           NEW w \in Worker, NEW f \in Name,
           f \in {name[w], name'[w]}, name[w] \in {f, None}, name'[w] \in {f, None},
           \A v \in Worker \ {w} :
              /\ pc'[v] = pc[v] /\ name'[v] = name[v] /\ content'[v] = content[v]
              /\ fd'[v] = fd[v] /\ written'[v] = written[v]
              /\ alone'[v] => alone[v],
           \A g \in Name \ {f} :
              /\ dir'[g] = dir[g] /\ record'[g] = record[g]
              /\ g \in sound' => g \in sound,
           \A i \in Inode :
              \/ data'[i] = data[i]
              \/ /\ \A g \in Name \ {f} : dir[g] # i
                 /\ \A v \in Worker : fd[v] = i => name[v] = f,
           Lone(w)', Sound(w)', f \in sound' /\ ~Busy(f)' => Agrees(f)'
    PROVE  Stages'
<1>1. ASSUME NEW v \in Worker \ {w}, alone'[v]
      PROVE  alone[v] /\ name[v] # f
  BY <1>1, Assumptions DEF Solo
<1>2. ASSUME NEW v \in Worker \ {w} PROVE Lone(v)'
  <2> SUFFICES ASSUME alone'[v] PROVE Lone(v)'
    BY DEF Lone
  <2>1. alone[v] /\ name[v] # f
    BY <1>1
  <2>2. CASE pc[v] \in {"free", "removed"}
    <3>1. name[v] \in Name
      BY <2>2 DEF TypeOK
    <3> QED
      BY <2>1, <2>2, <3>1 DEF Lone, Stages
  <2>3. CASE pc[v] \in {"copying", "copied"}
    <3>1. name[v] \in Name
      BY <2>3 DEF TypeOK
    <3>2. Begun(v) /\ (pc[v] = "copied" => written[v] = Len(content[v]))
      BY <2>1, <2>3 DEF Lone, Stages
    <3>3. data'[fd[v]] = data[fd[v]]
      BY <2>1, <3>2 DEF Begun
    <3>4. Begun(v)'
      BY <2>1, <3>1, <3>2, <3>3 DEF Begun
    <3> QED
      BY <2>3, <3>2, <3>4 DEF Lone
  <2> QED
    BY <2>2, <2>3 DEF Lone
<1>3. ASSUME NEW g \in Name \ {f}, Agrees(g) PROVE Agrees(g)'
  <2>1. dir[g] \in Inode => data'[dir[g]] = data[dir[g]]
    OBVIOUS
  <2>2. dir[g] \in Inode \cup {None}
    BY DEF TypeOK
  <2> QED
    BY <1>3, <2>1, <2>2 DEF Agrees
<1>4. ASSUME NEW v \in Worker \ {w} PROVE Sound(v)'
  <2> SUFFICES ASSUME name[v] \in sound' PROVE Sound(v)'
    BY DEF Sound
  <2>1. name[v] # f
    BY <1>1 DEF SoundSolo
  <2>2. name[v] \in Name \ {f}
    BY <2>1 DEF TypeOK
  <2>3. name[v] \in sound /\ Sound(v)
    BY <2>2 DEF Stages
  <2>4. name'[v] = name[v] /\ pc'[v] = pc[v] /\ record'[name[v]] = record[name[v]]
    BY <2>2
  <2>5. ASSUME pc[v] = "found"
        PROVE  IF dir'[name[v]] = None THEN record'[name[v]] = None
               ELSE record'[name[v]] = data'[dir'[name[v]]]
    <3>1. PICK g \in Name \ {f} : g = name[v]
      BY <2>2
    <3>2. Agrees(g)
      BY <2>3, <2>5, <3>1 DEF Sound
    <3>3. Agrees(g)'
      BY <1>3, <3>2
    <3> QED
      BY <3>1, <3>3 DEF Agrees
  <2> QED
    BY <2>3, <2>4, <2>5 DEF Sound, Agrees
<1>5. ASSUME NEW g \in sound', ~Busy(g)' PROVE Agrees(g)'
  <2>1. CASE g = f
    BY <1>5, <2>1
  <2>2. CASE g # f
    <3>1. g \in Name \ {f} /\ g \in sound
      BY <2>2 DEF TypeOK
    <3>2. ~Busy(g)
      BY <1>5, <3>1, Assumptions DEF Busy
    <3> QED
      BY <1>3, <3>1, <3>2 DEF Stages, SoundAgrees
  <2> QED
    BY <2>1, <2>2
<1> QED
  BY <1>2, <1>4, <1>5 DEF Stages, SoundAgrees

(* SaveFile: a sound name that is free has no record; what is written is   *)
(* the beginning of the upload, and all of it when it is recorded.         *)
LEMMA UploadStages ==
    ASSUME TypeOK, TypeOK', Solo, Solo', SoundSolo, SoundSolo', OneFile, Unwritten, Stages,
           NEW w \in Worker,
           \/ \E f \in Name, c \in Contents : UploadBegin(w, f, c)
           \/ Create(w) \/ Copy(w) \/ CopyEnds(w)
    PROVE  Stages'
<1> USE Assumptions DEF disk, op, history, limits, Goto
<1>1. ASSUME NEW f \in Name, NEW c \in Contents, UploadBegin(w, f, c)
      PROVE  Stages'
  <2>1. /\ name[w] = None /\ name'[w] = f /\ pc'[w] = "free" /\ dir[f] = None
        /\ UNCHANGED <<dir, data, record, fd, written>>
        /\ \A v \in Worker \ {w} :
              /\ pc'[v] = pc[v] /\ name'[v] = name[v] /\ content'[v] = content[v]
              /\ alone'[v] => alone[v]
        /\ sound' \subseteq sound
    BY <1>1 DEF UploadBegin, Begin, TypeOK
  <2>2. Lone(w)'
    BY <2>1 DEF Lone
  <2>3. f \in sound' => record[f] = None
    <3>1. f \in sound' => f \in sound /\ ~Busy(f)
      BY <1>1, <2>1 DEF UploadBegin, Begin
    <3> QED
      BY <2>1, <3>1 DEF Stages, SoundAgrees, Agrees
  <2>4. Sound(w)'
    BY <2>1, <2>3 DEF Sound
  <2>5. Busy(f)'
    BY <2>1 DEF Busy
  <2> QED
    BY <2>1, <2>2, <2>4, <2>5, Frame
<1>2. CASE Create(w)
  <2>0. PICK f \in Name : f = name[w]
    BY <1>2 DEF Create, TypeOK
  <2>1. f \in Name /\ pc[w] = "free" /\ written[w] = 0
    BY <1>2 DEF Create, TypeOK, Unwritten
  <2>2. PICK i \in Inode :
           /\ Open(w, i)
           /\ \/ dir[f] = i
              \/ \A g \in Name : dir[g] # i /\ \A v \in Worker : fd[v] # i
    BY <2>0, <1>2, <2>1 DEF Create, TypeOK
  <2>3. /\ dir'[f] = i /\ \A g \in Name \ {f} : dir'[g] = dir[g]
        /\ fd'[w] = i /\ \A v \in Worker \ {w} : fd'[v] = fd[v]
        /\ data'[i] = <<>> /\ \A j \in Inode \ {i} : data'[j] = data[j]
        /\ pc'[w] = "copying" /\ \A v \in Worker \ {w} : pc'[v] = pc[v]
        /\ UNCHANGED <<name, record, content, written, alone, sound>>
        /\ i # None
    BY <2>0, <2>1, <2>2 DEF Open, TypeOK
  <2>4. /\ \A g \in Name \ {f} : dir[g] # i
        /\ \A v \in Worker : fd[v] = i => name[v] = f
    BY <2>0, <2>1, <2>2, <2>3 DEF OneFile
  <2>5. Begun(w)'
    <3>1. Len(<<>>) = 0
      BY EmptySeq
    <3>2. content[w] \in Contents
      BY <2>1 DEF TypeOK
    <3>3. Len(content[w]) \in Nat
      BY <3>2, LenProperties
    <3> QED
      BY <2>0, <2>1, <2>3, <3>1, <3>3 DEF Begun
  <2>6. Lone(w)' /\ Sound(w)'
    BY <2>0, <2>1, <2>3, <2>5 DEF Lone, Sound, Stages
  <2>7. Busy(f)'
    BY <2>0, <2>3 DEF Busy
  <2>8. f = name[w] /\ f = name'[w]
    BY <2>0, <2>3
  <2> QED
    BY <2>0, <2>1, <2>3, <2>4, <2>6, <2>7, <2>8, Frame
<1>3. CASE Copy(w)
  <2>0. PICK f \in Name : f = name[w]
    BY <1>3 DEF Copy, TypeOK
  <2>1. f \in Name /\ pc[w] = "copying" /\ f # None
    BY <1>3 DEF Copy, TypeOK
  <2>2. UNCHANGED <<dir, record, pc, name, content, fd, alone, sound>>
        /\ \A v \in Worker \ {w} : written'[v] = written[v]
    BY <1>3 DEF Copy, TypeOK
  <2>3. /\ fd[w] \in Inode /\ fd[w] # None
        /\ \A i \in Inode \ {fd[w]} : data'[i] = data[i]
    BY <1>3, CopyData
  <2>4. /\ \A g \in Name \ {f} : dir[g] # fd[w]
        /\ \A v \in Worker : fd[v] = fd[w] => name[v] = f
    BY <2>0, <2>1, <2>3 DEF OneFile
  <2>5. ASSUME alone[w] PROVE Begun(w)'
    <3>1. Begun(w)
      BY <2>0, <2>1, <2>5 DEF Stages, Lone
    <3>2. /\ written[w] \in Nat /\ written'[w] = written[w] + 1
          /\ written'[w] <= Len(content[w])
          /\ Len(data'[fd[w]]) =
                IF written[w] + 1 > Len(data[fd[w]]) THEN written[w] + 1 ELSE Len(data[fd[w]])
          /\ \A j \in 1..Len(data'[fd[w]]) :
                data'[fd[w]][j] = IF j = written[w] + 1 THEN content[w][written[w] + 1]
                                  ELSE IF j <= Len(data[fd[w]]) THEN data[fd[w]][j] ELSE Hole
      BY <1>3, CopyData
    <3>3. Len(data'[fd[w]]) = written'[w]
      BY <3>1, <3>2 DEF Begun
    <3>4. ASSUME NEW j \in 1..written'[w]
          PROVE  data'[fd[w]][j] = content[w][j]
      BY <3>1, <3>2, <3>3 DEF Begun
    <3> QED
      BY <2>2, <3>1, <3>2, <3>3, <3>4 DEF Begun
  <2>6. Lone(w)' /\ Sound(w)'
    BY <2>0, <2>1, <2>2, <2>5 DEF Lone, Sound, Stages
  <2>7. Busy(f)'
    BY <2>0, <2>2 DEF Busy
  <2>8. f = name[w] /\ f = name'[w]
    BY <2>0, <2>2
  <2> QED
    BY <2>0, <2>1, <2>2, <2>3, <2>4, <2>6, <2>7, <2>8, Frame
<1>4. CASE CopyEnds(w)
  <2>0. PICK f \in Name : f = name[w]
    BY <1>4 DEF CopyEnds, TypeOK
  <2>1. f \in Name /\ pc[w] = "copying"
    BY <1>4 DEF CopyEnds, TypeOK
  <2>2. UNCHANGED <<dir, data, record, name, content, fd, written, alone, sound>>
        /\ \A v \in Worker \ {w} : pc'[v] = pc[v]
    BY <1>4 DEF CopyEnds, TypeOK
  <2>3. pc'[w] = (IF written[w] > bound[w] THEN "failed" ELSE "copied")
    BY <1>4 DEF CopyEnds, TypeOK
  <2>4. pc'[w] = "copied" => written[w] = Len(content[w])
    <3>1. content[w] \in Contents /\ bound[w] \in Nat /\ written[w] \in Nat
      BY <2>1 DEF TypeOK
    <3>2. written[w] = Limited(content[w], bound[w])
      BY <1>4 DEF CopyEnds
    <3>3. Limited(content[w], bound[w]) <= bound[w]
             => Limited(content[w], bound[w]) = Len(content[w])
      BY <3>1, LimitedType
    <3> QED
      BY <2>3, <3>1, <3>2, <3>3
  <2>5. alone[w] => Begun(w)'
    BY <2>0, <2>1, <2>2 DEF Stages, Lone, Begun
  <2>6. Lone(w)' /\ Sound(w)'
    BY <2>0, <2>1, <2>2, <2>3, <2>4, <2>5 DEF Lone, Sound, Stages
  <2>7. Busy(f)'
    BY <2>0, <2>2 DEF Busy
  <2>8. f = name[w] /\ f = name'[w]
    BY <2>0, <2>2
  <2> QED
    BY <2>0, <2>1, <2>2, <2>6, <2>7, <2>8, Frame
<1> QED
  BY <1>1, <1>2, <1>3, <1>4

(* DeleteFile, and an upload that fails. *)
LEMMA OtherStages ==
    ASSUME TypeOK, TypeOK', Solo, Solo', SoundSolo, SoundSolo', OneFile, Stages,
           NEW w \in Worker,
           (\E f \in Name : DeleteBegin(w, f)) \/ CopyFails(w) \/ Remove(w)
    PROVE  Stages'
<1> USE Assumptions DEF disk, op, history, limits, Goto
<1>1. ASSUME NEW f \in Name, DeleteBegin(w, f)
      PROVE  Stages'
  <2>1. /\ name[w] = None /\ name'[w] = f /\ pc'[w] = "found"
        /\ UNCHANGED <<dir, data, record, content, fd, written>>
        /\ \A v \in Worker \ {w} :
              /\ pc'[v] = pc[v] /\ name'[v] = name[v] /\ (alone'[v] => alone[v])
        /\ sound' \subseteq sound
    BY <1>1 DEF DeleteBegin, Begin, TypeOK
  <2>2. Lone(w)'
    BY <2>1 DEF Lone
  <2>3. f \in sound' => Agrees(f)'
    <3>1. f \in sound' => f \in sound /\ ~Busy(f)
      BY <1>1, <2>1 DEF DeleteBegin, Begin
    <3> QED
      BY <2>1, <3>1 DEF Stages, SoundAgrees, Agrees
  <2>4. Sound(w)'
    BY <2>1, <2>3 DEF Sound, Agrees
  <2>5. Busy(f)'
    BY <2>1 DEF Busy
  <2> QED
    BY <2>1, <2>2, <2>4, <2>5, Frame
<1>2. CASE CopyFails(w) \/ Remove(w)
  <2>0. PICK f \in Name : f = name[w]
    BY <1>2 DEF CopyFails, Remove, TypeOK
  <2>1. f \in Name /\ pc[w] \in {"copying", "found"}
    BY <1>2 DEF CopyFails, Remove, TypeOK
  <2>2. /\ UNCHANGED <<data, record, name, content, fd, written, alone, sound>>
        /\ \A v \in Worker \ {w} : pc'[v] = pc[v]
        /\ \A g \in Name \ {f} : dir'[g] = dir[g]
        /\ \/ pc[w] = "copying" /\ pc'[w] = "failed"
           \/ pc'[w] = "removed" /\ dir'[f] = None
    BY <2>0, <1>2, <2>1 DEF CopyFails, Remove, TypeOK
  <2>3. Lone(w)' /\ Sound(w)'
    BY <2>0, <2>1, <2>2 DEF Lone, Sound, Stages
  <2>4. Busy(f)'
    BY <2>0, <2>2 DEF Busy
  <2>5. f = name[w] /\ f = name'[w]
    BY <2>0, <2>2
  <2> QED
    BY <2>0, <2>1, <2>2, <2>3, <2>4, <2>5, Frame
<1> QED
  BY <1>1, <1>2

(* Every way an operation ends leaves file and record of a sound name in   *)
(* agreement.                                                              *)
LEMMA ReturnStages ==
    ASSUME TypeOK, TypeOK', Solo, Solo', SoundSolo, SoundSolo', OneFile, Stages,
           NEW w \in Worker,
           CreateFails(w) \/ Discard(w) \/ Upsert(w) \/ RemoveFails(w) \/ DeleteRecord(w)
    PROVE  Stages'
<1> USE Assumptions DEF disk, op, history, limits
<1>0. PICK f \in Name : f = name[w]
  BY DEF CreateFails, Discard, Upsert, RemoveFails, DeleteRecord, TypeOK
<1>1. f \in Name /\ f # None
  BY DEF CreateFails, Discard, Upsert, RemoveFails, DeleteRecord, TypeOK
<1>2. Return(w) /\ data' = data
  BY DEF CreateFails, Discard, Upsert, RemoveFails, DeleteRecord
<1>3. /\ name'[w] = None /\ pc'[w] = "idle" /\ alone' = alone
      /\ \A v \in Worker \ {w} :
            /\ pc'[v] = pc[v] /\ name'[v] = name[v] /\ content'[v] = content[v]
            /\ fd'[v] = fd[v] /\ written'[v] = written[v]
  BY <1>2 DEF Return, Goto, TypeOK
<1>4. \A g \in Name \ {f} :
         /\ dir'[g] = dir[g] /\ record'[g] = record[g]
         /\ g \in sound' => g \in sound
  BY <1>0, <1>1 DEF CreateFails, Discard, Upsert, RemoveFails, DeleteRecord, TypeOK
<1>5. Lone(w)' /\ Sound(w)'
  BY <1>3 DEF Lone, Sound, TypeOK
<1>6. Lone(w) /\ Sound(w) /\ (f \in sound => alone[w])
  BY <1>0 DEF Stages, SoundSolo
<1>7. ASSUME f \in sound' PROVE Agrees(f)'
  <2>1. CASE CreateFails(w)
    <3>1. UNCHANGED <<dir, record, sound>> /\ pc[w] = "free"
      BY <2>1 DEF CreateFails
    <3> QED
      BY <1>0, <1>2, <1>6, <1>7, <3>1 DEF Lone, Sound, Agrees
  <2>2. CASE Discard(w)
    <3>1. sound' = sound /\ dir'[f] = None /\ record' = record /\ pc[w] = "failed"
      BY <1>0, <1>1, <1>7, <2>2 DEF Discard, TypeOK
    <3> QED
      BY <1>0, <1>6, <1>7, <3>1 DEF Sound, Agrees
  <2>3. CASE Upsert(w)
    <3>1. /\ pc[w] = "copied" /\ dir' = dir /\ record'[f] = content[w]
          /\ alone[w] /\ content[w] \in Contents
      BY <1>0, <1>1, <1>6, <1>7, <2>3 DEF Upsert, TypeOK
    <3>2. Begun(w) /\ written[w] = Len(content[w])
      BY <1>6, <3>1 DEF Lone
    <3>3. /\ dir[f] \in Inode /\ dir[f] # None
          /\ data[dir[f]] \in Seq(Block) /\ content[w] \in Seq(Block)
          /\ Len(data[dir[f]]) = Len(content[w])
          /\ \A j \in 1..Len(content[w]) : data[dir[f]][j] = content[w][j]
      BY <1>0, <3>1, <3>2 DEF Begun, TypeOK
    <3>4. data[dir[f]] = content[w]
      BY <3>3, SeqEqual
    <3> QED
      BY <1>2, <3>1, <3>3, <3>4 DEF Agrees
  <2>4. CASE RemoveFails(w)
    <3>1. UNCHANGED <<dir, record, sound>> /\ pc[w] = "found"
      BY <2>4 DEF RemoveFails
    <3> QED
      BY <1>0, <1>2, <1>6, <1>7, <3>1 DEF Sound, Agrees
  <2>5. CASE DeleteRecord(w)
    <3>1. /\ pc[w] = "removed" /\ dir' = dir /\ record'[f] = None /\ alone[w]
      BY <1>0, <1>1, <1>6, <1>7, <2>5 DEF DeleteRecord, TypeOK
    <3> QED
      BY <1>0, <1>6, <3>1 DEF Lone, Agrees
  <2> QED
    BY <2>1, <2>2, <2>3, <2>4, <2>5
<1> QED
  BY <1>1, <1>2, <1>3, <1>4, <1>5, <1>7, <1>0, Frame

LEMMA FilesInit == Init => FilesInv
BY Assumptions DEF Init, FilesInv, Solo, SoundSolo, OneFile, Unwritten, Stages, Lone, Sound,
                   SoundAgrees, Agrees

LEMMA StagesStep == TypeOK /\ FilesInv /\ [Next]_vars => Stages'
<1> SUFFICES ASSUME TypeOK, FilesInv, [Next]_vars PROVE Stages'
  OBVIOUS
<1> USE DEF FilesInv
<1>1. TypeOK' /\ Solo' /\ SoundSolo'
  BY TypeStep, SoloStep
<1>2. CASE Restart
  <2>1. /\ \A w \in Worker : pc'[w] = "idle" /\ name'[w] = None
        /\ UNCHANGED <<dir, data, record>> /\ sound' = {f \in sound : ~Busy(f)}
        /\ None \notin sound'
    BY <1>2, Assumptions DEF Restart, disk, TypeOK
  <2> QED
    BY <2>1 DEF Stages, Lone, Sound, SoundAgrees, Agrees, Busy
<1>3. CASE (\E n \in MaxSizes : SetMaxSize(n)) \/ UNCHANGED vars
  <2>1. UNCHANGED <<disk, record, op, history>>
    BY <1>3 DEF SetMaxSize, vars
  <2> QED
    BY <2>1 DEF Stages, Lone, Begun, Sound, SoundAgrees, Agrees, Busy, disk, op, history
<1> QED
  BY <1>1, <1>2, <1>3, UploadStages, OtherStages, ReturnStages DEF Next

(* Only overlapping operations, failing statements and crashes make file   *)
(* and record of a name disagree, and an operation that runs alone sets    *)
(* them right.                                                             *)
THEOREM SoundCorrect == Spec => []SoundAgrees
<1>1. Init => TypeOK /\ FilesInv
  BY TypeInit, FilesInit
<1>2. TypeOK /\ FilesInv /\ [Next]_vars => (TypeOK /\ FilesInv)'
  BY TypeStep, SoloStep, OneFileStep, UnwrittenStep, StagesStep DEF FilesInv
<1>3. FilesInv => SoundAgrees
  BY DEF FilesInv, Stages
<1> QED
  BY <1>1, <1>2, <1>3, PTL DEF Spec

=============================================================================
