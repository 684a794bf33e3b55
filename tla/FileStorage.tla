---------------------------- MODULE FileStorage ----------------------------
(***************************************************************************)
(* The resource files: SaveFile and DeleteFile of FileService              *)
(* (internal/service/file_service.go), the upload directory they work in   *)
(* and the table of records (internal/store/file_store.go) that tells      *)
(* clients the size and CRC64 of every file.                               *)
(*                                                                         *)
(* Neither operation takes a lock.  Each looks at the directory, changes   *)
(* it, and then changes the table, in separate steps; a name in the        *)
(* directory may meanwhile come to stand for another file.  A CRC64 is     *)
(* represented by the content it was computed from.                        *)
(***************************************************************************)
EXTENDS Integers, Sequences

CONSTANTS
    Worker,     \* the request goroutines
    Name,       \* file names, as SanitizeFileName leaves them
    Inode,      \* what os.Create can make a name stand for
    Block,      \* what io.Copy writes at once
    Contents,   \* what is uploaded: sequences of blocks
    Hole,       \* the block of zeros below a write beyond the end of a file
    None,       \* no file, no record
    CfgMaxSize, \* the upload limit of the configuration file
    MaxSizes    \* the values SetMaxSize is called with

ASSUME Assumptions ==
    /\ CfgMaxSize \in Nat /\ MaxSizes \subseteq Nat
    /\ None \notin Inode /\ None \notin Name /\ None \notin Contents
    /\ Contents \subseteq Seq(Block) /\ Hole \in Block

VARIABLES
    dir,        \* dir[f]: the file the name stands for, None without one
    data,       \* data[i]: the blocks of the file
    record,     \* record[f]: size and CRC64 of the row, None without one
    maxSize,    \* h.maxSize, the upload limit
    pc,         \* pc[w]: where the operation is
    name,       \* name[w]: the name it works on
    content,    \* content[w]: what it uploads
    bound,      \* bound[w]: the upload limit it was called with
    fd,         \* fd[w]: the file it has created and writes to
    written,    \* written[w]: blocks io.Copy has written
    alone,      \* alone[w]: no other operation on the name beside it (history)
    sound,      \* the names nothing has gone wrong with since the last
                \* operation that ran alone (history)
    cut,        \* the names whose file a crash or a failing Remove has left
                \* (history)
    unsaved,    \* the names of which a statement has failed (history)
    highest     \* the highest upload limit that was in force (history)

disk == <<dir, data>>
op   == <<pc, name, content, bound, fd, written>>
history == <<alone, sound, cut, unsaved>>
limits  == <<maxSize, highest>>
vars == <<disk, record, op, history, limits>>

Busy(f) == \E w \in Worker : name[w] = f

(* Types: only an operation under way has a name, only an open file is     *)
(* written, and never beyond the upload limit plus 1.                      *)
TypeOK ==
    /\ dir \in [Name -> Inode \cup {None}]
    /\ data \in [Inode -> Seq(Block)]
    /\ \A i \in Inode : Len(data[i]) <= highest + 1
    /\ record \in [Name -> Contents \cup {None}]
    /\ pc \in [Worker -> {"idle", "free", "copying", "failed", "copied", "found", "removed"}]
    /\ name \in [Worker -> Name \cup {None}]
    /\ content \in [Worker -> Contents \cup {None}]
    /\ fd \in [Worker -> Inode \cup {None}]
    /\ bound \in [Worker -> 0..highest]
    /\ written \in [Worker -> 0..highest + 1]
    /\ \A w \in Worker :
          /\ (pc[w] = "idle") = (name[w] = None)
          /\ pc[w] \in {"free", "copying", "failed", "copied"} => content[w] \in Contents
          /\ pc[w] = "copying" => fd[w] \in Inode
    /\ alone \in [Worker -> BOOLEAN]
    /\ sound \subseteq Name /\ cut \subseteq Name /\ unsaved \subseteq Name
    /\ highest \in Nat /\ maxSize \in 0..highest /\ CfgMaxSize <= highest

Init ==
    /\ dir = [f \in Name |-> None]
    /\ data = [i \in Inode |-> <<>>]
    /\ record = [f \in Name |-> None]
    /\ pc = [w \in Worker |-> "idle"]
    /\ name = [w \in Worker |-> None]
    /\ content = [w \in Worker |-> None]
    /\ bound = [w \in Worker |-> 0]
    /\ fd = [w \in Worker |-> None]
    /\ written = [w \in Worker |-> 0]
    /\ alone = [w \in Worker |-> FALSE]
    /\ sound = Name
    /\ cut = {} /\ unsaved = {}
    /\ maxSize = CfgMaxSize /\ highest = CfgMaxSize

-----------------------------------------------------------------------------

(* Operation w starts on name f; it goes on to a stage; it returns. *)
Begin(w, f, stage) ==
    /\ pc[w] = "idle"
    /\ pc' = [pc EXCEPT ![w] = stage]
    /\ name' = [name EXCEPT ![w] = f]
    /\ alone' = [v \in Worker |-> IF v = w THEN ~Busy(f) ELSE alone[v] /\ name[v] # f]
    /\ sound' = IF Busy(f) THEN sound \ {f} ELSE sound

Goto(w, stage) == pc' = [pc EXCEPT ![w] = stage]

Return(w) ==
    /\ Goto(w, "idle")
    /\ name' = [name EXCEPT ![w] = None]
    /\ content' = [content EXCEPT ![w] = None]
    /\ bound' = [bound EXCEPT ![w] = 0]
    /\ fd' = [fd EXCEPT ![w] = None]
    /\ written' = [written EXCEPT ![w] = 0]
    /\ UNCHANGED alone

MutantLimited(c, n) == Len(c)

(* The blocks io.Copy gets from the LimitReader when the limit is n. *)
Limited(c, n) == IF Len(c) <= n THEN Len(c) ELSE n + 1

(* The file with block b at position n. *)
WriteAt(file, n, b) ==
    [j \in 1..(IF n > Len(file) THEN n ELSE Len(file)) |->
        IF j = n THEN b ELSE IF j <= Len(file) THEN file[j] ELSE Hole]

-----------------------------------------------------------------------------
(* SaveFile.  A type that is not allowed, or a name in use, ends it with   *)
(* nothing done.                                                           *)

MutantUploadBegin(w, f, c) ==
    /\ Begin(w, f, "free")
    /\ content' = [content EXCEPT ![w] = c]
    /\ bound' = [bound EXCEPT ![w] = maxSize]
    /\ UNCHANGED <<disk, record, fd, written, cut, unsaved, limits>>

(* os.Stat finds the name free. *)
UploadBegin(w, f, c) ==
    /\ dir[f] = None
    /\ Begin(w, f, "free")
    /\ content' = [content EXCEPT ![w] = c]
    /\ bound' = [bound EXCEPT ![w] = maxSize]
    /\ UNCHANGED <<disk, record, fd, written, cut, unsaved, limits>>

(* os.Create: a new file, or the one the name stands for by now, emptied. *)
Open(w, i) ==
    /\ Goto(w, "copying")
    /\ dir' = [dir EXCEPT ![name[w]] = i]
    /\ data' = [data EXCEPT ![i] = <<>>]
    /\ fd' = [fd EXCEPT ![w] = i]
    /\ UNCHANGED <<record, name, content, bound, written, history, limits>>

Create(w) ==
    /\ pc[w] = "free"
    /\ \/ dir[name[w]] # None /\ Open(w, dir[name[w]])
       \/ /\ dir[name[w]] = None
          /\ \E i \in Inode :
                /\ \A f \in Name : dir[f] # i
                /\ \A v \in Worker : fd[v] # i
                /\ Open(w, i)

CreateFails(w) ==
    /\ pc[w] = "free"
    /\ Return(w)
    /\ UNCHANGED <<disk, record, sound, cut, unsaved, limits>>

(* io.Copy writes one block, has written all it gets, or fails; one block  *)
(* beyond the limit is a failure too.                                      *)
Copy(w) ==
    /\ pc[w] = "copying"
    /\ written[w] < Limited(content[w], bound[w])
    /\ written' = [written EXCEPT ![w] = @ + 1]
    /\ data' = [data EXCEPT ![fd[w]] =
                   WriteAt(@, written[w] + 1, content[w][written[w] + 1])]
    /\ UNCHANGED <<dir, record, pc, name, content, bound, fd, history, limits>>

MutantCopyEnds(w) ==
    /\ pc[w] = "copying"
    /\ written[w] = Limited(content[w], bound[w])
    /\ Goto(w, "copied")
    /\ UNCHANGED <<disk, record, name, content, bound, fd, written, history, limits>>

CopyEnds(w) ==
    /\ pc[w] = "copying"
    /\ written[w] = Limited(content[w], bound[w])
    /\ Goto(w, IF written[w] > bound[w] THEN "failed" ELSE "copied")
    /\ UNCHANGED <<disk, record, name, content, bound, fd, written, history, limits>>

CopyFails(w) ==
    /\ pc[w] = "copying"
    /\ Goto(w, "failed")
    /\ UNCHANGED <<disk, record, name, content, bound, fd, written, history, limits>>

(* os.Remove of whatever the name stands for by now, and the error is      *)
(* returned.  Remove's own error is ignored.                               *)
Discard(w) ==
    /\ pc[w] = "failed"
    /\ \/ /\ dir' = [dir EXCEPT ![name[w]] = None]
          /\ UNCHANGED <<sound, cut>>
       \/ /\ sound' = sound \ {name[w]} /\ cut' = cut \cup {name[w]}
          /\ UNCHANGED dir
    /\ Return(w)
    /\ UNCHANGED <<data, record, unsaved, limits>>

(* Upsert; the upload succeeds, also when the statement fails. *)
Upsert(w) ==
    /\ pc[w] = "copied"
    /\ \/ /\ record' = [record EXCEPT ![name[w]] = content[w]]
          /\ sound' = IF alone[w] THEN sound \cup {name[w]} ELSE sound
          /\ UNCHANGED unsaved
       \/ /\ sound' = sound \ {name[w]} /\ unsaved' = unsaved \cup {name[w]}
          /\ UNCHANGED record
    /\ Return(w)
    /\ UNCHANGED <<disk, cut, limits>>

-----------------------------------------------------------------------------
(* DeleteFile.  Without a file it ends with nothing done, also when there  *)
(* is a record.                                                            *)

DeleteBegin(w, f) ==
    /\ dir[f] # None
    /\ Begin(w, f, "found")
    /\ UNCHANGED <<disk, record, content, bound, fd, written, cut, unsaved, limits>>

Remove(w) ==
    /\ pc[w] = "found"
    /\ dir[name[w]] # None
    /\ Goto(w, "removed")
    /\ dir' = [dir EXCEPT ![name[w]] = None]
    /\ UNCHANGED <<data, record, name, content, bound, fd, written, history, limits>>

RemoveFails(w) ==
    /\ pc[w] = "found"
    /\ Return(w)
    /\ UNCHANGED <<disk, record, sound, cut, unsaved, limits>>

(* The record goes; the deletion succeeds, also when the statement fails. *)
DeleteRecord(w) ==
    /\ pc[w] = "removed"
    /\ \/ /\ record' = [record EXCEPT ![name[w]] = None]
          /\ sound' = IF alone[w] THEN sound \cup {name[w]} ELSE sound
          /\ UNCHANGED unsaved
       \/ /\ sound' = sound \ {name[w]} /\ unsaved' = unsaved \cup {name[w]}
          /\ UNCHANGED record
    /\ Return(w)
    /\ UNCHANGED <<disk, cut, limits>>

-----------------------------------------------------------------------------

(* The configuration handler changes the upload limit. *)
SetMaxSize(n) ==
    /\ maxSize' = n
    /\ highest' = IF n > highest THEN n ELSE highest
    /\ UNCHANGED <<disk, record, op, history>>

(* The process ends at any point and starts again: files and rows stay,    *)
(* the limit is the configured one.                                        *)
Restart ==
    /\ sound' = {f \in sound : ~Busy(f)}
    /\ cut' = cut \cup {f \in Name : Busy(f)}
    /\ pc' = [w \in Worker |-> "idle"]
    /\ name' = [w \in Worker |-> None]
    /\ content' = [w \in Worker |-> None]
    /\ bound' = [w \in Worker |-> 0]
    /\ fd' = [w \in Worker |-> None]
    /\ written' = [w \in Worker |-> 0]
    /\ maxSize' = CfgMaxSize
    /\ UNCHANGED <<disk, record, alone, unsaved, highest>>

Next ==
    \/ \E w \in Worker, f \in Name :
          \/ \E c \in Contents : UploadBegin(w, f, c)
          \/ DeleteBegin(w, f)
    \/ \E w \in Worker :
          \/ Create(w) \/ CreateFails(w)
          \/ Copy(w) \/ CopyEnds(w) \/ CopyFails(w)
          \/ Discard(w) \/ Upsert(w)
          \/ Remove(w) \/ RemoveFails(w) \/ DeleteRecord(w)
    \/ \E n \in MaxSizes : SetMaxSize(n)
    \/ Restart

Spec == Init /\ [][Next]_vars

-----------------------------------------------------------------------------
(* Properties.                                                             *)

(* The record tells what is on disk. *)
Agrees(f) ==
    IF dir[f] = None THEN record[f] = None ELSE record[f] = data[dir[f]]

(* However wrong file and record of a name have become, an upload or a     *)
(* deletion that runs alone and whose statement succeeds sets them right,  *)
(* and only operations that overlap, failing statements and crashes make   *)
(* them wrong: a failed upload does not.                                   *)
SoundAgrees == \A f \in sound : ~Busy(f) => Agrees(f)

(* No file beyond the upload limit stays behind under any name, although   *)
(* an upload writes one block too many before it notices, and removes a    *)
(* name that may not be its file's any more.                               *)
AtRestWithinLimit ==
    \A f \in Name \ cut :
        dir[f] # None /\ ~Busy(f) => Len(data[dir[f]]) <= highest

(* What SaveFile says it returns: the size and CRC64 of the file it has    *)
(* saved.  When no operation runs, none was cut off and no statement       *)
(* failed, what the table tells clients of a file is true.                 *)
RecordedIsStored ==
    \A f \in Name \ (cut \cup unsaved) :
        dir[f] # None /\ record[f] # None /\ ~Busy(f) => record[f] = data[dir[f]]

=============================================================================
