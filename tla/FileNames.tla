----------------------------- MODULE FileNames -----------------------------
(***************************************************************************)
(* SanitizeFileName (internal/service/file_service.go), and the names one  *)
(* file goes by.  Every function of the service cleans the name it is      *)
(* given, and most hand the clean name to one that cleans it again:        *)
(* SaveFile and DeleteFile use the table under the name cleaned once and   *)
(* the directory under the name cleaned twice, and a link names the file   *)
(* cleaned once more than the request did.  All meet in one file only if   *)
(* cleaning a clean name changes nothing.                                  *)
(*                                                                         *)
(* A name is a sequence of characters; a request for a file takes the name *)
(* from the list of records.                                               *)
(***************************************************************************)
EXTENDS Integers, SequencesExt

CONSTANTS
    Letter,     \* the characters without a meaning
    Reserved,   \* the names of devices under Windows
    Unnamed,    \* "unnamed_file"
    Allowed,    \* the extensions that may be uploaded, with the dot
    MaxLen,     \* most characters of a name: 255
    MaxName     \* bound of the model: most characters of an uploaded name

Blank == " "

(* What takes the place of anything not allowed. *)
Filler == "_"

(* A character that is not allowed in a name, for all of unsafeChars that  *)
(* the multipart reader leaves in the name of an upload.                   *)
Unsafe == "\\"

(* Filler may be a letter too, as it is in "unnamed_file". *)
ASSUME Assumptions ==
    /\ MaxLen \in Nat \ {0} /\ MaxName \in Nat
    /\ Letter \cap {".", Blank, Unsafe} = {}
    /\ Unnamed \in Seq(Letter) \ {<<>>} /\ Len(Unnamed) < MaxLen
    /\ Reserved \subseteq Seq(Letter) \ {<<>>}
    /\ \A r \in Reserved : r[1] # Filler

VARIABLES
    name,       \* the name the file was uploaded under
    record,     \* the name its record has
    file,       \* the name it has in the upload directory
    link,       \* FileName of a link made for it
    served      \* the name under which the link's download opens it

vars == <<name, record, file, link, served>>

(* No name, also what a panic returns. *)
NoName == <<>>

Character == Letter \cup {".", Blank, Unsafe}

Uploaded == SeqOf(Character, MaxName)

-----------------------------------------------------------------------------
(* strings.TrimLeft, strings.TrimRight and filepath.Ext.                   *)

Outside(s, cut) == {i \in 1..Len(s) : s[i] \notin cut}

TrimLeft(s, cut) == SubSeq(s, Min(Outside(s, cut) \cup {Len(s) + 1}), Len(s))

TrimRight(s, cut) == SubSeq(s, 1, Max(Outside(s, cut) \cup {0}))

LastDot(s) == Max({i \in 1..Len(s) : s[i] = "."} \cup {0})

Ext(s) == IF LastDot(s) = 0 THEN <<>> ELSE SubSeq(s, LastDot(s), Len(s))

-----------------------------------------------------------------------------
(* The passes of SanitizeFileName.                                         *)

MutantReplaced(s) == s

Replaced(s) == [i \in 1..Len(s) |-> IF s[i] = Unsafe THEN Filler ELSE s[i]]

(* ReplaceAll of two dots, from every position on.                         *)
CollapsedFrom(s) ==
    LET rest[i \in 1..Len(s) + 1] ==
            IF i > Len(s) THEN <<>>
            ELSE IF i < Len(s) /\ s[i] = "." /\ s[i + 1] = "."
                 THEN <<Filler>> \o rest[i + 2]
                 ELSE <<s[i]>> \o rest[i + 1]
    IN  rest

(* One round leaves no two dots, so the loop ends.                         *)
Collapsed(s) == CollapsedFrom(s)[1]

(* Leading dots, then trailing blanks and dots, then blanks on both sides. *)
Trimmed(s) == TrimLeft(TrimRight(TrimLeft(s, {"."}), {Blank, "."}), {Blank})

Named(s) == IF s = <<>> THEN Unnamed ELSE s

MutantUnreserved(s) == s

(* The name without its extension; a dot in front is none. *)
Base(s) == IF LastDot(s) > 1 THEN SubSeq(s, 1, LastDot(s) - 1) ELSE s

Unreserved(s) == IF Base(s) \in Reserved THEN <<Filler>> \o s ELSE s

(* The name is cut, the extension stays; one that is too long by itself    *)
(* makes the slice panic.                                                  *)
Shortened(s) ==
    IF Len(s) <= MaxLen THEN s
    ELSE IF Len(Ext(s)) > MaxLen THEN NoName
         ELSE SubSeq(s, 1, MaxLen - Len(Ext(s))) \o Ext(s)

SanitizeFileName(s) == Shortened(Unreserved(Named(Trimmed(Collapsed(Replaced(s))))))

(* resolvePath cleans the name it is given. *)
resolvePath(s) == SanitizeFileName(s)

-----------------------------------------------------------------------------
(* The story of one file.                                                  *)

Init ==
    /\ name = NoName /\ record = NoName /\ file = NoName
    /\ link = NoName /\ served = NoName

MutantSaveFile(n) ==
    /\ file = NoName /\ name \in {NoName, n}
    /\ Ext(n) \in Allowed
    /\ file' = SanitizeFileName(n) /\ file' # NoName
    /\ name' = n /\ record' = n
    /\ UNCHANGED <<link, served>>

(* SaveFile looks at the extension of the name it was given. *)
SaveFile(n) ==
    /\ file = NoName /\ name \in {NoName, n}
    /\ Ext(n) \in Allowed
    /\ LET clean == SanitizeFileName(n)
       IN  /\ clean # NoName /\ resolvePath(clean) # NoName
           /\ record' = clean
           /\ file' = resolvePath(clean)
    /\ name' = n
    /\ UNCHANGED <<link, served>>

(* GenerateSignedLink, for the listed name. *)
GenerateSignedLink ==
    /\ file # NoName /\ resolvePath(record) = file
    /\ link' = SanitizeFileName(record)
    /\ UNCHANGED <<name, record, file, served>>

SignedDownload ==
    /\ link # NoName /\ file # NoName /\ resolvePath(link) = file
    /\ served' = resolvePath(link)
    /\ UNCHANGED <<name, record, file, link>>

(* DeleteFile, for the listed name.  The story begins anew when nothing is *)
(* left.                                                                   *)
DeleteFile ==
    LET clean == SanitizeFileName(record)
    IN  /\ file # NoName /\ resolvePath(clean) = file
        /\ file' = NoName
        /\ IF clean = record
           THEN name' = NoName /\ record' = NoName
           ELSE UNCHANGED <<name, record>>
        /\ link' = NoName /\ served' = NoName

Next ==
    \/ \E n \in Uploaded : SaveFile(n)
    \/ GenerateSignedLink
    \/ SignedDownload
    \/ DeleteFile

Spec == Init /\ [][Next]_vars

-----------------------------------------------------------------------------
(* Properties.                                                             *)

(* Short enough, and no dot hides behind a leading blank: the names one    *)
(* call cleans completely.                                                 *)
Regular(n) ==
    /\ Len(n) < MaxLen
    /\ \A i \in 1..Len(n) - 1 :
          n[i] = Blank /\ n[i + 1] = "." => \E j \in 1..i : n[j] \notin {Blank, "."}

(* Not hidden, with no character and no end a file system drops or refuses. *)
Clean(n) ==
    /\ Len(n) \in 1..MaxLen
    /\ \A i \in 1..Len(n) : n[i] # Unsafe
    /\ n[1] \notin {".", Blank} /\ n[Len(n)] \notin {".", Blank}
    /\ \A i \in 1..Len(n) - 1 : ~(n[i] = "." /\ n[i + 1] = ".")

(* Windows knows a device by what is before the first dot, blanks at its   *)
(* end left out, whatever follows: "nul.zip", "nul.tar.zip" and "nul .zip" *)
(* all are "nul".                                                          *)
FirstDot(n) == Min({i \in 1..Len(n) : n[i] = "."} \cup {Len(n) + 1})

Stem(n) == TrimRight(SubSeq(n, 1, FirstDot(n) - 1), {Blank})

Device(n) == Stem(n) \in Reserved

(* A name Windows and the directory take as it is. *)
Portable(n) == Clean(n) /\ ~Device(n)

(* Record, file, link and download of a regular name go by one name: what  *)
(* is listed is what is on disk, what is measured for a link is what is    *)
(* sent, and a deletion under the listed name leaves no record behind.     *)
OneName ==
    Regular(name) /\ record # NoName =>
        /\ file = record
        /\ link \in {NoName, file} /\ served \in {NoName, file}

(* Whatever the name, its file is a file of the upload directory itself.   *)
Inside ==
    file # NoName =>
        /\ file \notin {<<".">>, <<".", ".">>}
        /\ \A i \in 1..Len(file) : file[i] # Unsafe

(* A regular name becomes a clean one, and a portable one is kept: the     *)
(* client finds its file under the name it has given.  The record need not *)
(* be portable: SanitizeFileName takes off the last extension before it    *)
(* looks for a device (LastIndex, line 80), where Windows takes off all of *)
(* them and a blank.  "nul.tar.zip" and "nul .zip" stay what they are, and *)
(* no other name of a device does.                                         *)
PortableKept ==
    record # NoName /\ Regular(name) =>
        /\ Clean(record)
        /\ Device(record) => Stem(record) # Base(record)
        /\ Portable(name) => record = name
=============================================================================
