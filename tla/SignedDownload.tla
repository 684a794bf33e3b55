--------------------------- MODULE SignedDownload ---------------------------
(***************************************************************************)
(* The requests that use a signed link: DownloadHandler.SignedDownload     *)
(* (internal/handler/download_handler.go) and                              *)
(* FileHandler.GenerateSignedLink (internal/handler/file_handler.go), over *)
(* the three services they call.  The link service appears as the budget   *)
(* it implements (DownloadBudget, see SignedLinks); the traffic service    *)
(* (internal/service/traffic_service.go, internal/store/traffic_store.go)  *)
(* is modelled here; of the files only their size on disk is kept, which   *)
(* uploads and deletes change at any time.                                 *)
(*                                                                         *)
(* A download reads the link, the file, its size and today's traffic in    *)
(* separate steps, pays, sends, and records the traffic when it is done.   *)
(***************************************************************************)
EXTENDS Integers, FiniteSets

CONSTANTS
    Token, File, Request,
    None,           \* no file, no link
    Limits,         \* daily limits the configuration handler may set
    CfgDailyLimit,  \* daily limit of the configuration file
    MaxFile,        \* most bytes a file on disk has: the upload limit plus 1
    NotFoundPage,   \* bytes of the answer c.File gives for a missing file
    Framing,        \* most bytes an answer in several ranges adds to the file's
    MaxDownloads,   \* most downloads a link is issued for: maxDL
    Asked,          \* downloads a request for a link may ask for
    MaxInt,         \* math.MaxInt64
    Days,           \* bound of the model: the days 1..Days
    MaxFailures     \* bound of the model: failing reads of the traffic

ASSUME Assumptions ==
    /\ None \notin Int /\ None \notin Token \cup File /\ None \notin File \X Int \X BOOLEAN
    /\ IsFiniteSet(Request)
    /\ Limits \subseteq Nat /\ CfgDailyLimit \in Nat
    /\ MaxFile \in Nat /\ Framing \in Nat /\ NotFoundPage \in 1..MaxFile
    /\ MaxDownloads \in Nat /\ MaxInt \in Nat /\ Asked \subseteq 1..MaxInt
    /\ Days \in Nat \ {0} /\ MaxFailures \in Nat

VARIABLES
    limit, left, granted,   \* the budget of each link (DownloadBudget)
    file,       \* file[t]: FileName of the link
    size,       \* size[f]: bytes of the file on disk, None without one
    day,        \* today, in UTC
    traffic,    \* traffic[d]: total_bytes of the rows of day d
    dailyLimit, \* s.dailyLimit
    pc,         \* pc[r]: the last thing the request has done
    tok,        \* tok[r]: its token
    bytes,      \* bytes[r]: fileSize, and later tw.written
    wanted,     \* wanted[r]: file and downloads of the link it asks for, and
                \* whether they fitted the day when checked (history)
    served,     \* served[t]: answers sent for the link (history)
    failures,   \* checks passed because the read failed (history)
    highest     \* the highest daily limit that was in force (history)

(* Most bytes one answer has. *)
MaxAnswer == MaxFile + Framing

(* The values of dailyLimit. *)
DailyLimits == Limits \cup {CfgDailyLimit}

(* The limits are far from the largest integer: validateConfigs allows a   *)
(* terabyte, two gigabytes and a hundred downloads.                        *)
ASSUME RoomToCount ==
    \A n \in DailyLimits :
        n + MaxAnswer * (Cardinality(Request) + MaxFailures + 1) + MaxFile * MaxDownloads <= MaxInt

budget == <<limit, left, granted>>
disk   == <<file, size>>
rules  == <<dailyLimit, highest>>
call   == <<pc, tok, bytes, wanted>>
vars   == <<budget, disk, day, traffic, rules, call, served, failures>>

Budget == INSTANCE DownloadBudget

(* A wish for a link. *)
Wish == File \X Asked \X BOOLEAN

Stage == {"idle", "generating", "validated", "located", "measured", "cleared",
          "paid", "sent"}

(* Types: a link that allows downloads names a file, and a request past    *)
(* Validate works on such a link.                                          *)
TypeOK ==
    /\ limit \in [Token -> Nat] /\ left \in [Token -> Nat]
    /\ granted \in [Token -> Nat] /\ served \in [Token -> Nat]
    /\ file \in [Token -> File \cup {None}]
    /\ size \in [File -> 0..MaxFile \cup {None}]
    /\ day \in 1..Days
    /\ traffic \in [1..Days -> Nat]
    /\ dailyLimit \in DailyLimits /\ highest \in DailyLimits
    /\ dailyLimit <= highest /\ CfgDailyLimit <= highest
    /\ pc \in [Request -> Stage]
    /\ tok \in [Request -> Token \cup {None}]
    /\ bytes \in [Request -> 0..MaxAnswer]
    /\ wanted \in [Request -> Wish \cup {None}]
    /\ failures \in 0..MaxFailures
    /\ \A t \in Token : left[t] > 0 => file[t] \in File
    /\ \A r \in Request :
          /\ pc[r] \in Stage \ {"idle", "generating"} =>
                tok[r] \in Token /\ file[tok[r]] \in File
          /\ pc[r] = "generating" => wanted[r] # None

(* The server starts on a day that may already have traffic, of links that *)
(* are gone.                                                               *)
Init ==
    /\ Budget!Init
    /\ file = [t \in Token |-> None]
    /\ size \in [File -> 0..MaxFile \cup {None}]
    /\ day = 1
    /\ \E n \in 0..CfgDailyLimit : traffic = [d \in 1..Days |-> IF d = 1 THEN n ELSE 0]
    /\ dailyLimit = CfgDailyLimit /\ highest = CfgDailyLimit
    /\ pc = [r \in Request |-> "idle"]
    /\ tok = [r \in Request |-> None]
    /\ bytes = [r \in Request |-> 0]
    /\ wanted = [r \in Request |-> None]
    /\ served = [t \in Token |-> 0]
    /\ failures = 0

-----------------------------------------------------------------------------
(* Traffic.                                                                *)

(* GetTodayTotal: the rows whose date is today's. *)
MutantTodayTotal == IF day = 1 THEN 0 ELSE traffic[day - 1]

TodayTotal == traffic[day]

(* int64 arithmetic wraps around. *)
Wrapped(n) == ((n + MaxInt + 1) % (2 * (MaxInt + 1))) - (MaxInt + 1)

WithinLimit(additional) == Wrapped(TodayTotal + additional) <= dailyLimit

(* CheckLimit answers TRUE, also when the read fails. *)
CheckLimit(additional) ==
    \/ WithinLimit(additional) /\ UNCHANGED failures
    \/ failures < MaxFailures /\ failures' = failures + 1

-----------------------------------------------------------------------------
(* Steps of a request.                                                     *)

(* The request goes on to stage s; it is answered. *)
Goto(r, s) == pc' = [pc EXCEPT ![r] = s]

Answer(r) ==
    /\ Goto(r, "idle")
    /\ tok' = [tok EXCEPT ![r] = None]
    /\ bytes' = [bytes EXCEPT ![r] = 0]
    /\ wanted' = [wanted EXCEPT ![r] = None]

(* Division in Go truncates. *)
Quotient(a, b) == IF a < 0 THEN -((-a) \div b) ELSE a \div b

(* What n downloads of s bytes come to; an overflow counts as the largest  *)
(* integer.                                                                *)
Estimated(s, n) == IF Quotient(Wrapped(s * n), n) # s THEN MaxInt ELSE Wrapped(s * n)

(* n downloads of file f, all together, still fit the day. *)
FitsDay(f, n) == TodayTotal + size[f] * n <= dailyLimit

(* GenerateSignedLink up to the traffic check, which only API keys undergo *)
(* and only when the size can be read.  The request remembers whether the  *)
(* check, if there was one and its read did not fail, was right.           *)
GenerateCheck(r, f, n, byKey) ==
    /\ pc[r] = "idle"
    /\ IF byKey /\ size[f] # None THEN CheckLimit(Estimated(size[f], n)) ELSE UNCHANGED failures
    /\ Goto(r, "generating")
    /\ LET checked == byKey /\ size[f] # None /\ failures' = failures
       IN  wanted' = [wanted EXCEPT ![r] = <<f, n, checked => FitsDay(f, n)>>]
    /\ UNCHANGED <<budget, disk, day, traffic, rules, tok, bytes, served>>

MutantGenerateIssue(r, t) ==
    /\ pc[r] = "generating"
    /\ LET f == wanted[r][1]
           n == wanted[r][2]
       IN  /\ size[f] # None
           /\ Budget!Issue(t, n)
           /\ file' = [file EXCEPT ![t] = f]
    /\ Answer(r)
    /\ UNCHANGED <<size, day, traffic, rules, served, failures>>

(* FileExists, and Generate issues the link if no more downloads than      *)
(* allowed are asked for.                                                  *)
GenerateIssue(r, t) ==
    /\ pc[r] = "generating"
    /\ LET f == wanted[r][1]
           n == wanted[r][2]
       IN  /\ size[f] # None /\ n <= MaxDownloads
           /\ Budget!Issue(t, n)
           /\ file' = [file EXCEPT ![t] = f]
    /\ Answer(r)
    /\ UNCHANGED <<size, day, traffic, rules, served, failures>>

(* Validate finds the link good. *)
Validate(r, t) ==
    /\ pc[r] = "idle"
    /\ left[t] > 0
    /\ Goto(r, "validated")
    /\ tok' = [tok EXCEPT ![r] = t]
    /\ UNCHANGED <<budget, disk, day, traffic, rules, bytes, wanted, served, failures>>

(* GetFilePath finds the file. *)
Locate(r) ==
    /\ pc[r] = "validated"
    /\ size[file[tok[r]]] # None
    /\ Goto(r, "located")
    /\ UNCHANGED <<budget, disk, day, traffic, rules, tok, bytes, wanted, served, failures>>

(* GetFileSize looks again; its error is ignored and leaves 0. *)
Measure(r) ==
    /\ pc[r] = "located"
    /\ LET s == size[file[tok[r]]]
       IN  bytes' = [bytes EXCEPT ![r] = IF s = None THEN 0 ELSE s]
    /\ Goto(r, "measured")
    /\ UNCHANGED <<budget, disk, day, traffic, rules, tok, wanted, served, failures>>

(* CheckLimit lets the download through. *)
Clear(r) ==
    /\ pc[r] = "measured"
    /\ CheckLimit(bytes[r])
    /\ Goto(r, "cleared")
    /\ UNCHANGED <<budget, disk, day, traffic, rules, tok, bytes, wanted, served>>

MutantConsume(r) ==
    /\ pc[r] = "cleared"
    /\ granted' = [granted EXCEPT ![tok[r]] = @ + 1]
    /\ left' = [left EXCEPT ![tok[r]] = @ - 1]
    /\ Goto(r, "paid")
    /\ UNCHANGED <<limit, disk, day, traffic, rules, tok, bytes, wanted, served, failures>>

(* ValidateAndConsume decides anew whether a download is left. *)
Consume(r) ==
    /\ pc[r] = "cleared"
    /\ Budget!Grant(tok[r])
    /\ Goto(r, "paid")
    /\ UNCHANGED <<disk, day, traffic, rules, tok, bytes, wanted, served, failures>>

(* A request is refused, and pays nothing: too many downloads asked for    *)
(* (400), a link that is over or a failing statement (401), no file (404), *)
(* the traffic limit (429).                                                *)
Refuse(r) ==
    /\ \/ pc[r] = "generating"
       \/ pc[r] = "validated" /\ size[file[tok[r]]] = None
       \/ pc[r] = "measured" /\ ~WithinLimit(bytes[r])
       \/ pc[r] = "cleared"
    /\ Answer(r)
    /\ UNCHANGED <<budget, disk, day, traffic, rules, served, failures>>

(* c.File opens the path now: the client takes some of the bytes the file  *)
(* has at this instant, perhaps in several ranges, or the page for a       *)
(* missing file.                                                           *)
Send(r) ==
    /\ pc[r] = "paid"
    /\ LET s == size[file[tok[r]]]
       IN  \E n \in IF s = None THEN {NotFoundPage} ELSE 0..(s + Framing) :
              bytes' = [bytes EXCEPT ![r] = n]
    /\ Goto(r, "sent")
    /\ served' = [served EXCEPT ![tok[r]] = @ + 1]
    /\ UNCHANGED <<budget, disk, day, traffic, rules, tok, wanted, failures>>

(* Record adds what was written to the row of the day it is by now; a      *)
(* failure is only logged.                                                 *)
Record(r) ==
    /\ pc[r] = "sent"
    /\ traffic' \in {traffic, [traffic EXCEPT ![day] = @ + bytes[r]]}
    /\ Answer(r)
    /\ UNCHANGED <<budget, disk, day, rules, served, failures>>

-----------------------------------------------------------------------------
(* What happens around the requests.                                       *)

(* A link expires, is cleaned up, or loses a download in a restart. *)
LoseDownloads ==
    /\ \E t \in Token, n \in 0..MaxDownloads :
          left' = [left EXCEPT ![t] = n] /\ n < left[t]
    /\ UNCHANGED <<limit, granted, disk, day, traffic, rules, call, served, failures>>

(* A file is deleted, uploaded, or is being written. *)
ChangeFile(f) ==
    /\ \E s \in 0..MaxFile \cup {None} : size' = [size EXCEPT ![f] = s]
    /\ UNCHANGED <<budget, file, day, traffic, rules, call, served, failures>>

SetDailyLimit(n) ==
    /\ dailyLimit' = n
    /\ highest' = IF n > highest THEN n ELSE highest
    /\ UNCHANGED <<budget, disk, day, traffic, call, served, failures>>

(* The server goes down and comes up again with the configured limit. *)
Restart ==
    /\ pc' = [r \in Request |-> "idle"]
    /\ tok' = [r \in Request |-> None]
    /\ bytes' = [r \in Request |-> 0]
    /\ wanted' = [r \in Request |-> None]
    /\ dailyLimit' = CfgDailyLimit
    /\ UNCHANGED <<budget, disk, day, traffic, highest, served, failures>>

Midnight ==
    /\ day < Days
    /\ day' = day + 1
    /\ UNCHANGED <<budget, disk, traffic, rules, call, served, failures>>

-----------------------------------------------------------------------------

Next ==
    \/ \E r \in Request :
          \/ \E f \in File, n \in Asked, byKey \in BOOLEAN :
                GenerateCheck(r, f, n, byKey)
          \/ \E t \in Token : GenerateIssue(r, t) \/ Validate(r, t)
          \/ Locate(r) \/ Measure(r) \/ Clear(r) \/ Consume(r) \/ Refuse(r)
          \/ Send(r) \/ Record(r)
    \/ LoseDownloads
    \/ \E f \in File : ChangeFile(f)
    \/ \E n \in Limits : SetDailyLimit(n)
    \/ Restart
    \/ Midnight

Spec == Init /\ [][Next]_vars

-----------------------------------------------------------------------------
(* Properties.                                                             *)

(* Past CheckLimit and not recorded yet. *)
InFlight == {r \in Request : pc[r] \in {"cleared", "paid", "sent"}}

(* The day's traffic exceeds the daily limit by no more than the requests  *)
(* that are in flight at once, and those a failing read let through, can   *)
(* send: whatever the order of checks, records, midnights and restarts.    *)
TrafficBounded ==
    \A d \in 1..Days :
        traffic[d] <= highest + MaxAnswer * (Cardinality(Request) + failures)

(* No link is served more often than it was issued for, although its       *)
(* Validate, its payment and its answer are separate steps of many         *)
(* requests.                                                               *)
ServedWithinLimit == \A t \in Token : served[t] <= limit[t]

(* No key gets a link whose downloads, all together, did not fit the day   *)
(* at the instant of the check, whatever overflows on the way: in size     *)
(* times count, which the handler looks for, in the sum with the day's     *)
(* traffic, which CheckLimit does not look for, and in the bound of        *)
(* Generate, two steps later.  It speaks of the requests whose file could  *)
(* be measured and whose reading of the traffic did not fail.              *)
LinkFitsDay ==
    [][\A r \in Request, t \in Token : GenerateIssue(r, t) => wanted[r][3]]_vars

(* "No overflow of size times count gets past the traffic check"           *)
(* (file_handler.go:146): a request that is past it fitted the day.  It is *)
(* violated: the MaxInt64 that stands for an overflow, plus the day's      *)
(* traffic, wraps around in CheckLimit and is below every limit.           *)
OverflowRefused == \A r \in Request : pc[r] = "generating" => wanted[r][3]

=============================================================================
