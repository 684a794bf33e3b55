--------------------------- MODULE AdminAccount ---------------------------
(***************************************************************************)
(* The administrator's account: the administrator's half of AuthService    *)
(* (internal/service/auth_service.go), its table                           *)
(* (internal/store/admin_store.go), the handlers                           *)
(* (internal/handler/auth_handler.go), the session check                   *)
(* (internal/middleware/jwt_auth.go), the captchas                         *)
(* (internal/service/captcha_service.go) and the signing secret            *)
(* (config/config.go).                                                     *)
(*                                                                         *)
(* A login spends a captcha, reads the account once, and decides by that   *)
(* copy between a session and a challenge, which a second factor turns     *)
(* into a session.  Sessions and challenges are signed tokens that clients *)
(* keep and the server does not.  Every change of the account checks       *)
(* against one read and is written by a later statement.                   *)
(***************************************************************************)
EXTENDS Integers

CONSTANTS
    Request,            \* the request goroutines
    Password, DefaultPassword,
    Secret,             \* the secrets a second factor may have
    Captcha,            \* the captcha ids that are ever drawn
    None,               \* no account; no second factor; no token
    SessionLife, ChallengeLife,     \* the tokens' lifetimes, in ticks
    MaxTime             \* bound of the model: the clock

ASSUME Assumptions ==
    /\ DefaultPassword \in Password
    /\ None \notin Secret
    /\ \A p \in Password, s \in Secret \cup {None} : None # [pass |-> p, totp |-> s]
    /\ SessionLife \in Nat /\ ChallengeLife \in Nat /\ MaxTime \in Nat

VARIABLES
    account,    \* the row: password and second factor, or None
    captchas,   \* the captchas the store holds
    drawn,      \* the captchas ever drawn (history)
    passes,     \* passes[c]: logins c has let on (history)
    tokens,     \* the tokens clients may hold
    pc,         \* pc[r]: where the request is
    asked,      \* asked[r]: the login's copy of the account has a second factor
    carried,    \* carried[r]: the token the request has shown, or None
    steady,     \* steady[r]: the second factor has been on ever since the
                \* request began (history)
    shown,      \* shown[r]: what the request has shown holds (history)
    now

request == <<pc, asked, carried, steady, shown>>
vars    == <<account, captchas, drawn, passes, tokens, request, now>>

Managing == {"admitted", "disabling", "changing"}
Stage    == {"idle", "login", "signing", "code", "verified"} \cup Managing
Account  == [pass : Password, totp : Secret \cup {None}]

(* A token: its type and expiry, and whether it was earned (history): all  *)
(* the factors held for a session, the password for a challenge.           *)
Token == [type : {"admin", "2fa-challenge"}, exp : Nat, earned : BOOLEAN]

SecondFactor == account # None /\ account.totp # None

TypeOK ==
    /\ account \in Account \cup {None}
    /\ captchas \subseteq drawn /\ drawn \subseteq Captcha
    /\ passes \in [Captcha -> Nat]
    /\ tokens \subseteq Token
    /\ pc \in [Request -> Stage]
    /\ asked \in [Request -> BOOLEAN]
    /\ carried \in [Request -> Token \cup {None}]
    /\ steady \in [Request -> BOOLEAN] /\ shown \in [Request -> BOOLEAN]
    /\ now \in Nat
    /\ \A r \in Request :
          /\ steady[r] => SecondFactor
          /\ pc[r] \in Managing => carried[r] \in Token

(* initDefaults: the account is created when there is none; when a         *)
(* statement fails the server goes on without one.                         *)
MutantInitDefaults(a) == {[pass |-> DefaultPassword, totp |-> None], a}
InitDefaults(a) ==
    IF a = None THEN {[pass |-> DefaultPassword, totp |-> None], None} ELSE {a}

Init ==
    /\ account \in InitDefaults(None)
    /\ captchas = {} /\ drawn = {}
    /\ passes = [c \in Captcha |-> 0]
    /\ tokens = {}
    /\ pc = [r \in Request |-> "idle"]
    /\ asked = [r \in Request |-> FALSE]
    /\ carried = [r \in Request |-> None]
    /\ steady = [r \in Request |-> FALSE]
    /\ shown = [r \in Request |-> FALSE]
    /\ now = 0

-----------------------------------------------------------------------------

Goto(r, stage) == pc' = [pc EXCEPT ![r] = stage]

(* The answer; what the request remembered is gone. *)
Answer(r) ==
    /\ Goto(r, "idle")
    /\ asked' = [asked EXCEPT ![r] = FALSE]
    /\ carried' = [carried EXCEPT ![r] = None]
    /\ steady' = [steady EXCEPT ![r] = FALSE]
    /\ shown' = [shown EXCEPT ![r] = FALSE]

(* The answer with a new token in it. *)
AnswerToken(r, type, life, earned) ==
    /\ tokens' = tokens \cup {[type |-> type, exp |-> now + life, earned |-> earned]}
    /\ Answer(r)
    /\ UNCHANGED <<account, captchas, drawn, passes, now>>

(* The request ends where it stands: a wrong password or code, an account  *)
(* that is missing, a statement or signature that fails, and the requests  *)
(* with a session that change nothing here, like Status2FA and Setup2FA.   *)
Refuse(r) ==
    /\ pc[r] # "idle"
    /\ Answer(r)
    /\ UNCHANGED <<account, captchas, drawn, passes, tokens, now>>

-----------------------------------------------------------------------------
(* Captchas.                                                               *)

GetCaptcha(c) ==
    /\ c \notin drawn
    /\ captchas' = captchas \cup {c} /\ drawn' = drawn \cup {c}
    /\ UNCHANGED <<account, passes, tokens, request, now>>

(* The store drops a captcha that is too old, or when it holds too many.   *)
DropCaptcha(c) ==
    /\ c \in captchas
    /\ captchas' = captchas \ {c}
    /\ UNCHANGED <<account, drawn, passes, tokens, request, now>>

(* Verify with clear: whatever the answer, the captcha is spent. *)
MutantSpent(c) == captchas
Spent(c) == captchas \ {c}

-----------------------------------------------------------------------------
(* Login.                                                                  *)

LoginBegin(r, c) ==
    /\ pc[r] = "idle" /\ c \in captchas
    /\ captchas' = Spent(c)
    /\ passes' = [passes EXCEPT ![c] = @ + 1]
    /\ Goto(r, "login")
    /\ steady' = [steady EXCEPT ![r] = SecondFactor]
    /\ UNCHANGED <<account, drawn, tokens, asked, carried, shown, now>>

LoginBeginWrong(c) ==
    /\ c \in captchas
    /\ captchas' = Spent(c)
    /\ UNCHANGED <<account, drawn, passes, tokens, request, now>>

(* Authenticate reads the row; the handler goes by this copy. *)
Authenticate(r, password) ==
    /\ pc[r] = "login"
    /\ account # None /\ account.pass = password
    /\ Goto(r, "signing")
    /\ asked' = [asked EXCEPT ![r] = SecondFactor]
    /\ shown' = [shown EXCEPT ![r] = account.pass = password]
    /\ UNCHANGED <<account, captchas, drawn, passes, tokens, carried, steady, now>>

MutantGenerateJWT(r) ==
    /\ pc[r] = "signing"
    /\ AnswerToken(r, "admin", SessionLife, shown[r] /\ ~steady[r])
GenerateJWT(r) ==
    /\ pc[r] = "signing" /\ ~asked[r]
    /\ AnswerToken(r, "admin", SessionLife, shown[r] /\ ~steady[r])

GenerateChallengeToken(r) ==
    /\ pc[r] = "signing" /\ asked[r]
    /\ AnswerToken(r, "2fa-challenge", ChallengeLife, shown[r])

-----------------------------------------------------------------------------
(* The second factor: Verify2FA.                                           *)

ValidateChallengeToken(r, t) ==
    /\ pc[r] = "idle"
    /\ t \in tokens /\ t.type = "2fa-challenge" /\ now < t.exp
    /\ Goto(r, "code")
    /\ shown' = [shown EXCEPT ![r] = t.earned]
    /\ UNCHANGED <<account, captchas, drawn, passes, tokens, asked, carried, steady, now>>

(* ValidateTOTP reads the row; the code the client sends is one of secret. *)
ValidateTOTP(r, secret) ==
    /\ pc[r] = "code"
    /\ SecondFactor /\ account.totp = secret
    /\ Goto(r, "verified")
    /\ shown' = [shown EXCEPT ![r] = shown[r] /\ account.totp = secret]
    /\ UNCHANGED <<account, captchas, drawn, passes, tokens, asked, carried, steady, now>>

GenerateJWT2FA(r) ==
    /\ pc[r] = "verified"
    /\ AnswerToken(r, "admin", SessionLife, shown[r])

-----------------------------------------------------------------------------
(* Requests with a session.                                                *)

(* ValidateJWT: signature, expiry and type. *)
Accepts(t) == t.type = "admin" /\ now < t.exp

MutantJWTAuth(r, t) ==
    /\ pc[r] = "idle"
    /\ t \in tokens /\ Accepts(t)
    /\ Goto(r, "admitted")
    /\ UNCHANGED <<account, captchas, drawn, passes, tokens, asked, carried, steady, shown, now>>
JWTAuth(r, t) ==
    /\ pc[r] = "idle"
    /\ t \in tokens /\ Accepts(t)
    /\ Goto(r, "admitted")
    /\ carried' = [carried EXCEPT ![r] = t]
    /\ UNCHANGED <<account, captchas, drawn, passes, tokens, asked, steady, shown, now>>

(* The handler's code is one of the secret the client sends along. *)
EnableTOTP(r, secret) ==
    /\ pc[r] = "admitted"
    /\ account' = IF account = None THEN None ELSE [account EXCEPT !.totp = secret]
    /\ Answer(r)
    /\ UNCHANGED <<captchas, drawn, passes, tokens, now>>

(* DisableTOTP and ChangePassword: the password is compared with a copy of *)
(* the row, the statement follows.                                         *)
CheckPassword(r, password, stage) ==
    /\ pc[r] = "admitted" /\ stage \in {"disabling", "changing"}
    /\ account # None /\ account.pass = password
    /\ Goto(r, stage)
    /\ UNCHANGED <<account, captchas, drawn, passes, tokens, asked, carried, steady, shown, now>>

DisableTOTP(r) ==
    /\ pc[r] = "disabling"
    /\ account' = IF account = None THEN None ELSE [account EXCEPT !.totp = None]
    /\ Goto(r, "idle")
    /\ asked' = [asked EXCEPT ![r] = FALSE]
    /\ carried' = [carried EXCEPT ![r] = None]
    /\ steady' = [q \in Request |-> FALSE]
    /\ shown' = [shown EXCEPT ![r] = FALSE]
    /\ UNCHANGED <<captchas, drawn, passes, tokens, now>>

UpdatePassword(r, password) ==
    /\ pc[r] = "changing"
    /\ account' = IF account = None THEN None ELSE [account EXCEPT !.pass = password]
    /\ Answer(r)
    /\ UNCHANGED <<captchas, drawn, passes, tokens, now>>

-----------------------------------------------------------------------------

Tick ==
    /\ now < MaxTime
    /\ now' = now + 1
    /\ UNCHANGED <<account, captchas, drawn, passes, tokens, request>>

(* The end of the process at any instant and the next start.  The secret   *)
(* is read from its file, and written anew, which makes every token        *)
(* invalid, when that fails or finds nothing.                              *)
Restart ==
    /\ account' \in InitDefaults(account)
    /\ captchas' = {}
    /\ tokens' \in {tokens, {}}
    /\ pc' = [r \in Request |-> "idle"]
    /\ asked' = [r \in Request |-> FALSE]
    /\ carried' = [r \in Request |-> None]
    /\ steady' = [r \in Request |-> FALSE]
    /\ shown' = [r \in Request |-> FALSE]
    /\ UNCHANGED <<drawn, passes, now>>

Next ==
    \/ \E c \in Captcha : GetCaptcha(c) \/ DropCaptcha(c) \/ LoginBeginWrong(c)
    \/ \E r \in Request :
          \/ \E c \in Captcha : LoginBegin(r, c)
          \/ \E p \in Password : Authenticate(r, p) \/ UpdatePassword(r, p)
          \/ \E p \in Password, stage \in Stage : CheckPassword(r, p, stage)
          \/ \E s \in Secret : ValidateTOTP(r, s) \/ EnableTOTP(r, s)
          \/ \E t \in tokens : ValidateChallengeToken(r, t) \/ JWTAuth(r, t)
          \/ GenerateJWT(r) \/ GenerateChallengeToken(r) \/ GenerateJWT2FA(r)
          \/ DisableTOTP(r) \/ Refuse(r)
    \/ Tick
    \/ Restart

Spec == Init /\ [][Next]_vars

-----------------------------------------------------------------------------

(* A captcha lets one login on at most, also when several answer it at     *)
(* once or the server is restarted between.  CaptchaService.Validate.      *)
CaptchaSpentOnce == \A c \in Captcha : passes[c] <= 1

(* A session was earned: the password held, and so did the second factor,  *)
(* unless it was off at some instant of the login; and whoever manages the *)
(* account has such a session, never a challenge.  Login decides by a copy *)
(* of the row, and EnableTOTP may come after the copy.                     *)
SessionsEarned ==
    /\ \A t \in tokens : t.type = "admin" => t.earned
    /\ \A r \in Request :
          pc[r] \in Managing => carried[r].type = "admin" /\ carried[r].earned

(* A password or second factor that was set changes only by the statement  *)
(* of a managing request: no start puts the default back.  initDefaults.   *)
AccountChangesManaged ==
    [][account # None /\ account' # account =>
          \E r \in Request : pc[r] \in Managing /\ pc'[r] = "idle"]_vars
=============================================================================
