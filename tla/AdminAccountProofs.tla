------------------------ MODULE AdminAccountProofs ------------------------
(***************************************************************************)
(* What holds of AdminAccount for every number of requests, captchas,      *)
(* secrets and passwords, and for every lifetime of the tokens.            *)
(*                                                                         *)
(* SessionsEarned rests on what a request has shown at each stage of its   *)
(* way: the copy of the account a login goes by says "no second factor"    *)
(* only when the second factor was off at some instant of the login.       *)
(***************************************************************************)
EXTENDS AdminAccount, TLAPS

(* What the stages of a login and of a second factor stand for. *)
ShownByStage ==
    /\ \A t \in tokens : t.earned
    /\ \A r \in Request :
          /\ pc[r] \in {"signing", "code", "verified"} => shown[r]
          /\ pc[r] = "signing" /\ ~asked[r] => ~steady[r]
          /\ pc[r] \in Managing => carried[r].type = "admin" /\ carried[r].earned

(* A captcha the store still holds, and one never drawn, has let none on.  *)
Unspent ==
    \A c \in Captcha :
       /\ passes[c] <= 1
       /\ c \in captchas \/ c \notin drawn => passes[c] = 0

Inv == TypeOK /\ ShownByStage /\ Unspent

-----------------------------------------------------------------------------

LEMMA InitHolds == Init => Inv
BY Assumptions
DEF Init, Inv, TypeOK, ShownByStage, Unspent, InitDefaults, Account, Stage, Managing, SecondFactor

(* An answer forgets what the request remembered, and no other request's.  *)
LEMMA AnswerType ==
    ASSUME TypeOK, NEW r \in Request, Answer(r)
    PROVE  /\ pc' \in [Request -> Stage] /\ asked' \in [Request -> BOOLEAN]
           /\ carried' \in [Request -> Token \cup {None}]
           /\ steady' \in [Request -> BOOLEAN] /\ shown' \in [Request -> BOOLEAN]
           /\ pc'[r] = "idle" /\ ~steady'[r]
           /\ \A q \in Request : q # r =>
                 /\ pc'[q] = pc[q] /\ asked'[q] = asked[q] /\ carried'[q] = carried[q]
                 /\ steady'[q] = steady[q] /\ shown'[q] = shown[q]
BY Assumptions DEF TypeOK, Answer, Goto, Stage

(* The answer with a token, and the token it adds. *)
LEMMA AnswerTokenStep ==
    ASSUME Inv, NEW r \in Request, NEW type \in {"admin", "2fa-challenge"},
           NEW life \in Nat, NEW earned \in BOOLEAN, earned = TRUE,
           AnswerToken(r, type, life, earned)
    PROVE  Inv'
<1> DEFINE new == [type |-> type, exp |-> now + life, earned |-> earned]
<1>1. new \in Token /\ new.earned
  BY DEF Inv, TypeOK, Token
<1>2. tokens' = tokens \cup {new} /\ Answer(r)
      /\ UNCHANGED <<account, captchas, drawn, passes, now>>
  BY DEF AnswerToken
<1> HIDE DEF new
<1>3. TypeOK'
  BY <1>1, <1>2, AnswerType DEF Inv, TypeOK, SecondFactor, Stage, Managing
<1>4. ShownByStage'
  <2>1. \A t \in tokens' : t.earned
    BY <1>1, <1>2 DEF Inv, ShownByStage
  <2>2. TypeOK /\ ShownByStage
    BY DEF Inv
  <2> QED
    BY <1>2, <2>1, <2>2, AnswerType DEF ShownByStage, Managing
<1>5. Unspent'
  BY <1>2 DEF Inv, Unspent
<1> QED
  BY <1>3, <1>4, <1>5 DEF Inv

(* Any other answer, which may come with a change of the account. *)
LEMMA AnswerStep ==
    ASSUME Inv, NEW r \in Request, Answer(r),
           account' \in Account \cup {None}, SecondFactor => SecondFactor',
           UNCHANGED <<captchas, drawn, passes, tokens, now>>
    PROVE  Inv'
<1>1. TypeOK'
  BY AnswerType DEF Inv, TypeOK, Managing
<1>2. ShownByStage'
  <2>1. TypeOK /\ ShownByStage
    BY DEF Inv
  <2> QED
    BY <2>1, AnswerType DEF ShownByStage, Managing
<1>3. Unspent'
  BY DEF Inv, Unspent
<1> QED
  BY <1>1, <1>2, <1>3 DEF Inv

LEMMA InvStep == Inv /\ [Next]_vars => Inv'
<1> SUFFICES ASSUME Inv, [Next]_vars PROVE Inv'
  OBVIOUS
<1> USE Assumptions
<1> USE DEF Inv, request, Goto
<1>1. ASSUME NEW c \in Captcha,
             GetCaptcha(c) \/ DropCaptcha(c) \/ LoginBeginWrong(c)
      PROVE  Inv'
  BY <1>1 DEF GetCaptcha, DropCaptcha, LoginBeginWrong, Spent, TypeOK, SecondFactor,
              ShownByStage, Unspent
<1>2. ASSUME NEW r \in Request, NEW c \in Captcha, LoginBegin(r, c)
      PROVE  Inv'
  <2>1. TypeOK'
    BY <1>2 DEF LoginBegin, Spent, TypeOK, SecondFactor, Stage, Managing
  <2>2. ShownByStage'
    BY <1>2 DEF LoginBegin, TypeOK, ShownByStage, Managing
  <2>3. Unspent'
    BY <1>2 DEF LoginBegin, Spent, TypeOK, Unspent
  <2> QED
    BY <2>1, <2>2, <2>3
<1>3. ASSUME NEW r \in Request, NEW p \in Password, Authenticate(r, p)
      PROVE  Inv'
  <2>1. TypeOK'
    BY <1>3 DEF Authenticate, TypeOK, SecondFactor, Stage, Managing
  <2>2. ShownByStage'
    BY <1>3 DEF Authenticate, TypeOK, SecondFactor, ShownByStage, Managing
  <2>3. Unspent'
    BY <1>3 DEF Authenticate, Unspent
  <2> QED
    BY <2>1, <2>2, <2>3
<1>4. ASSUME NEW r \in Request, GenerateJWT(r)
      PROVE  Inv'
  <2>1. shown[r] /\ ~steady[r]
    BY <1>4 DEF GenerateJWT, ShownByStage
  <2>2. (shown[r] /\ ~steady[r]) = TRUE
    BY <2>1
  <2>3. AnswerToken(r, "admin", SessionLife, shown[r] /\ ~steady[r])
    BY <1>4 DEF GenerateJWT
  <2> QED
    BY <2>2, <2>3, AnswerTokenStep
<1>5. ASSUME NEW r \in Request, GenerateChallengeToken(r)
      PROVE  Inv'
  <2>1. shown[r] \in BOOLEAN /\ shown[r] = TRUE
    BY <1>5 DEF GenerateChallengeToken, ShownByStage, TypeOK
  <2>2. AnswerToken(r, "2fa-challenge", ChallengeLife, shown[r])
    BY <1>5 DEF GenerateChallengeToken
  <2> QED
    BY <2>1, <2>2, AnswerTokenStep
<1>6. ASSUME NEW r \in Request, NEW t \in tokens, ValidateChallengeToken(r, t)
      PROVE  Inv'
  <2>1. t.earned = TRUE
    BY DEF ShownByStage, TypeOK, Token
  <2>2. TypeOK'
    BY <1>6, <2>1 DEF ValidateChallengeToken, TypeOK, SecondFactor, Stage, Managing
  <2>3. ShownByStage'
    BY <1>6, <2>1 DEF ValidateChallengeToken, TypeOK, ShownByStage, Managing
  <2>4. Unspent'
    BY <1>6 DEF ValidateChallengeToken, Unspent
  <2> QED
    BY <2>2, <2>3, <2>4
<1>7. ASSUME NEW r \in Request, NEW s \in Secret, ValidateTOTP(r, s)
      PROVE  Inv'
  <2>1. shown[r] = TRUE
    BY <1>7 DEF ValidateTOTP, ShownByStage, TypeOK
  <2>2. TypeOK'
    BY <1>7 DEF ValidateTOTP, TypeOK, SecondFactor, Stage, Managing
  <2>3. ShownByStage'
    BY <1>7, <2>1 DEF ValidateTOTP, TypeOK, ShownByStage, Managing
  <2>4. Unspent'
    BY <1>7 DEF ValidateTOTP, Unspent
  <2> QED
    BY <2>2, <2>3, <2>4
<1>8. ASSUME NEW r \in Request, GenerateJWT2FA(r)
      PROVE  Inv'
  <2>1. shown[r] \in BOOLEAN /\ shown[r] = TRUE
    BY <1>8 DEF GenerateJWT2FA, ShownByStage, TypeOK
  <2>2. AnswerToken(r, "admin", SessionLife, shown[r])
    BY <1>8 DEF GenerateJWT2FA
  <2> QED
    BY <2>1, <2>2, AnswerTokenStep
<1>9. ASSUME NEW r \in Request, NEW t \in tokens, JWTAuth(r, t)
      PROVE  Inv'
  <2>1. t \in Token /\ t.type = "admin" /\ t.earned
    BY <1>9 DEF JWTAuth, Accepts, ShownByStage, TypeOK
  <2>2. TypeOK'
    BY <1>9, <2>1 DEF JWTAuth, TypeOK, SecondFactor, Stage, Managing
  <2>3. ShownByStage'
    BY <1>9, <2>1 DEF JWTAuth, TypeOK, ShownByStage, Managing
  <2>4. Unspent'
    BY <1>9 DEF JWTAuth, Unspent
  <2> QED
    BY <2>2, <2>3, <2>4
<1>10. ASSUME NEW r \in Request, NEW s \in Secret, EnableTOTP(r, s)
      PROVE  Inv'
  <2>1. account' \in Account \cup {None} /\ (SecondFactor => SecondFactor')
    BY <1>10 DEF EnableTOTP, TypeOK, Account, SecondFactor
  <2> QED
    BY <1>10, <2>1, AnswerStep DEF EnableTOTP
<1>11. ASSUME NEW r \in Request, NEW p \in Password, NEW stage \in Stage,
              CheckPassword(r, p, stage)
      PROVE  Inv'
  <2>1. TypeOK'
    BY <1>11 DEF CheckPassword, TypeOK, SecondFactor, Stage, Managing
  <2>2. ShownByStage'
    BY <1>11 DEF CheckPassword, TypeOK, ShownByStage, Managing
  <2>3. Unspent'
    BY <1>11 DEF CheckPassword, Unspent
  <2> QED
    BY <2>1, <2>2, <2>3
<1>12. ASSUME NEW r \in Request, DisableTOTP(r)
      PROVE  Inv'
  <2>1. account' \in Account \cup {None}
    BY <1>12 DEF DisableTOTP, TypeOK, Account
  <2>2. TypeOK'
    BY <1>12, <2>1 DEF DisableTOTP, TypeOK, Stage, Managing
  <2>3. ShownByStage'
    BY <1>12 DEF DisableTOTP, TypeOK, ShownByStage, Managing
  <2>4. Unspent'
    BY <1>12 DEF DisableTOTP, Unspent
  <2> QED
    BY <2>2, <2>3, <2>4
<1>13. ASSUME NEW r \in Request, NEW p \in Password, UpdatePassword(r, p)
      PROVE  Inv'
  <2>1. account' \in Account \cup {None} /\ (SecondFactor => SecondFactor')
    BY <1>13 DEF UpdatePassword, TypeOK, Account, SecondFactor
  <2> QED
    BY <1>13, <2>1, AnswerStep DEF UpdatePassword
<1>14. ASSUME NEW r \in Request, Refuse(r)
      PROVE  Inv'
  <2>1. account' \in Account \cup {None} /\ (SecondFactor => SecondFactor')
    BY <1>14 DEF Refuse, TypeOK, SecondFactor
  <2> QED
    BY <1>14, <2>1, AnswerStep DEF Refuse
<1>15. CASE Tick
  BY <1>15 DEF Tick, TypeOK, SecondFactor, ShownByStage, Unspent
<1>16. CASE Restart
  <2>1. account' \in Account \cup {None}
    BY <1>16 DEF Restart, InitDefaults, TypeOK, Account
  <2>2. TypeOK'
    BY <1>16, <2>1 DEF Restart, TypeOK, Stage, Managing
  <2>3. ShownByStage' /\ Unspent'
    BY <1>16 DEF Restart, TypeOK, ShownByStage, Managing, Unspent
  <2> QED
    BY <2>2, <2>3
<1>17. CASE UNCHANGED vars
  BY <1>17 DEF vars, TypeOK, SecondFactor, ShownByStage, Unspent
<1> QED
  BY <1>1, <1>2, <1>3, <1>4, <1>5, <1>6, <1>7, <1>8, <1>9, <1>10, <1>11, <1>12,
     <1>13, <1>14, <1>15, <1>16, <1>17 DEF Next

LEMMA InvHolds == Spec => []Inv
BY InitHolds, InvStep, PTL DEF Spec

-----------------------------------------------------------------------------

(* Every state has the types of TypeOK; a managing request carries a       *)
(* token, and a login whose second factor has been on throughout meets an  *)
(* account that has one.                                                   *)
THEOREM TypeCorrect == Spec => []TypeOK
BY InvHolds, PTL DEF Inv

(* A captcha lets one login on at most: CaptchaService.Validate.           *)
THEOREM CaptchaCorrect == Spec => []CaptchaSpentOnce
<1>1. Inv => CaptchaSpentOnce
  BY DEF Inv, Unspent, CaptchaSpentOnce
<1> QED
  BY InvHolds, <1>1, PTL

(* Every session rests on the password and, unless it was off at some      *)
(* instant of the login, on the second factor: Login and Verify2FA.        *)
THEOREM SessionsCorrect == Spec => []SessionsEarned
<1>1. Inv => SessionsEarned
  BY DEF Inv, ShownByStage, SessionsEarned
<1> QED
  BY InvHolds, <1>1, PTL

(* No start takes an administrator's password or second factor back.       *)
THEOREM AccountCorrect == Spec => AccountChangesManaged
<1>1. TypeOK /\ [Next]_vars =>
         (account # None /\ account' # account =>
             \E r \in Request : pc[r] \in Managing /\ pc'[r] = "idle")
  <2> SUFFICES ASSUME TypeOK, [Next]_vars, account # None, account' # account
               PROVE  \E r \in Request : pc[r] \in Managing /\ pc'[r] = "idle"
    OBVIOUS
  <2>1. ASSUME NEW r \in Request, NEW s \in Secret, EnableTOTP(r, s)
        PROVE  pc[r] \in Managing /\ pc'[r] = "idle"
    BY <2>1 DEF EnableTOTP, Answer, Goto, TypeOK, Managing
  <2>2. ASSUME NEW r \in Request, DisableTOTP(r)
        PROVE  pc[r] \in Managing /\ pc'[r] = "idle"
    BY <2>2 DEF DisableTOTP, Goto, TypeOK, Managing
  <2>3. ASSUME NEW r \in Request, NEW p \in Password, UpdatePassword(r, p)
        PROVE  pc[r] \in Managing /\ pc'[r] = "idle"
    BY <2>3 DEF UpdatePassword, Answer, Goto, TypeOK, Managing
  <2>4. \/ \E r \in Request :
              \/ \E s \in Secret : EnableTOTP(r, s)
              \/ DisableTOTP(r)
              \/ \E p \in Password : UpdatePassword(r, p)
        \/ UNCHANGED account
    BY DEF Next, vars, GetCaptcha, DropCaptcha, LoginBeginWrong, LoginBegin, Authenticate,
           CheckPassword, ValidateTOTP, ValidateChallengeToken, JWTAuth, GenerateJWT,
           GenerateChallengeToken, GenerateJWT2FA, AnswerToken, Refuse, Tick, Restart,
           InitDefaults
  <2> QED
    BY <2>1, <2>2, <2>3, <2>4
<1> QED
  BY TypeCorrect, <1>1, PTL DEF Spec, AccountChangesManaged
=============================================================================
