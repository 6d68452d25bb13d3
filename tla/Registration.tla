----------------------------- MODULE Registration -----------------------------
(***************************************************************************)
(* Register, VerifyEmail and ResendVerification of user_service.go, for    *)
(* one e-mail address and several requests at once.                        *)
(*                                                                         *)
(* A verification code is kept twice, in the users row and in Redis, and   *)
(* mailed; each of these writes is a call of its own, and most failures    *)
(* are only logged.  Codes are numbered in the order they are generated.   *)
(***************************************************************************)
EXTENDS Naturals, FiniteSets

CONSTANTS
    Callers,   \* requests that may be under way at once
    MaxCodes,  \* bound on codes generated
    MaxLapses  \* bound on failed calls and requests that are cut short

ASSUME RegistrationAssumption == MaxCodes \in Nat /\ MaxLapses \in Nat

VARIABLES
    account,  \* users: "none", "open" (not verified) or "verified"
    inRow,    \* users.verification_code, 0 for none
    inRedis,  \* email_verification, 0 for none
    limited,  \* verification_rate_limit exists
    codes,    \* number of codes generated
    late,     \* codes up to this one have passed their expiry
    call,     \* what a request does, where it is, its code, the row's code it has read
    arrived,  \* history: codes whose mail was handed to the notification service
    tangled,  \* history: two requests that set a code have been under way at once
    lapses    \* history: failed calls and requests cut short

stores == <<inRow, inRedis>>
clocks == <<limited, late>>
regVars == <<account, stores, clocks, codes, call, arrived, tangled, lapses>>

Quiet == [op |-> "none", pc |-> "idle", code |-> 0, row |-> 0]

RegInit ==
    /\ account = "none" /\ inRow = 0 /\ inRedis = 0 /\ limited = FALSE
    /\ codes = 0 /\ late = 0 /\ arrived = {} /\ tangled = FALSE /\ lapses = 0
    /\ call = [c \in Callers |-> Quiet]

Works == UNCHANGED lapses
Lapse == lapses < MaxLapses /\ lapses' = lapses + 1

In(c, phase) == call[c].pc = phase
For(c, what) == call[c].op = what
Proceed(c, phase) == call' = [call EXCEPT ![c].pc = phase]
Leave(c) == call' = [call EXCEPT ![c] = Quiet]
Enter(c, what, phase, code) ==
    /\ In(c, "idle")
    /\ call' = [call EXCEPT ![c] = [op |-> what, pc |-> phase, code |-> code,
                                    row |-> IF what = "verify" THEN inRow ELSE 0]]
AllQuiet == \A c \in Callers : In(c, "idle")

-----------------------------------------------------------------------------
(* Register up to ExistsByEmail.  The address is compared as it was typed, *)
(* and stored in lower case: an account is only seen by one in lower case. *)
Register(c, lower) ==
    /\ ~ (account # "none" /\ lower)
    /\ Enter(c, "register", "create", 0)
    /\ UNCHANGED <<account, stores, clocks, codes, arrived, tangled, lapses>>

(* A code is generated for the request, which goes on to store it.         *)
Generate(c) ==
    /\ codes < MaxCodes
    /\ codes' = codes + 1
    /\ call' = [call EXCEPT ![c].pc = "set_code", ![c].code = codes']
    /\ tangled' = (tangled \/ \E d \in Callers \ {c} : call[d].code # 0 /\ ~ For(d, "verify"))

(* userRepo.Create; the constraint on the address refuses a second row.    *)
CreateAccount(c) ==
    /\ In(c, "create")
    /\ \/ account = "none" /\ Works /\ account' = "open" /\ Generate(c)
       \/ account # "none" /\ Works /\ Leave(c) /\ UNCHANGED <<account, codes, tangled>>
       \/ Lapse /\ Leave(c) /\ UNCHANGED <<account, codes, tangled>>
    /\ UNCHANGED <<stores, clocks, arrived>>

(* ResendVerification reads the row ...                                    *)
ResendVerification(c) ==
    /\ account = "open"
    /\ Enter(c, "resend", "check_limit", 0)
    /\ UNCHANGED <<account, stores, clocks, codes, arrived, tangled, lapses>>

(* ... and looks for the limit: it goes on when Redis does not answer.     *)
CheckLimit(c) ==
    /\ In(c, "check_limit")
    /\ \/ ~ limited /\ Works /\ Generate(c)
       \/ limited /\ Works /\ Leave(c) /\ UNCHANGED <<codes, tangled>>
       \/ Lapse /\ Generate(c)
    /\ UNCHANGED <<account, stores, clocks, arrived>>

(* SetVerificationCode: a failure ends a resend, and not a registration.   *)
SetCode(c) ==
    /\ In(c, "set_code")
    /\ \/ Works /\ inRow' = call[c].code /\ Proceed(c, "store")
       \/ Lapse /\ UNCHANGED inRow /\ IF For(c, "resend") THEN Leave(c) ELSE Proceed(c, "store")
    /\ UNCHANGED <<account, inRedis, clocks, codes, arrived, tangled>>

StoreCode(c) ==
    /\ In(c, "store")
    /\ \/ Works /\ inRedis' = call[c].code
       \/ Lapse /\ UNCHANGED inRedis
    /\ Proceed(c, IF For(c, "resend") THEN "limit" ELSE "mail")
    /\ UNCHANGED <<account, inRow, clocks, codes, arrived, tangled>>

SetLimit(c) ==
    /\ In(c, "limit")
    /\ \/ Works /\ limited' = TRUE
       \/ Lapse /\ UNCHANGED limited
    /\ Proceed(c, "mail")
    /\ UNCHANGED <<account, stores, late, codes, arrived, tangled>>

(* SendVerificationEmail; its failure is only logged.                      *)
Mail(c) ==
    /\ In(c, "mail")
    /\ \/ Works /\ arrived' = arrived \cup {call[c].code}
       \/ Lapse /\ UNCHANGED arrived
    /\ Leave(c)
    /\ UNCHANGED <<account, stores, clocks, codes, tangled>>

-----------------------------------------------------------------------------
(* VerifyEmail reads the row of an account not yet verified ...            *)
VerifyEmail(c, given) ==
    /\ account = "open"
    /\ Enter(c, "verify", "compare", given)
    /\ UNCHANGED <<account, stores, clocks, codes, arrived, tangled, lapses>>

(* Mutant: what Redis has is the answer.                                   *)
RedisDecides(given, stored, row) ==
    IF stored # 0 THEN stored = given ELSE row = given /\ given > late

(* ... and compares with the code in Redis, or else with the row's.        *)
Accepts(given, stored, row) == stored = given \/ (row = given /\ given > late)

Compare(c) ==
    /\ In(c, "compare")
    /\ \E stored \in {inRedis, 0} :
         /\ IF stored = inRedis THEN Works ELSE Lapse
         /\ IF Accepts(call[c].code, stored, call[c].row) THEN Proceed(c, "mark") ELSE Leave(c)
    /\ UNCHANGED <<account, stores, clocks, codes, arrived, tangled>>

(* userRepo.VerifyEmail, and the code in Redis is deleted.                 *)
MarkVerified(c) ==
    /\ In(c, "mark")
    /\ \/ Works /\ account' = "verified" /\ inRow' = 0 /\ Proceed(c, "forget")
       \/ Lapse /\ Leave(c) /\ UNCHANGED <<account, inRow>>
    /\ UNCHANGED <<inRedis, clocks, codes, arrived, tangled>>

Forget(c) ==
    /\ In(c, "forget")
    /\ \/ Works /\ inRedis' = 0
       \/ Lapse /\ UNCHANGED inRedis
    /\ Leave(c)
    /\ UNCHANGED <<account, inRow, clocks, codes, arrived, tangled>>

Abandon(c) ==
    /\ ~ In(c, "idle")
    /\ Lapse
    /\ Leave(c)
    /\ UNCHANGED <<account, stores, clocks, codes, arrived, tangled>>

(* The minute of the limit is over; a code passes its expiry, and with it, *)
(* a little later, its key in Redis.                                       *)
LimitEnds ==
    /\ limited /\ limited' = FALSE
    /\ UNCHANGED <<account, stores, late, codes, call, arrived, tangled, lapses>>

CodeExpires ==
    /\ late < codes
    /\ late' = late + 1
    /\ UNCHANGED <<account, stores, limited, codes, call, arrived, tangled, lapses>>

KeyExpires ==
    /\ inRedis # 0 /\ inRedis <= late
    /\ inRedis' = 0
    /\ UNCHANGED <<account, inRow, clocks, codes, call, arrived, tangled, lapses>>

RegNext ==
    \/ \E c \in Callers :
         \/ \E lower \in BOOLEAN : Register(c, lower)
         \/ CreateAccount(c) \/ ResendVerification(c) \/ CheckLimit(c) \/ SetCode(c) \/ StoreCode(c)
         \/ SetLimit(c) \/ Mail(c)
         \/ \E given \in 1..codes : VerifyEmail(c, given)
         \/ Compare(c) \/ MarkVerified(c) \/ Forget(c) \/ Abandon(c)
    \/ LimitEnds \/ CodeExpires \/ KeyExpires

RegSpec == RegInit /\ [][RegNext]_regVars

-----------------------------------------------------------------------------
RegTypeOK ==
    /\ account \in {"none", "open", "verified"}
    /\ codes \in 0..MaxCodes /\ late \in 0..codes /\ lapses \in 0..MaxLapses
    /\ inRow \in 0..codes /\ inRedis \in 0..codes /\ arrived \subseteq 1..codes
    /\ limited \in BOOLEAN /\ tangled \in BOOLEAN
    /\ call \in [Callers -> [op : {"none", "register", "resend", "verify"}, code : 0..codes, row : 0..codes,
                             pc : {"idle", "create", "check_limit", "set_code", "store", "limit", "mail",
                                   "compare", "mark", "forget"}]]

(* With no request under way, the latest code works once its mail has      *)
(* arrived: unless two failures took both copies of it, or two requests    *)
(* stored their codes at the same time.  Even these leave one of the codes *)
(* that were mailed working, as long as no call failed.                    *)
Working == {k \in 1..codes : Accepts(k, inRedis, inRow)}
MailedCodeWorks ==
    /\ RegTypeOK
    /\ AllQuiet /\ account = "open" /\ codes \in arrived /\ late < codes =>
         /\ codes \in Working \/ tangled \/ lapses >= 2
         /\ lapses = 0 /\ late = 0 => Working \cap arrived # {}

(* The codes before the latest no longer verify the address: unless a call *)
(* failed or two requests stored their codes at the same time.             *)
OldCodesDie ==
    AllQuiet /\ account = "open" => Working \subseteq {codes} \/ tangled \/ lapses > 0
CodesMatchMail == MailedCodeWorks /\ OldCodesDie
=============================================================================
