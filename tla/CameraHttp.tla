----------------------------- MODULE CameraHttp -----------------------------
(* One request of CameraHttpClient and what the camera makes of it.        *)
(*                                                                         *)
(* An exchange is atomic: every retry the client hides (the second send    *)
(* after a connection that closed, the resend with a fresh digest          *)
(* challenge) is inside it.  What the caller sees of the answer is one of  *)
(* the classes that connect_service and security3 tell apart:              *)
(*   ok         status 200 and an acceptable body                          *)
(*   noversion  status 200 without a SYS_VERSION                           *)
(*   transport  an error that _is_transport_miss recognises                *)
(*   policy     an error that _is_default_password_state recognises        *)
(*   rejected   status 200, the body refuses the write                     *)
(*   auth       every other AppError                                       *)
(*   raise      an exception that is not an AppError                       *)
(* The camera is external: its traits (dev) do not change during a call,   *)
(* its state (cam) holds the password and the Security 3.0 account.        *)
EXTENDS Naturals

\* _is_factory_reset_password: the passwords of a camera that was reset.
Factory == {"1234", "admin"}

\* The passwords the program knows by name.
Password == Factory \cup {"123", "!camera1108", "!Camera1108"}

Scheme == {"digest", "basic", "none"}

\* What answers at one (base_url, root_path): nothing, something that is not
\* the camera's API, or the API.
PlaceKind == {"absent", "other", "api"}

Reply == {"ok", "noversion", "transport", "policy", "rejected", "auth", "raise"}

\* testPublic: the password test key is readable without credentials.
\* firmware: plain; restricted (refuses its parameters until the factory
\* password is changed); blank (has no version to report).  A Security 3.0
\* camera that was reset has no account at all.
Camera ==
  [scheme : {"digest", "basic"}, testPublic : BOOLEAN, sec3 : {FALSE},
   firmware : {"plain", "restricted", "blank"}]
    \cup [scheme : {"none"}, testPublic : {TRUE}, sec3 : {FALSE},
          firmware : {"plain", "restricted", "blank"}]
    \cup [scheme : {"digest"}, testPublic : {FALSE}, sec3 : {TRUE}, firmware : {"plain"}]

CameraState == [pw : Password, user : BOOLEAN, access : BOOLEAN]

Answer(reply, cam) == [reply |-> reply, cam |-> cam]

\* The camera accepts the credentials of a request (or asks for none).
Authenticated(dev, cam, scheme, pw) ==
  /\ ~dev.sec3
  /\ dev.scheme = "none" \/ (scheme = dev.scheme /\ pw = cam.pw)

Restricted(dev, cam) == dev.firmware = "restricted" /\ cam.pw \in Factory

\* ReadParam of ETC_MIN_PASSWORD_LEN.
TestAnswers(dev, cam, r) ==
  {Answer(IF dev.testPublic \/ Authenticated(dev, cam, r.scheme, r.pw)
          THEN "ok" ELSE "auth", cam)}

\* ReadParam of the essential keys.  A 401 page may carry the words that
\* _is_default_password_state takes for a policy.
EssentialAnswers(dev, cam, r) ==
  IF ~Authenticated(dev, cam, r.scheme, r.pw)
  THEN {Answer("auth", cam), Answer("policy", cam)}
  ELSE {Answer(CASE Restricted(dev, cam)      -> "policy"
                 [] dev.firmware = "blank"    -> "noversion"
                 [] OTHER                     -> "ok", cam)}

\* WriteParam USR_MODPASS: the message names the old password and the new one.
\* An empty body counts as accepted; a camera that does not know the form of
\* the message sends one and changes nothing.
ModpassAnswers(dev, cam, r) ==
  IF ~Authenticated(dev, cam, r.scheme, r.pw)
  THEN {Answer("auth", cam)}
  ELSE {Answer("rejected", cam), Answer("ok", cam)}
         \cup (IF r.pw = cam.pw THEN {Answer("ok", [cam EXCEPT !.pw = r.new])} ELSE {})

\* USR_ADD of the operating account, accepted while there is none.
UserAddAnswers(dev, cam, r) ==
  {Answer("rejected", cam)}
    \cup (IF cam.user THEN {} ELSE {Answer("ok", [cam EXCEPT !.user = TRUE])})

\* The home page and the parameters, read with the operating account.
AccountAnswers(dev, cam, r) == {Answer(IF cam.user THEN "ok" ELSE "auth", cam)}

\* The ETC_REMOTEACCESS table, written with the operating account.
AccessAnswers(dev, cam, r) ==
  IF cam.user THEN {Answer("ok", [cam EXCEPT !.access = TRUE]), Answer("rejected", cam)}
              ELSE {Answer("auth", cam)}

Answers(dev, cam, r) ==
  CASE r.op = "test"       -> TestAnswers(dev, cam, r)
    [] r.op \in {"essentials", "verify"} -> EssentialAnswers(dev, cam, r)
    [] r.op = "modpass"    -> ModpassAnswers(dev, cam, r)
    [] r.op = "useradd"    -> UserAddAnswers(dev, cam, r)
    [] r.op = "account"    -> AccountAnswers(dev, cam, r)
    [] r.op = "access"     -> AccessAnswers(dev, cam, r)

\* What a failed connection becomes.  A new client under digest fetches the
\* challenge first, and its failure is an auth error whose detail need not hold
\* one of the words _is_transport_miss looks for.
Failures(r) ==
  IF r.scheme = "digest" /\ r.op # "essentials" THEN {"transport", "auth"} ELSE {"transport"}

\* An exchange the network leaves alone.
Served(dev, cam, kind, r) ==
  CASE kind = "absent" -> {Answer(e, cam) : e \in Failures(r)}
    [] kind = "other"  -> {Answer("auth", cam)}
    [] kind = "api" /\ ~dev.sec3 /\ r.scheme = "digest" /\ dev.scheme = "basic" ->
         {Answer("raise", cam)}
    [] kind = "api" /\ ~dev.sec3 /\ r.scheme = "digest" /\ dev.scheme = "none" ->
         {Answer("auth", cam)}
    [] OTHER -> Answers(dev, cam, r)

\* An exchange the network disturbs: the request or only its answer is lost,
\* and a connection that closed makes the client send the request again.
Disturbed(dev, cam, kind, r) ==
  LET after == {cam} \cup {a.cam : a \in Served(dev, cam, kind, r)} IN
  {Answer(e, c) : e \in Failures(r), c \in after}
    \cup UNION {Served(dev, c, kind, r) : c \in after}

=============================================================================
