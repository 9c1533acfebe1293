------------------------ MODULE ConnectService_proofs ------------------------
(* Theorems of ConnectService and their proofs, for any number of places,  *)
(* verifications and disturbed exchanges: what a success tells, what a      *)
(* failure leaves behind, and that a probe that missed is made good.        *)
EXTENDS ConnectService, TLAPS

-----------------------------------------------------------------------------
\* What an exchange returns

\* The reads leave the camera as it is, whatever the network does.
LEMMA ReadsChangeNothing ==
  ASSUME NEW place \in 1..Places, NEW scheme, NEW pw,
         NEW op \in {"test", "essentials", "verify", "account"},
         NEW a \in Exchanges(place, Ask(op, scheme, pw))
  PROVE  a.cam = cam
<1> DEFINE r == Ask(op, scheme, pw)
<1>1. ASSUME NEW c PROVE \A b \in Answers(dev, c, r) : b.cam = c
  <2>1. \A b \in TestAnswers(dev, c, r) \cup EssentialAnswers(dev, c, r)
                   \cup AccountAnswers(dev, c, r) : b.cam = c
    BY DEF TestAnswers, EssentialAnswers, AccountAnswers, Answer
  <2>2. Answers(dev, c, r) \in {TestAnswers(dev, c, r), EssentialAnswers(dev, c, r),
                                AccountAnswers(dev, c, r)}
    BY DEF Answers, Ask
  <2> QED BY <2>1, <2>2
<1>2. ASSUME NEW c PROVE \A b \in Served(dev, c, kind[place], r) : b.cam = c
  BY <1>1 DEF Served, Answer
<1>3. \A b \in Disturbed(dev, cam, kind[place], r) : b.cam = cam
  BY <1>2 DEF Disturbed, Answer
<1> QED BY <1>2, <1>3 DEF Exchanges

\* A password write leaves the camera as it is, or sets the new password, and
\* then the camera had accepted the old one.
LEMMA WriteChangesOnlyPassword ==
  ASSUME NEW place \in 1..Places, NEW scheme, NEW pw,
         NEW a \in Exchanges(place, Ask("modpass", scheme, pw))
  PROVE  \/ a.cam = cam
         \/ /\ a.cam = [cam EXCEPT !.pw = req.target]
            /\ Authenticated(dev, cam, scheme, pw)
            /\ pw = cam.pw
<1> DEFINE r == Ask("modpass", scheme, pw)
           set(c) == [c EXCEPT !.pw = req.target]
<1>1. ASSUME NEW c
      PROVE \A b \in Answers(dev, c, r) :
              b.cam = c \/ (b.cam = set(c) /\ Authenticated(dev, c, scheme, pw) /\ pw = c.pw)
  <2>1. Answers(dev, c, r) = ModpassAnswers(dev, c, r)
    BY DEF Answers, Ask
  <2> QED BY <2>1 DEF ModpassAnswers, Answer, Ask
<1>2. ASSUME NEW c
      PROVE \A b \in Served(dev, c, kind[place], r) :
              b.cam = c \/ (b.cam = set(c) /\ Authenticated(dev, c, scheme, pw) /\ pw = c.pw)
  BY <1>1 DEF Served, Answer
<1>3. set(set(cam)) = set(cam)
  OBVIOUS
<1>4. \A b \in Disturbed(dev, cam, kind[place], r) :
        b.cam = cam \/ (b.cam = set(cam) /\ Authenticated(dev, cam, scheme, pw) /\ pw = cam.pw)
  <2> DEFINE after == {cam} \cup {b.cam : b \in Served(dev, cam, kind[place], r)}
  <2>1. \A c \in after :
          c = cam \/ (c = set(cam) /\ Authenticated(dev, cam, scheme, pw) /\ pw = cam.pw)
    BY <1>2
  <2>2. \A c \in after : \A b \in Served(dev, c, kind[place], r) : b.cam \in {c, set(c)}
    BY <1>2
  <2>3. \A c \in after : \A b \in Served(dev, c, kind[place], r) :
          b.cam = cam \/ (b.cam = set(cam) /\ Authenticated(dev, cam, scheme, pw) /\ pw = cam.pw)
    <3> TAKE c \in after
    <3> TAKE b \in Served(dev, c, kind[place], r)
    <3>1. CASE c = cam
      BY <3>1, <1>2
    <3>2. CASE c = set(cam) /\ Authenticated(dev, cam, scheme, pw) /\ pw = cam.pw
      BY <3>2, <2>2, <1>3
    <3> QED BY <2>1, <3>1, <3>2
  <2>4. \A e, c : c \in after => Answer(e, c).cam \in after
    BY DEF Answer
  <2> QED BY <2>1, <2>3, <2>4 DEF Disturbed
<1> QED BY <1>2, <1>4 DEF Exchanges

\* The account actions touch the account alone, and an acknowledged one happened.
LEMMA AccountExchange ==
  ASSUME cam \in CameraState, NEW place \in 1..Places, NEW scheme, NEW pw,
         NEW op \in {"useradd", "access"},
         NEW a \in Exchanges(place, Ask(op, scheme, pw)),
         kind[place] = "api", dev.sec3
  PROVE  /\ a.cam \in CameraState
         /\ a.cam.pw = cam.pw
         /\ cam.user => a.cam.user
         /\ op = "access" /\ a.reply = "ok" => cam.user /\ a.cam.access
         /\ op = "useradd" /\ a.reply = "ok" => a.cam.user
<1> DEFINE r == Ask(op, scheme, pw)
           good(c, b) == /\ b.cam \in CameraState
                         /\ b.cam.pw = c.pw
                         /\ c.user => b.cam.user
                         /\ op = "access" => b.cam.user = c.user
                         /\ op = "access" /\ b.reply = "ok" => c.user /\ b.cam.access
                         /\ op = "useradd" /\ b.reply = "ok" => b.cam.user
<1>1. ASSUME NEW c \in CameraState
      PROVE \A b \in Answers(dev, c, r) : good(c, b)
  <2> DEFINE added == [c EXCEPT !.user = TRUE]
             limited == [c EXCEPT !.access = TRUE]
  <2>3. /\ added \in CameraState /\ added.user /\ added.pw = c.pw
        /\ limited \in CameraState /\ limited.access
        /\ limited.user = c.user /\ limited.pw = c.pw
    BY DEF CameraState
  <2>1. CASE op = "useradd"
    <3>1. Answers(dev, c, r) = UserAddAnswers(dev, c, r)
      BY <2>1 DEF Answers, Ask
    <3>2. \A b \in Answers(dev, c, r) :
            b = Answer("rejected", c) \/ b = Answer("ok", added)
      BY <3>1 DEF UserAddAnswers
    <3> HIDE DEF added
    <3> QED BY <3>2, <2>1, <2>3 DEF Answer
  <2>2. CASE op = "access"
    <3>1. Answers(dev, c, r) = AccessAnswers(dev, c, r)
      BY <2>2 DEF Answers, Ask
    <3>2. \A b \in Answers(dev, c, r) :
            \/ c.user /\ b = Answer("ok", limited)
            \/ b \in {Answer("rejected", c), Answer("auth", c)}
      BY <3>1 DEF AccessAnswers
    <3> HIDE DEF limited
    <3> QED BY <3>2, <2>2, <2>3 DEF Answer
  <2> QED BY <2>1, <2>2
<1>2. ASSUME NEW c \in CameraState
      PROVE \A b \in Served(dev, c, kind[place], r) : good(c, b)
  <2>1. Served(dev, c, kind[place], r) = Answers(dev, c, r)
    BY DEF Served
  <2> QED BY <1>1, <2>1
<1>3. \A b \in Disturbed(dev, cam, kind[place], r) : good(cam, b)
  <2> DEFINE after == {cam} \cup {b.cam : b \in Served(dev, cam, kind[place], r)}
  <2>1. \A c \in after : /\ c \in CameraState /\ c.pw = cam.pw /\ (cam.user => c.user)
                         /\ op = "access" => c.user = cam.user
    BY <1>2
  <2>2. \A c \in after : \A b \in Served(dev, c, kind[place], r) : good(cam, b)
    BY <1>2, <2>1
  <2>3. \A e \in {"transport", "auth"}, c \in after : good(cam, Answer(e, c))
    BY <2>1 DEF Answer
  <2> HIDE DEF good
  <2> QED BY <2>2, <2>3 DEF Disturbed, Failures
<1> QED BY <1>2, <1>3 DEF Exchanges

\* What the read of the essentials tells.
LEMMA EssentialsTell ==
  ASSUME NEW place \in 1..Places, NEW scheme, NEW pw,
         NEW op \in {"essentials", "verify"},
         NEW a \in Exchanges(place, Ask(op, scheme, pw))
  PROVE  /\ a.reply \in {"ok", "noversion"} => Authenticated(dev, cam, scheme, pw)
         /\ a.reply = "policy" => Restricted(dev, cam) \/ ~Authenticated(dev, cam, scheme, pw)
<1> DEFINE r == Ask(op, scheme, pw)
           tells(b) == /\ b.reply \in {"ok", "noversion"} => Authenticated(dev, cam, scheme, pw)
                       /\ b.reply = "policy" =>
                            Restricted(dev, cam) \/ ~Authenticated(dev, cam, scheme, pw)
<1>1. \A b \in Answers(dev, cam, r) : tells(b) /\ b.cam = cam
  <2>1. Answers(dev, cam, r) = EssentialAnswers(dev, cam, r)
    BY DEF Answers, Ask
  <2> QED BY <2>1 DEF EssentialAnswers, Answer, Ask
<1>2. \A c : \A e \in {"transport", "auth", "raise"} : tells(Answer(e, c))
  BY DEF Answer
<1>3. \A e, c : Answer(e, c).cam = c
  BY DEF Answer
<1> HIDE DEF tells
<1>4. \A b \in Served(dev, cam, kind[place], r) : tells(b) /\ b.cam = cam
  BY <1>1, <1>2, <1>3 DEF Served, Failures
<1>5. \A b \in Disturbed(dev, cam, kind[place], r) : tells(b)
  BY <1>2, <1>4 DEF Disturbed, Failures
<1>6. tells(a)
  <2>1. a.reply \in {b.reply : b \in Served(dev, cam, kind[place], r)
                                       \cup Disturbed(dev, cam, kind[place], r)}
    BY DEF Exchanges
  <2> QED BY <2>1, <1>4, <1>5 DEF tells
<1> QED BY <1>6 DEF tells

LEMMA ExchangeTypes ==
  ASSUME faults \in 0..MaxFaults, NEW place \in 1..Places, NEW r, NEW a \in Exchanges(place, r),
         r.op \in {"test", "essentials", "verify", "modpass", "useradd", "account", "access"}
  PROVE  a.reply \in Reply /\ faults + a.fault \in 0..MaxFaults
<1>1. \A e, c : Answer(e, c).reply = e
  BY DEF Answer
<1>2. ASSUME NEW c PROVE \A b \in Answers(dev, c, r) : b.reply \in Reply
  <2>1. Answers(dev, c, r) \in {TestAnswers(dev, c, r), EssentialAnswers(dev, c, r),
          ModpassAnswers(dev, c, r), UserAddAnswers(dev, c, r), AccountAnswers(dev, c, r),
          AccessAnswers(dev, c, r)}
    BY DEF Answers
  <2>2. \A b \in TestAnswers(dev, c, r) \cup AccountAnswers(dev, c, r)
                   \cup EssentialAnswers(dev, c, r) : b.reply \in Reply
    BY <1>1 DEF TestAnswers, AccountAnswers, EssentialAnswers, Reply
  <2>3. \A b \in ModpassAnswers(dev, c, r) : b.reply \in Reply
    BY <1>1 DEF ModpassAnswers, Reply
  <2>4. \A b \in UserAddAnswers(dev, c, r) : b.reply \in Reply
    BY <1>1 DEF UserAddAnswers, Reply
  <2>5. \A b \in AccessAnswers(dev, c, r) : b.reply \in Reply
    BY <1>1 DEF AccessAnswers, Reply
  <2> QED BY <2>1, <2>2, <2>3, <2>4, <2>5
<1>3. \A e \in Failures(r) : e \in Reply
  BY DEF Failures, Reply
<1>4. \A c : \A b \in Served(dev, c, kind[place], r) : b.reply \in Reply
  <2>1. "auth" \in Reply /\ "raise" \in Reply
    BY DEF Reply
  <2> QED BY <1>1, <1>2, <1>3, <2>1 DEF Served
<1>5. \A b \in Disturbed(dev, cam, kind[place], r) : b.reply \in Reply
  BY <1>1, <1>3, <1>4 DEF Disturbed
<1>6. a.fault \in {0, 1} /\ (a.fault = 1 => faults < MaxFaults)
  <2>1. \A b \in Exchanges(place, r) :
          b.fault = 0 \/ (b.fault = 1 /\ faults < MaxFaults)
    BY DEF Exchanges
  <2> QED BY <2>1
<1>7. a.reply \in Reply
  BY <1>4, <1>5 DEF Exchanges
<1> QED BY <1>6, <1>7, ConnectAssumption

\* Only the reads of the essentials can miss the version.
LEMMA WriteNeverNoVersion ==
  ASSUME NEW place \in 1..Places, NEW scheme, NEW pw, NEW op \in {"modpass", "useradd", "account", "access"},
         NEW a \in Exchanges(place, Ask(op, scheme, pw))
  PROVE  a.reply # "noversion"
<1> DEFINE r == Ask(op, scheme, pw)
<1>1. \A e, c : Answer(e, c).reply = e
  BY DEF Answer
<1>2. ASSUME NEW c PROVE \A b \in Answers(dev, c, r) : b.reply # "noversion"
  <2>1. Answers(dev, c, r) \in {ModpassAnswers(dev, c, r), UserAddAnswers(dev, c, r),
                                AccountAnswers(dev, c, r), AccessAnswers(dev, c, r)}
    BY DEF Answers, Ask
  <2>2. \A b \in ModpassAnswers(dev, c, r) : b.reply # "noversion"
    BY <1>1 DEF ModpassAnswers
  <2>3. \A b \in UserAddAnswers(dev, c, r) : b.reply # "noversion"
    BY <1>1 DEF UserAddAnswers
  <2>4. \A b \in AccountAnswers(dev, c, r) \cup AccessAnswers(dev, c, r) : b.reply # "noversion"
    BY <1>1 DEF AccountAnswers, AccessAnswers
  <2> QED BY <2>1, <2>2, <2>3, <2>4
<1>3. \A e \in Failures(r) : e # "noversion"
  BY DEF Failures
<1>4. \A c : \A b \in Served(dev, c, kind[place], r) : b.reply # "noversion"
  BY <1>1, <1>2, <1>3 DEF Served
<1>5. \A b \in Disturbed(dev, cam, kind[place], r) : b.reply # "noversion"
  BY <1>1, <1>3, <1>4 DEF Disturbed
<1> QED BY <1>4, <1>5 DEF Exchanges

LEMMA CandidateTypes ==
  ASSUME req \in Request
  PROVE  /\ Len(Candidates(req.raw)) \in Nat \ {0}
         /\ \A i \in 1..Len(Candidates(req.raw)) :
              /\ Candidates(req.raw)[i] \in Password
              /\ req.raw \in Factory => Candidates(req.raw)[i] \in Factory
         /\ req.target \in Password \ Factory
<1>1. req.target \in Password \ Factory /\ req.raw \in Password \cup {""}
  BY DEF Request
<1> DEFINE cs == Candidates(req.raw)
<1>2. CASE req.raw = "admin"
  <2>1. cs = <<"admin", "1234">>
    BY <1>2 DEF Candidates
  <2>2. Len(cs) = 2 /\ cs[1] = "admin" /\ cs[2] = "1234"
    BY <2>1
  <2>3. \A i \in 1..Len(cs) : i = 1 \/ i = 2
    BY <2>2
  <2> QED
    <3>1. Len(cs) \in Nat \ {0}
      BY <2>2
    <3>2. \A i \in 1..Len(cs) : cs[i] \in Factory
      BY <2>2, <2>3 DEF Factory
    <3>3. Factory \subseteq Password
      BY DEF Password
    <3> QED BY <3>1, <3>2, <3>3, <1>1
<1>3. CASE req.raw = "1234"
  <2>1. cs = <<"1234", "admin">>
    BY <1>3 DEF Candidates
  <2>2. Len(cs) = 2 /\ cs[1] = "1234" /\ cs[2] = "admin"
    BY <2>1
  <2>3. \A i \in 1..Len(cs) : i = 1 \/ i = 2
    BY <2>2
  <2> QED
    <3>1. Len(cs) \in Nat \ {0}
      BY <2>2
    <3>2. \A i \in 1..Len(cs) : cs[i] \in Factory
      BY <2>2, <2>3 DEF Factory
    <3>3. Factory \subseteq Password
      BY DEF Password
    <3> QED BY <3>1, <3>2, <3>3, <1>1
<1>4. CASE req.raw = ""
  <2>1. cs = <<"1234", "admin", "123", "!camera1108", "!Camera1108">>
    BY <1>4 DEF Candidates
  <2>2. /\ Len(cs) = 5 /\ cs[1] = "1234" /\ cs[2] = "admin"
        /\ cs[3] = "123" /\ cs[4] = "!camera1108" /\ cs[5] = "!Camera1108"
    BY <2>1
  <2>3. \A i \in 1..Len(cs) : i = 1 \/ i = 2 \/ i = 3 \/ i = 4 \/ i = 5
    BY <2>2
  <2>4. req.raw \notin Factory
    BY <1>4 DEF Factory
  <2> QED
    <3>1. Len(cs) \in Nat \ {0}
      BY <2>2
    <3>2. \A i \in 1..Len(cs) : cs[i] \in Password
      BY <2>2, <2>3 DEF Password, Factory
    <3> QED BY <3>1, <3>2, <2>4, <1>1
<1>5. CASE req.raw \in {"123", "!camera1108", "!Camera1108"}
  <2>1. cs = <<req.raw>>
    BY <1>5 DEF Candidates
  <2>2. Len(cs) = 1 /\ cs[1] = req.raw
    BY <2>1
  <2>3. \A i \in 1..Len(cs) : i = 1
    BY <2>2
  <2>4. req.raw \notin Factory /\ req.raw \in Password
    BY <1>5 DEF Factory, Password
  <2> QED
    <3>1. Len(cs) \in Nat \ {0}
      BY <2>2
    <3>2. \A i \in 1..Len(cs) : cs[i] \in Password
      BY <2>2, <2>3, <2>4
    <3> QED BY <3>1, <3>2, <2>4, <1>1
<1> QED BY <1>1, <1>2, <1>3, <1>4, <1>5 DEF Password, Factory

-----------------------------------------------------------------------------
\* The invariant

\* While the password is being changed, the operator typed a factory password
\* and the camera either refuses to work with its factory password or would
\* not take the write with the credentials in use.
Changing ==
  pc \in {"key", "rsa", "rsaVerify", "tenc"} =>
    /\ req.raw \in Factory
    /\ Restricted(dev, cam) \/ ~(Authenticated(dev, cam, combo[2], password) /\ password = cam.pw)

\* The bootstrap of a Security 3.0 camera, step by step.
Bootstrap ==
  /\ pc \in {"sec3Add", "sec3Home", "sec3Access", "sec3Read"} =>
       /\ dev.sec3 /\ at = 0
       /\ probe.combo[1] \in ApiPlaces
  /\ pc \in {"sec3Access", "sec3Read"} => cam.user
  /\ pc = "sec3Read" => cam.access

Inv ==
  /\ TypeOK
  /\ Changing
  /\ Bootstrap
  /\ pc # "probe" => combo \in Combo
  /\ pc = "probe" => at = 0
  /\ pc # "done" => result = Pending
  /\ SuccessOpensCamera

-----------------------------------------------------------------------------
\* Where a combination or a password candidate leaves the call

LEMMA NthInCombo ==
  ASSUME TypeOK, NEW i \in 1..(3 * Places)
  PROVE  Nth(i) \in Combo
<1>1. ((i - 1) \div 3) + 1 \in 1..Places /\ ((i - 1) % 3) + 1 \in {1, 2, 3}
  BY ConnectAssumption
<1>2. AuthOrder[1] \in Scheme /\ AuthOrder[2] \in Scheme /\ AuthOrder[3] \in Scheme
  BY DEF AuthOrder, Scheme
<1> QED BY <1>1, <1>2 DEF Nth, Combo

\* What the three ways to go on after a failure have in common.
Moved ==
  /\ mem' \in Memory
  /\ cand' \in 1..Len(Candidates(req.raw))
  /\ at' \in 0..(3 * Places)
  /\ \/ pc' = "test" /\ result' = result /\ (at' = at \/ at' \in 1..(3 * Places))
     \/ pc' = "done" /\ at' = at /\ result' \in Response /\ ~result'.ok

LEMMA FinishResponse ==
  ASSUME NEW e \in ErrorClass
  PROVE  [Pending EXCEPT !.err = e] \in Response /\ ~[Pending EXCEPT !.err = e].ok
BY DEF Pending, Response

LEMMA ComboFailsMoves ==
  ASSUME TypeOK, NEW e \in ErrorClass, ComboFails(e)
  PROVE  Moved
<1>1. mem' \in Memory
  BY DEF ComboFails, Memory, TypeOK, ErrorClass
<1>2. cand' \in 1..Len(Candidates(req.raw))
  BY CandidateTypes DEF ComboFails, TypeOK
<1>3. CASE pc' = "test" /\ at' = Following(at) /\ Following(at) <= 3 * Places /\ result' = result
  <2>1. Following(at) \in {at + 1, at + 2}
    BY DEF Following
  <2>2. at' \in 1..(3 * Places)
    BY <1>3, <2>1, ConnectAssumption DEF TypeOK
  <2> QED BY <1>1, <1>2, <1>3, <2>2 DEF Moved
<1>4. ASSUME NEW x \in {e, FirstError(mem')}, at' = at, Finish(x)
      PROVE  Moved
  <2>1. FirstError(mem') \in ErrorClass
    BY <1>1 DEF FirstError, Memory
  <2>2. x \in ErrorClass
    BY <2>1
  <2> QED BY <1>1, <1>2, <1>4, <2>2, FinishResponse DEF Moved, Finish, TypeOK
<1> QED BY <1>3, <1>4 DEF ComboFails

LEMMA PasswordFailsMoves ==
  ASSUME TypeOK, NEW e \in ErrorClass, PasswordFails(e)
  PROVE  Moved
<1>1. CASE cand < Len(Candidates(req.raw))
  <2>1. mem' \in Memory /\ cand' \in 1..Len(Candidates(req.raw))
    BY <1>1, CandidateTypes DEF PasswordFails, TypeOK, Memory
  <2> QED BY <1>1, <2>1 DEF PasswordFails, TypeOK, Moved
<1>2. CASE ~(cand < Len(Candidates(req.raw)))
  BY <1>2, ComboFailsMoves DEF PasswordFails
<1> QED BY <1>1, <1>2

LEMMA TransportFailsMoves ==
  ASSUME TypeOK, TransportFails
  PROVE  Moved
<1>1. (IF mem.best = "none" THEN "transport" ELSE mem.best) \in ErrorClass
  BY DEF TypeOK, Memory, ErrorClass, Reply
<1> QED BY <1>1, ComboFailsMoves DEF TransportFails

-----------------------------------------------------------------------------
\* Each action preserves the invariant and changes a password only as allowed

PasswordRule ==
  cam'.pw # cam.pw =>
    /\ Restricted(dev, cam)
    /\ req.raw \in Factory
    /\ cam'.pw = req.target

\* What every action but the probe leaves alone.
Fixed == UNCHANGED <<world, probe>>

LEMMA MovedKeepsInv ==
  ASSUME Inv, pc # "probe", pc # "done", Moved, Fixed,
         cam' \in CameraState, faults' \in 0..MaxFaults, tries' \in Nat
  PROVE  Inv'
<1>1. TypeOK'
  BY DEF Inv, TypeOK, Moved, Fixed, world, Phase
<1>2. combo' \in Combo
  <2>1. CASE at' = at
    BY <2>1 DEF combo, Fixed, Nth, AuthOrder, Inv
  <2>2. CASE at' \in 1..(3 * Places)
    <3>1. Nth(at') \in Combo
      BY <2>2, NthInCombo DEF Inv
    <3>2. combo' = Nth(at')
      BY <2>2 DEF combo, Fixed, Nth, AuthOrder
    <3> QED BY <3>1, <3>2
  <2> QED BY <2>1, <2>2 DEF Moved
<1>3. CASE pc' = "test" /\ result' = result
  BY <1>1, <1>2, <1>3 DEF Inv, Changing, Bootstrap, SuccessOpensCamera, Pending
<1>4. CASE pc' = "done" /\ ~result'.ok
  BY <1>1, <1>2, <1>4 DEF Inv, Changing, Bootstrap, SuccessOpensCamera
<1> QED BY <1>3, <1>4 DEF Moved

LEMMA PasswordType ==
  ASSUME Inv
  PROVE  password \in Password /\ (req.raw \in Factory => password \in Factory)
BY CandidateTypes DEF Inv, TypeOK, password

\* The step to another phase that keeps position, candidate, errors and result.
LEMMA StayKeepsInv ==
  ASSUME Inv, pc # "probe", pc # "done", Fixed,
         UNCHANGED <<at, cand, mem, result>>,
         pc' \in Phase \ {"probe", "done"},
         cam' \in CameraState, faults' \in 0..MaxFaults, tries' \in Nat,
         Changing', Bootstrap'
  PROVE  Inv'
<1>1. TypeOK'
  BY DEF Inv, TypeOK, Fixed, world
<1>2. combo' = combo
  BY DEF combo, Fixed, Nth, AuthOrder
<1> QED BY <1>1, <1>2 DEF Inv, SuccessOpensCamera, Pending

LEMMA ProbeStep ==
  ASSUME Inv, ProbeFinds \/ ProbeFindsNothing
  PROVE  Inv' /\ PasswordRule
<1> USE DEF Inv, TypeOK
<1>1. PasswordRule
  BY DEF PasswordRule, ProbeFinds, ProbeFindsNothing
<1>2. CASE ProbeFindsNothing
  <2>1. TypeOK'
    BY <1>2, ConnectAssumption DEF ProbeFindsNothing, world, Phase
  <2>2. combo' \in Combo
    <3>1. at' \in 1..(3 * Places) /\ at' = 1 /\ at' # 0 /\ probe'.combo = NoCombo
      BY <1>2, ConnectAssumption DEF ProbeFindsNothing
    <3>2. combo' = <<1, "digest">>
      <4>1. combo' = Nth(at)'
        BY <3>1 DEF combo
      <4>2. AuthOrder' = <<"digest", "basic", "none">>
        BY <3>1 DEF AuthOrder, NoCombo
      <4>3. ((1 - 1) \div 3) + 1 = 1 /\ ((1 - 1) % 3) + 1 = 1
        OBVIOUS
      <4> QED BY <4>1, <4>2, <4>3, <3>1 DEF Nth
    <3> QED BY <3>2, ConnectAssumption DEF Combo, Scheme
  <2>3. pc' = "test" /\ result' = result /\ result = Pending
    BY <1>2 DEF ProbeFindsNothing
  <2> QED BY <1>1, <2>1, <2>2, <2>3 DEF Changing, Bootstrap, SuccessOpensCamera, Pending
<1>3. CASE ProbeFinds
  <2>1. PICK p \in ApiPlaces, sec3 \in {FALSE, dev.sec3} :
          /\ probe' = [combo |-> <<p, Guess>>, missed |-> probe'.missed]
          /\ probe'.missed \in BOOLEAN
          /\ faults' \in 0..MaxFaults
          /\ pc' = IF sec3 THEN "sec3Add" ELSE "test"
          /\ tries' = IF sec3 THEN HomeTries ELSE 0
    <3>1. PICK p \in ApiPlaces, sec3 \in {FALSE, dev.sec3} :
            LET missed == sec3 # dev.sec3 \/ \E q \in ApiPlaces : q < p IN
            /\ missed => faults < MaxFaults
            /\ faults' = IF missed THEN faults + 1 ELSE faults
            /\ probe' = [combo |-> <<p, Guess>>, missed |-> missed]
            /\ pc' = IF sec3 THEN "sec3Add" ELSE "test"
            /\ tries' = IF sec3 THEN HomeTries ELSE 0
      BY <1>3, Zenon DEF ProbeFinds
    <3> DEFINE missed == sec3 # dev.sec3 \/ \E q \in ApiPlaces : q < p
    <3>2. missed \in BOOLEAN
      OBVIOUS
    <3> HIDE DEF missed
    <3>3. /\ missed => faults < MaxFaults
          /\ faults' = IF missed THEN faults + 1 ELSE faults
          /\ probe' = [combo |-> <<p, Guess>>, missed |-> missed]
      BY <3>1, Zenon DEF missed
    <3>4. faults' \in 0..MaxFaults
      BY <3>2, <3>3, ConnectAssumption
    <3>5. probe'.missed = missed
      BY <3>3
    <3> QED BY <3>1, <3>2, <3>3, <3>4, <3>5, Zenon
  <2>2. <<p, Guess>> \in Combo
    BY DEF Combo, ApiPlaces, Guess, Scheme, Camera
  <2>3. UNCHANGED <<world, cam, at, cand, mem, result>> /\ at = 0 /\ pc = "probe"
    BY <1>3 DEF ProbeFinds
  <2>4. TypeOK'
    <3>1. probe' \in [combo : {NoCombo} \cup Combo, missed : BOOLEAN]
      BY <2>1, <2>2
    <3>2. pc' \in Phase /\ tries' \in Nat /\ faults' \in 0..MaxFaults
      BY <2>1, ConnectAssumption DEF Phase
    <3> QED BY <3>1, <3>2, <2>3 DEF world
  <2>5. combo' \in Combo /\ combo' = <<p, Guess>>
    BY <2>1, <2>2, <2>3 DEF combo
  <2>6. Bootstrap'
    <3>1. pc' = "sec3Add" => dev.sec3
      BY <2>1
    <3>2. probe'.combo[1] = p /\ ApiPlaces' = ApiPlaces
      BY <2>1, <2>3 DEF world, ApiPlaces
    <3> QED BY <2>1, <2>3, <3>1, <3>2 DEF Bootstrap, world
  <2> QED BY <1>1, <2>1, <2>3, <2>4, <2>5, <2>6 DEF Changing, SuccessOpensCamera, Pending
<1> QED BY <1>2, <1>3

LEMMA RaiseMoves ==
  ASSUME TypeOK, Raise
  PROVE  Moved
<1>1. "raise" \in ErrorClass
  BY DEF ErrorClass, Reply
<1> QED BY <1>1, FinishResponse DEF Raise, Finish, Moved, TypeOK

LEMMA SucceedKeepsInv ==
  ASSUME Inv, pc # "probe", pc # "done", Fixed, UNCHANGED <<at, cand, mem>>,
         cam' \in CameraState, faults' \in 0..MaxFaults, tries' \in Nat,
         NEW pw \in Password, NEW recovered \in BOOLEAN, Succeed(pw, recovered),
         IF dev.sec3 THEN cam'.user /\ cam'.access
                     ELSE Authenticated(dev, cam', combo[2], pw)
  PROVE  Inv'
<1>1. pc' = "done" /\ result' = [ok |-> TRUE, pw |-> pw, recovered |-> recovered, err |-> "none"]
  BY DEF Succeed
<1>2. result' \in Response /\ result'.pw = pw
  BY <1>1 DEF Response, ErrorClass
<1>3. TypeOK'
  BY <1>1, <1>2 DEF Inv, TypeOK, Fixed, world, Phase
<1>4. combo' = combo /\ dev' = dev
  BY DEF combo, Fixed, Nth, AuthOrder, world
<1>5. SuccessOpensCamera'
  BY <1>2, <1>4 DEF SuccessOpensCamera
<1> QED BY <1>1, <1>3, <1>4, <1>5 DEF Inv, Changing, Bootstrap

\* Exchanges of run_phase1 outside the bootstrap.
LEMMA ReadExchange ==
  ASSUME Inv, pc # "probe",
         NEW op \in {"test", "essentials", "verify", "account"}, NEW scheme, NEW pw,
         NEW a \in Exchanges(combo[1], Ask(op, scheme, pw)), Deliver(a)
  PROVE  /\ cam' = cam /\ cam' \in CameraState /\ faults' \in 0..MaxFaults
         /\ a.reply \in Reply /\ PasswordRule
<1>1. combo[1] \in 1..Places
  BY DEF Inv, Combo
<1>2. a.cam = cam
  BY <1>1, ReadsChangeNothing
<1>3. Ask(op, scheme, pw).op = op
  BY DEF Ask
<1>4. a.reply \in Reply /\ faults + a.fault \in 0..MaxFaults
  BY <1>1, <1>3, ExchangeTypes DEF Inv, TypeOK
<1> QED BY <1>2, <1>4 DEF Deliver, PasswordRule, Inv, TypeOK

LEMMA TestKeyStep ==
  ASSUME Inv, ReadTestKey
  PROVE  Inv' /\ PasswordRule
<1>1. pc = "test" /\ UNCHANGED <<world, probe, tries>>
  BY DEF ReadTestKey
<1>2. PICK a \in Exchanges(combo[1], Ask("test", combo[2], password)) :
        /\ Deliver(a)
        /\ \/ a.reply = "ok" /\ pc' = "essentials" /\ UNCHANGED <<at, cand, mem, result>>
           \/ a.reply = "transport" /\ TransportFails
           \/ a.reply = "raise" /\ Raise
           \/ a.reply \in {"auth", "policy", "rejected"} /\ PasswordFails(a.reply)
  BY Zenon DEF ReadTestKey
<1>3. cam' = cam /\ cam' \in CameraState /\ faults' \in 0..MaxFaults /\ PasswordRule
  BY <1>1, <1>2, ReadExchange
<1>4. Fixed /\ tries' \in Nat /\ pc # "probe" /\ pc # "done"
  BY <1>1 DEF Fixed, Inv, TypeOK
<1>5. CASE a.reply = "ok" /\ pc' = "essentials" /\ UNCHANGED <<at, cand, mem, result>>
  <2>1. pc' \in Phase \ {"probe", "done"} /\ Changing' /\ Bootstrap'
    BY <1>5 DEF Phase, Changing, Bootstrap
  <2> QED BY <1>3, <1>4, <1>5, <2>1, StayKeepsInv
<1>6. CASE Moved
  BY <1>3, <1>4, <1>6, MovedKeepsInv
<1>7. CASE a.reply \in {"auth", "policy", "rejected"} /\ PasswordFails(a.reply)
  <2>1. a.reply \in ErrorClass
    BY <1>7 DEF ErrorClass, Reply
  <2> QED BY <1>6, <1>7, <2>1, PasswordFailsMoves DEF Inv
<1> QED BY <1>2, <1>3, <1>5, <1>6, <1>7, TransportFailsMoves, RaiseMoves DEF Inv

LEMMA EssentialsStep ==
  ASSUME Inv, ReadEssentials
  PROVE  Inv' /\ PasswordRule
<1>1. pc = "essentials" /\ UNCHANGED <<world, probe, tries>>
  BY DEF ReadEssentials
<1>2. PICK a \in Exchanges(combo[1], Ask("essentials", combo[2], password)) :
        /\ Deliver(a)
        /\ \/ /\ a.reply = "ok" /\ Succeed(password, FALSE)
              /\ UNCHANGED <<at, cand, mem>>
           \/ a.reply = "noversion" /\ ComboFails("parse")
           \/ /\ AllowRecovery /\ IsDefaultPasswordState(a.reply)
              /\ pc' = "key" /\ UNCHANGED <<at, cand, mem, result>>
           \/ /\ ~(AllowRecovery /\ IsDefaultPasswordState(a.reply))
              /\ a.reply \in {"transport", "raise"} /\ TransportFails
           \/ /\ ~(AllowRecovery /\ IsDefaultPasswordState(a.reply))
              /\ a.reply \in {"auth", "policy", "rejected"} /\ PasswordFails(a.reply)
  BY Zenon DEF ReadEssentials
<1>3. cam' = cam /\ cam' \in CameraState /\ faults' \in 0..MaxFaults /\ PasswordRule
  BY <1>1, <1>2, ReadExchange
<1>4. Fixed /\ tries' \in Nat /\ pc # "probe" /\ pc # "done"
  BY <1>1 DEF Fixed, Inv, TypeOK
<1>5. /\ a.reply = "ok" => Authenticated(dev, cam, combo[2], password)
      /\ a.reply = "policy" => Restricted(dev, cam) \/ ~Authenticated(dev, cam, combo[2], password)
  <2>1. combo[1] \in 1..Places
    BY <1>1 DEF Inv, Combo
  <2> QED BY <1>2, <2>1, EssentialsTell
<1>6. CASE a.reply = "ok" /\ Succeed(password, FALSE) /\ UNCHANGED <<at, cand, mem>>
  <2>1. password \in Password /\ ~dev.sec3
    BY <1>5, <1>6, PasswordType DEF Authenticated
  <2> QED BY <1>3, <1>4, <1>5, <1>6, <2>1, SucceedKeepsInv
<1>7. CASE /\ AllowRecovery /\ IsDefaultPasswordState(a.reply)
           /\ pc' = "key" /\ UNCHANGED <<at, cand, mem, result>>
  <2>1. pc' \in Phase \ {"probe", "done"} /\ Bootstrap'
    BY <1>7 DEF Phase, Bootstrap
  <2>2. combo' = combo /\ password' = password /\ dev' = dev /\ req' = req
    BY <1>4, <1>7 DEF combo, password, Fixed, Nth, AuthOrder, world
  <2>3. req.raw \in Factory /\ a.reply = "policy"
    BY <1>7 DEF AllowRecovery, IsDefaultPasswordState
  <2>4. Changing'
    BY <1>3, <1>5, <2>2, <2>3 DEF Changing
  <2> QED BY <1>3, <1>4, <1>7, <2>1, <2>4, StayKeepsInv
<1>8. CASE Moved
  BY <1>3, <1>4, <1>8, MovedKeepsInv
<1>9. CASE a.reply \in {"auth", "policy", "rejected"} /\ PasswordFails(a.reply)
  <2>1. a.reply \in ErrorClass
    BY <1>9 DEF ErrorClass, Reply
  <2> QED BY <1>8, <1>9, <2>1, PasswordFailsMoves DEF Inv
<1>10. CASE ComboFails("parse")
  <2>1. "parse" \in ErrorClass
    BY DEF ErrorClass
  <2> QED BY <1>8, <1>10, <2>1, ComboFailsMoves DEF Inv
<1> QED BY <1>2, <1>3, <1>6, <1>7, <1>8, <1>9, <1>10, TransportFailsMoves DEF Inv

LEMMA PublicKeyStep ==
  ASSUME Inv, ReadPublicKey
  PROVE  Inv' /\ PasswordRule
<1>1. /\ pc = "key" /\ pc' \in {"rsa", "tenc"}
      /\ UNCHANGED <<world, cam, faults, probe, at, cand, tries, mem, result>>
  BY DEF ReadPublicKey
<1>2. Fixed /\ tries' \in Nat /\ cam' \in CameraState /\ faults' \in 0..MaxFaults
  BY <1>1 DEF Fixed, Inv, TypeOK
<1>3. combo' = combo /\ password' = password /\ dev' = dev /\ req' = req
  BY <1>1 DEF combo, password, Nth, AuthOrder, world
<1>4. Changing' /\ Bootstrap' /\ pc' \in Phase \ {"probe", "done"}
  BY <1>1, <1>3 DEF Inv, Changing, Bootstrap, Phase
<1> QED BY <1>1, <1>2, <1>4, StayKeepsInv DEF PasswordRule

\* A password write of the change: an applied one is allowed, and afterwards
\* the factory password in use is no longer the camera's.
LEMMA WriteExchange ==
  ASSUME Inv, pc \in {"rsa", "tenc"}, NEW a \in Modpass, Deliver(a)
  PROVE  /\ cam' \in CameraState /\ faults' \in 0..MaxFaults
         /\ a.reply \in Reply /\ PasswordRule
         /\ cam' = cam \/ password # cam'.pw
<1>1. combo[1] \in 1..Places
  BY DEF Inv, Combo
<1>2. Ask("modpass", combo[2], password).op = "modpass"
  BY DEF Ask
<1>3. a.reply \in Reply /\ faults + a.fault \in 0..MaxFaults
  BY <1>1, <1>2, ExchangeTypes DEF Inv, TypeOK, Modpass
<1>4. \/ a.cam = cam
      \/ /\ a.cam = [cam EXCEPT !.pw = req.target]
         /\ Authenticated(dev, cam, combo[2], password)
         /\ password = cam.pw
  BY <1>1, WriteChangesOnlyPassword DEF Modpass
<1>5. cam' = a.cam /\ faults' = faults + a.fault
  BY DEF Deliver
<1>6. CASE a.cam = cam
  BY <1>3, <1>5, <1>6 DEF PasswordRule, Inv, TypeOK
<1>7. CASE /\ a.cam = [cam EXCEPT !.pw = req.target]
           /\ Authenticated(dev, cam, combo[2], password)
           /\ password = cam.pw
  <2>1. Restricted(dev, cam) /\ req.raw \in Factory
    BY <1>7 DEF Inv, Changing
  <2>2. req.target \in Password \ Factory /\ password \in Factory
    BY <2>1, PasswordType, CandidateTypes DEF Inv, TypeOK
  <2>3. cam' \in CameraState /\ cam'.pw = req.target
    BY <1>5, <1>7, <2>2 DEF Inv, TypeOK, CameraState
  <2> QED BY <1>3, <1>5, <2>1, <2>2, <2>3 DEF PasswordRule
<1> QED BY <1>4, <1>6, <1>7

\* What Changing says of the next state, when only the camera has changed.
LEMMA ChangingKept ==
  ASSUME Inv, Changing, pc \in {"rsa", "rsaVerify", "tenc"}, Fixed, UNCHANGED <<at, cand>>,
         cam' = cam \/ password # cam'.pw
  PROVE  Changing'
<1>1. combo' = combo /\ password' = password /\ dev' = dev /\ req' = req
  BY DEF combo, password, Fixed, Nth, AuthOrder, world
<1> QED BY <1>1 DEF Changing

LEMMA RsaStep ==
  ASSUME Inv, WriteRsa
  PROVE  Inv' /\ PasswordRule
<1>1. pc = "rsa" /\ UNCHANGED <<world, probe, at, cand, mem, result>>
  BY DEF WriteRsa
<1>2. PICK a \in Modpass :
        /\ Deliver(a)
        /\ pc' = IF a.reply = "ok" THEN "rsaVerify" ELSE "tenc"
        /\ tries' = IF a.reply = "ok" THEN VerifyTries ELSE 0
  BY DEF WriteRsa
<1>3. /\ cam' \in CameraState /\ faults' \in 0..MaxFaults /\ PasswordRule
      /\ cam' = cam \/ password # cam'.pw
  BY <1>1, <1>2, WriteExchange
<1>4. pc' \in {"rsaVerify", "tenc"} /\ tries' \in Nat
  BY <1>2, ConnectAssumption
<1>5. Fixed /\ Bootstrap' /\ pc' \in Phase \ {"probe", "done"}
  BY <1>1, <1>4 DEF Fixed, Bootstrap, Phase
<1>6. Changing'
  BY <1>1, <1>3, <1>5, ChangingKept DEF Inv
<1> QED BY <1>1, <1>3, <1>4, <1>5, <1>6, StayKeepsInv

LEMMA TencStep ==
  ASSUME Inv, WriteTenc
  PROVE  Inv' /\ PasswordRule
<1>1. pc = "tenc" /\ UNCHANGED <<world, probe>>
  BY DEF WriteTenc, RecoveryFails
<1>2. PICK a \in Modpass :
        /\ Deliver(a)
        /\ \/ /\ a.reply = "ok" /\ pc' = "tencVerify" /\ tries' = VerifyTries
              /\ UNCHANGED <<at, cand, mem, result>>
           \/ a.reply # "ok" /\ tries' = 0 /\ ComboFails(a.reply)
  BY DEF WriteTenc, RecoveryFails
<1>3. cam' \in CameraState /\ faults' \in 0..MaxFaults /\ PasswordRule /\ a.reply \in Reply
  BY <1>1, <1>2, WriteExchange
<1>4. Fixed /\ tries' \in Nat /\ pc # "probe" /\ pc # "done"
  BY <1>1, <1>2, ConnectAssumption DEF Fixed
<1>5. CASE a.reply = "ok" /\ pc' = "tencVerify" /\ UNCHANGED <<at, cand, mem, result>>
  <2>1. pc' \in Phase \ {"probe", "done"} /\ Changing' /\ Bootstrap'
    BY <1>5 DEF Phase, Changing, Bootstrap
  <2> QED BY <1>3, <1>4, <1>5, <2>1, StayKeepsInv
<1>6. CASE a.reply # "ok" /\ ComboFails(a.reply)
  <2>1. a.reply = "noversion" \/ a.reply \in ErrorClass
    BY <1>3, <1>6 DEF ErrorClass
  <2>2. a.reply \in ErrorClass
    BY <1>1, <1>6, <2>1, WriteNeverNoVersion DEF Inv, Combo, Modpass
  <2>3. Moved
    BY <1>6, <2>2, ComboFailsMoves DEF Inv
  <2> QED BY <1>3, <1>4, <2>3, MovedKeepsInv
<1> QED BY <1>2, <1>3, <1>5, <1>6

LEMMA VerifyStep ==
  ASSUME Inv, NEW here \in {"rsaVerify", "tencVerify"}, VerifyChange(here)
  PROVE  Inv' /\ PasswordRule
<1>1. pc = here /\ UNCHANGED <<world, probe>> /\ pc # "probe" /\ pc # "done"
  BY DEF VerifyChange, RecoveryFails
<1>2. PICK a \in Verification :
        /\ Deliver(a)
        /\ \/ /\ Verified(a.reply) /\ pc' = "verify" /\ tries' = VerifyTries
              /\ UNCHANGED <<at, cand, mem, result>>
           \/ /\ ~Verified(a.reply) /\ tries > 1 /\ pc' = pc /\ tries' = tries - 1
              /\ UNCHANGED <<at, cand, mem, result>>
           \/ /\ ~Verified(a.reply) /\ tries = 1 /\ tries' = 0
              /\ \/ here = "rsaVerify" /\ pc' = "tenc" /\ UNCHANGED <<at, cand, mem, result>>
                 \/ here = "tencVerify" /\ ComboFails(a.reply)
  BY DEF VerifyChange, RecoveryFails
<1>3. /\ cam' = cam /\ cam' \in CameraState /\ faults' \in 0..MaxFaults
      /\ a.reply \in Reply /\ PasswordRule
  BY <1>1, <1>2, ReadExchange DEF Verification
<1>4. Fixed /\ tries' \in Nat
  BY <1>1, <1>2, ConnectAssumption DEF Fixed, Inv, TypeOK
<1>5. CASE UNCHANGED <<at, cand, mem, result>> /\ pc' \in {pc, "tenc", "verify"}
  <2>1. pc' \in Phase \ {"probe", "done"} /\ Bootstrap'
    BY <1>1, <1>5 DEF Phase, Bootstrap
  <2>2. CASE pc = "rsaVerify"
    <3>1. Changing'
      BY <1>3, <1>4, <1>5, <2>2, ChangingKept DEF Inv
    <3> QED BY <1>1, <1>3, <1>4, <1>5, <2>1, <3>1, StayKeepsInv
  <2>3. CASE pc = "tencVerify" /\ pc' \in {pc, "verify"}
    <3>1. Changing'
      BY <2>3 DEF Changing
    <3> QED BY <1>1, <1>3, <1>4, <1>5, <2>1, <3>1, StayKeepsInv
  <2>4. CASE pc = "tencVerify" /\ pc' = "tenc"
    BY <1>1, <1>2, <1>5, <2>4 DEF ComboFails, Finish
  <2> QED BY <1>1, <1>5, <2>2, <2>3, <2>4
<1>6. CASE ~Verified(a.reply) /\ ComboFails(a.reply)
  <2>1. a.reply \in ErrorClass
    BY <1>3, <1>6 DEF ErrorClass, Verified
  <2>2. Moved
    BY <1>6, <2>1, ComboFailsMoves DEF Inv
  <2> QED BY <1>1, <1>3, <1>4, <2>2, MovedKeepsInv
<1> QED BY <1>2, <1>3, <1>5, <1>6

LEMMA VerifyRecoveredStep ==
  ASSUME Inv, VerifyRecovered
  PROVE  Inv' /\ PasswordRule
<1>1. pc = "verify" /\ UNCHANGED <<world, probe>>
  BY DEF VerifyRecovered
<1>2. PICK a \in Verification :
        /\ Deliver(a)
        /\ \/ /\ Verified(a.reply) /\ tries' = 0 /\ Succeed(req.target, TRUE)
              /\ UNCHANGED <<at, cand, mem>>
           \/ /\ ~Verified(a.reply) /\ tries > 1 /\ pc' = pc /\ tries' = tries - 1
              /\ UNCHANGED <<at, cand, mem, result>>
           \/ ~Verified(a.reply) /\ tries = 1 /\ tries' = 0 /\ ComboFails(a.reply)
  BY DEF VerifyRecovered
<1>3. /\ cam' = cam /\ cam' \in CameraState /\ faults' \in 0..MaxFaults
      /\ a.reply \in Reply /\ PasswordRule
  BY <1>1, <1>2, ReadExchange DEF Verification
<1>4. Fixed /\ tries' \in Nat /\ pc # "probe" /\ pc # "done"
  <2>1. tries' = 0 \/ (tries > 1 /\ tries' = tries - 1)
    BY <1>2
  <2>2. tries \in Nat
    BY DEF Inv, TypeOK
  <2> QED BY <1>1, <2>1, <2>2 DEF Fixed
<1>5. CASE Verified(a.reply) /\ Succeed(req.target, TRUE) /\ UNCHANGED <<at, cand, mem>>
  <2>1. combo[1] \in 1..Places
    BY <1>1 DEF Inv, Combo
  <2>2. Authenticated(dev, cam, combo[2], req.target)
    BY <1>2, <1>5, <2>1, EssentialsTell DEF Verification, Verified
  <2>3. req.target \in Password /\ ~dev.sec3
    BY <2>2, CandidateTypes DEF Authenticated, Inv, TypeOK
  <2> QED BY <1>3, <1>4, <1>5, <2>2, <2>3, SucceedKeepsInv
<1>6. CASE pc' = pc /\ UNCHANGED <<at, cand, mem, result>>
  <2>1. pc' \in Phase \ {"probe", "done"} /\ Changing' /\ Bootstrap'
    BY <1>1, <1>6 DEF Phase, Changing, Bootstrap
  <2> QED BY <1>3, <1>4, <1>6, <2>1, StayKeepsInv
<1>7. CASE ~Verified(a.reply) /\ ComboFails(a.reply)
  <2>1. a.reply \in ErrorClass
    BY <1>3, <1>7 DEF ErrorClass, Verified
  <2>2. Moved
    BY <1>7, <2>1, ComboFailsMoves DEF Inv
  <2> QED BY <1>3, <1>4, <2>2, MovedKeepsInv
<1> QED BY <1>2, <1>3, <1>5, <1>6, <1>7

\* The bootstrap: only the account changes.
LEMMA BootstrapExchange ==
  ASSUME Inv, pc \in {"sec3Add", "sec3Access"}, NEW op \in {"useradd", "access"}, NEW scheme,
         NEW a \in Exchanges(combo[1], Ask(op, scheme, Sec3Password)), Deliver(a)
  PROVE  /\ cam' \in CameraState /\ faults' \in 0..MaxFaults
         /\ a.reply \in Reply \ {"noversion"} /\ PasswordRule
         /\ cam.user => cam'.user
         /\ op = "access" /\ a.reply = "ok" => cam'.access
         /\ op = "useradd" /\ a.reply = "ok" => cam'.user
<1>1. combo = probe.combo /\ combo[1] \in ApiPlaces /\ dev.sec3
  BY DEF Inv, Bootstrap, combo
<1>2. combo[1] \in 1..Places /\ kind[combo[1]] = "api"
  BY <1>1 DEF ApiPlaces
<1>3. Ask(op, scheme, Sec3Password).op = op
  BY DEF Ask
<1>4. a.reply \in Reply /\ faults + a.fault \in 0..MaxFaults
  BY <1>2, <1>3, ExchangeTypes DEF Inv, TypeOK
<1>5. a.reply # "noversion"
  BY <1>2, WriteNeverNoVersion
<1>6. /\ a.cam \in CameraState
      /\ a.cam.pw = cam.pw
      /\ cam.user => a.cam.user
      /\ op = "access" /\ a.reply = "ok" => cam.user /\ a.cam.access
      /\ op = "useradd" /\ a.reply = "ok" => a.cam.user
  BY <1>1, <1>2, AccountExchange DEF Inv, TypeOK
<1>7. cam' = a.cam /\ faults' = faults + a.fault
  BY DEF Deliver
<1> QED BY <1>4, <1>5, <1>6, <1>7 DEF PasswordRule

LEMMA BootstrapKeepsPassword ==
  ASSUME Inv, pc \in {"sec3Add", "sec3Access"}, NEW op \in {"useradd", "access"}, NEW scheme,
         NEW a \in Exchanges(combo[1], Ask(op, scheme, Sec3Password)), Deliver(a)
  PROVE  cam'.pw = cam.pw
<1>1. combo = probe.combo /\ combo[1] \in ApiPlaces /\ dev.sec3
  BY DEF Inv, Bootstrap, combo
<1>2. combo[1] \in 1..Places /\ kind[combo[1]] = "api"
  BY <1>1 DEF ApiPlaces
<1>3. a.cam.pw = cam.pw
  BY <1>1, <1>2, AccountExchange DEF Inv, TypeOK
<1> QED BY <1>3 DEF Deliver

LEMMA FinishKeepsInv ==
  ASSUME Inv, pc # "probe", pc # "done", Fixed, UNCHANGED <<at, cand, mem>>,
         NEW e \in ErrorClass, Finish(e),
         cam' \in CameraState, faults' \in 0..MaxFaults, tries' \in Nat
  PROVE  Inv'
<1>1. Moved
  BY FinishResponse DEF Moved, Finish, Inv, TypeOK
<1> QED BY <1>1, MovedKeepsInv

\* A step of the bootstrap to its next phase.
LEMMA BootstrapGoesOn ==
  ASSUME Inv, pc \in {"sec3Add", "sec3Home", "sec3Access"}, Fixed,
         UNCHANGED <<at, cand, mem, result>>,
         pc' \in {"sec3Home", "sec3Access", "sec3Read"},
         cam' \in CameraState, faults' \in 0..MaxFaults, tries' \in Nat,
         pc' \in {"sec3Access", "sec3Read"} => cam'.user,
         pc' = "sec3Read" => cam'.access
  PROVE  Inv'
<1>1. pc' \in Phase \ {"probe", "done"} /\ Changing'
  BY DEF Phase, Changing
<1>2. Bootstrap'
  BY DEF Inv, Bootstrap, Fixed, world, ApiPlaces
<1> QED BY <1>1, <1>2, StayKeepsInv

LEMMA AddUserStep ==
  ASSUME Inv, Sec3AddUser
  PROVE  Inv' /\ PasswordRule
<1>1. pc = "sec3Add" /\ UNCHANGED <<world, probe, at, cand, tries, mem>>
  BY DEF Sec3AddUser, BootstrapFails
<1>2. PICK a \in Exchanges(combo[1], Ask("useradd", "none", Sec3Password)) :
        /\ Deliver(a)
        /\ \/ a.reply = "ok" /\ pc' = "sec3Home" /\ result' = result
           \/ a.reply # "ok" /\ Finish(a.reply)
  BY Zenon DEF Sec3AddUser, BootstrapFails
<1>3. /\ cam' \in CameraState /\ faults' \in 0..MaxFaults
      /\ a.reply \in Reply \ {"noversion"} /\ PasswordRule
  BY <1>1, <1>2, BootstrapExchange
<1>4. Fixed /\ tries' \in Nat
  BY <1>1 DEF Fixed, Inv, TypeOK
<1>5. CASE a.reply = "ok" /\ pc' = "sec3Home" /\ result' = result
  BY <1>1, <1>3, <1>4, <1>5, BootstrapGoesOn
<1>6. CASE a.reply # "ok" /\ Finish(a.reply)
  <2>1. a.reply \in ErrorClass
    BY <1>3, <1>6 DEF ErrorClass
  <2> QED BY <1>1, <1>3, <1>4, <1>6, <2>1, FinishKeepsInv
<1> QED BY <1>2, <1>3, <1>5, <1>6

\* A read with the operating account succeeds when there is one.
LEMMA AccountTells ==
  ASSUME Inv, pc = "sec3Home",
         NEW a \in Exchanges(combo[1], Ask("account", "digest", Sec3Password)),
         a.reply = "ok"
  PROVE  cam.user
<1> DEFINE r == Ask("account", "digest", Sec3Password)
<1>1. combo = probe.combo /\ combo[1] \in ApiPlaces /\ dev.sec3
  BY DEF Inv, Bootstrap, combo
<1>2. kind[combo[1]] = "api"
  BY <1>1 DEF ApiPlaces
<1>3. \A e, c : Answer(e, c).reply = e /\ Answer(e, c).cam = c
  BY DEF Answer
<1>4. \A c : Answers(dev, c, r) = {Answer(IF c.user THEN "ok" ELSE "auth", c)}
  BY DEF Answers, AccountAnswers, Ask
<1>5. \A c : Served(dev, c, kind[combo[1]], r) = Answers(dev, c, r)
  BY <1>1, <1>2 DEF Served
<1>6. \A b \in Served(dev, cam, kind[combo[1]], r) : b.cam = cam /\ (b.reply = "ok" => cam.user)
  BY <1>3, <1>4, <1>5
<1>7. \A e \in Failures(r) : e # "ok"
  BY DEF Failures
<1>8. \A b \in Disturbed(dev, cam, kind[combo[1]], r) : b.reply = "ok" => cam.user
  BY <1>3, <1>6, <1>7 DEF Disturbed
<1> QED BY <1>6, <1>8 DEF Exchanges

LEMMA HomeStep ==
  ASSUME Inv, Sec3Home
  PROVE  Inv' /\ PasswordRule
<1>1. pc = "sec3Home" /\ UNCHANGED <<world, probe, at, cand, mem>>
  BY DEF Sec3Home, BootstrapFails
<1>2. PICK a \in Exchanges(combo[1], Ask("account", "digest", Sec3Password)) :
        /\ Deliver(a)
        /\ \/ a.reply = "ok" /\ pc' = "sec3Access" /\ UNCHANGED <<tries, result>>
           \/ a.reply # "ok" /\ tries > 1 /\ tries' = tries - 1 /\ UNCHANGED <<pc, result>>
           \/ a.reply # "ok" /\ tries = 1 /\ tries' = 0 /\ Finish("auth")
  BY Zenon DEF Sec3Home, BootstrapFails
<1>3. cam' = cam /\ cam' \in CameraState /\ faults' \in 0..MaxFaults /\ PasswordRule
  BY <1>1, <1>2, ReadExchange
<1>4. Fixed /\ tries' \in Nat
  BY <1>1, <1>2 DEF Fixed, Inv, TypeOK
<1>5. CASE a.reply = "ok" /\ pc' = "sec3Access" /\ UNCHANGED <<tries, result>>
  <2>1. cam.user
    BY <1>1, <1>2, <1>5, AccountTells
  <2> QED BY <1>1, <1>3, <1>4, <1>5, <2>1, BootstrapGoesOn
<1>6. CASE UNCHANGED <<pc, result>>
  BY <1>1, <1>3, <1>4, <1>6, BootstrapGoesOn
<1>7. CASE Finish("auth")
  <2>1. "auth" \in ErrorClass
    BY DEF ErrorClass, Reply
  <2> QED BY <1>1, <1>3, <1>4, <1>7, <2>1, FinishKeepsInv
<1> QED BY <1>2, <1>3, <1>5, <1>6, <1>7

LEMMA AccessStep ==
  ASSUME Inv, Sec3WriteAccess
  PROVE  Inv' /\ PasswordRule
<1>1. pc = "sec3Access" /\ UNCHANGED <<world, probe, at, cand, tries, mem>>
  BY DEF Sec3WriteAccess, BootstrapFails
<1>2. PICK a \in Exchanges(combo[1], Ask("access", "digest", Sec3Password)) :
        /\ Deliver(a)
        /\ \/ a.reply = "ok" /\ pc' = "sec3Read" /\ result' = result
           \/ a.reply # "ok" /\ Finish(a.reply)
  BY Zenon DEF Sec3WriteAccess, BootstrapFails
<1>3. /\ cam' \in CameraState /\ faults' \in 0..MaxFaults
      /\ a.reply \in Reply \ {"noversion"} /\ PasswordRule
      /\ cam.user => cam'.user
      /\ a.reply = "ok" => cam'.access
  BY <1>1, <1>2, BootstrapExchange
<1>4. Fixed /\ tries' \in Nat /\ cam.user
  BY <1>1 DEF Fixed, Inv, TypeOK, Bootstrap
<1>5. CASE a.reply = "ok" /\ pc' = "sec3Read" /\ result' = result
  BY <1>1, <1>3, <1>4, <1>5, BootstrapGoesOn
<1>6. CASE a.reply # "ok" /\ Finish(a.reply)
  <2>1. a.reply \in ErrorClass
    BY <1>3, <1>6 DEF ErrorClass
  <2> QED BY <1>1, <1>3, <1>4, <1>6, <2>1, FinishKeepsInv
<1> QED BY <1>2, <1>3, <1>5, <1>6

LEMMA ReadEssentialsStep ==
  ASSUME Inv, Sec3ReadEssentials
  PROVE  Inv' /\ PasswordRule
<1>1. pc = "sec3Read" /\ UNCHANGED <<world, probe, at, cand, tries, mem>>
  BY DEF Sec3ReadEssentials, BootstrapFails, BootstrapEnds
<1>2. PICK a \in Exchanges(combo[1], Ask("account", "digest", Sec3Password)) :
        /\ Deliver(a)
        /\ \/ a.reply = "ok" /\ Succeed(Sec3Password, TRUE)
           \/ a.reply # "ok" /\ Finish("auth")
  BY Zenon DEF Sec3ReadEssentials, BootstrapFails, BootstrapEnds
<1>3. cam' = cam /\ cam' \in CameraState /\ faults' \in 0..MaxFaults /\ PasswordRule
  BY <1>1, <1>2, ReadExchange
<1>4. Fixed /\ tries' \in Nat /\ cam.user /\ cam.access
  BY <1>1 DEF Fixed, Inv, TypeOK, Bootstrap
<1>5. CASE Succeed(Sec3Password, TRUE)
  <2>1. Sec3Password \in Password /\ dev.sec3
    BY <1>1 DEF Sec3Password, Password, Inv, Bootstrap
  <2> QED BY <1>1, <1>3, <1>4, <1>5, <2>1, SucceedKeepsInv
<1>6. CASE Finish("auth")
  <2>1. "auth" \in ErrorClass
    BY DEF ErrorClass, Reply
  <2> QED BY <1>1, <1>3, <1>4, <1>6, <2>1, FinishKeepsInv
<1> QED BY <1>2, <1>3, <1>5, <1>6

-----------------------------------------------------------------------------
\* The invariant holds

LEMMA InitInv == Init => Inv
<1> SUFFICES ASSUME Init PROVE Inv
  OBVIOUS
<1>1. /\ pc = "probe" /\ at = 0 /\ result = Pending /\ cand = 1 /\ req \in Request
      /\ dev \in Camera /\ kind \in [1..Places -> PlaceKind] /\ tries = 0 /\ faults = 0
      /\ probe = [combo |-> NoCombo, missed |-> FALSE] /\ mem = NoErrors
      /\ cam \in CameraState /\ first \in Password
  BY DEF Init, CameraState
<1>2. cand \in 1..Len(Candidates(req.raw))
  BY <1>1, CandidateTypes
<1>3. result \in Response /\ mem \in Memory /\ pc \in Phase
  BY <1>1 DEF Pending, Response, NoErrors, Memory, ErrorClass, Phase
<1>4. TypeOK
  BY <1>1, <1>2, <1>3, ConnectAssumption DEF TypeOK
<1> QED BY <1>1, <1>4 DEF Inv, Changing, Bootstrap, SuccessOpensCamera, Pending

LEMMA StepInv == Inv /\ [Next]_vars => Inv' /\ (PasswordRule \/ UNCHANGED vars)
<1> SUFFICES ASSUME Inv, [Next]_vars PROVE Inv' /\ (PasswordRule \/ UNCHANGED vars)
  OBVIOUS
<1>1. CASE Next
  BY <1>1, ProbeStep, TestKeyStep, EssentialsStep, PublicKeyStep, RsaStep, TencStep,
     VerifyStep, VerifyRecoveredStep, AddUserStep, HomeStep, AccessStep, ReadEssentialsStep
     DEF Next
<1>2. CASE UNCHANGED vars
  <2>1. combo' = combo /\ password' = password
    BY <1>2 DEF vars, combo, password, Nth, AuthOrder
  <2>2. TypeOK' /\ Bootstrap' /\ SuccessOpensCamera' /\ Changing'
    BY <1>2, <2>1 DEF vars, Inv, TypeOK, Bootstrap, ApiPlaces, SuccessOpensCamera, Changing
  <2> QED BY <1>2, <2>1, <2>2 DEF vars, Inv
<1> QED BY <1>1, <1>2

LEMMA SpecInv == Spec => []Inv
<1>1. Inv /\ [Next]_vars => Inv'
  BY StepInv
<1> QED BY InitInv, <1>1, PTL DEF Spec

-----------------------------------------------------------------------------
\* On a network that loses nothing

LEMMA WorldStays == Next => UNCHANGED world
BY DEF Next, ProbeFinds, ProbeFindsNothing, ReadTestKey, ReadEssentials, ReadPublicKey,
       WriteRsa, WriteTenc, VerifyChange, VerifyRecovered,
       Sec3AddUser, Sec3Home, Sec3WriteAccess, Sec3ReadEssentials

\* An exchange that cost no fault is one the network left alone.
LEMMA CleanExchange ==
  ASSUME Inv, NEW place, NEW r, NEW a \in Exchanges(place, r), a.fault = 0
  PROVE  \E b \in Served(dev, cam, kind[place], r) : a.reply = b.reply /\ a.cam = b.cam
BY DEF Exchanges

LEMMA DeliverCountsFaults ==
  ASSUME Inv, NEW place, NEW r, NEW a \in Exchanges(place, r), Deliver(a)
  PROVE  \/ faults' = faults /\ a.fault = 0
         \/ faults' = faults + 1 /\ a.fault = 1
<1>1. a.fault \in {0, 1}
  BY DEF Exchanges
<1>2. faults \in Nat
  BY ConnectAssumption DEF Inv, TypeOK
<1> QED BY <1>1, <1>2 DEF Deliver

\* The camera works at the combination in use, and only there does it listen
\* to a password.
Reached(c) ==
  /\ kind[c[1]] = "api"
  /\ ~dev.sec3
  /\ dev.scheme = c[2] \/ (dev.scheme = "none" /\ c[2] # "digest")

\* At such a combination the camera itself answers.
LEMMA ReachedAnswers ==
  ASSUME dev \in Camera, NEW c, Reached(c), NEW op, NEW pw, NEW k
  PROVE  Served(dev, k, kind[c[1]], Ask(op, c[2], pw)) = Answers(dev, k, Ask(op, c[2], pw))
BY DEF Reached, Served, Ask, Camera

\* A write that was applied came from such a combination.
LEMMA AppliedIsReached ==
  ASSUME dev \in Camera, kind[combo[1]] \in PlaceKind,
         NEW pw, NEW b \in Served(dev, cam, kind[combo[1]], Ask("modpass", combo[2], pw)),
         b.cam # cam
  PROVE  /\ Reached(combo) /\ b.reply = "ok"
         /\ b.cam = [cam EXCEPT !.pw = req.target]
         /\ Authenticated(dev, cam, combo[2], pw) /\ pw = cam.pw
<1> DEFINE r == Ask("modpass", combo[2], pw)
<1>1. r.op = "modpass" /\ r.scheme = combo[2] /\ r.pw = pw /\ r.new = req.target
  BY DEF Ask
<1>2. \A e : Answer(e, cam).cam = cam
  BY DEF Answer
<1> HIDE DEF r
<1>3. kind[combo[1]] = "api"
  <2>1. kind[combo[1]] # "absent"
    BY <1>2 DEF Served, r
  <2>2. kind[combo[1]] # "other"
    BY <1>2 DEF Served, r
  <2> QED BY <2>1, <2>2 DEF PlaceKind
<1>4. ~(~dev.sec3 /\ combo[2] = "digest" /\ dev.scheme \in {"basic", "none"})
  BY <1>1, <1>2, <1>3 DEF Served, r
<1>5. b \in Answers(dev, cam, r)
  BY <1>1, <1>3, <1>4 DEF Served, r
<1>6. b \in ModpassAnswers(dev, cam, r)
  BY <1>1, <1>5 DEF Answers
<1>7. Authenticated(dev, cam, combo[2], pw) /\ pw = cam.pw /\ b = Answer("ok", [cam EXCEPT !.pw = req.target])
  BY <1>1, <1>2, <1>6 DEF ModpassAnswers
<1>8. Reached(combo)
  BY <1>3, <1>4, <1>7 DEF Reached, Authenticated, Camera
<1> QED BY <1>7, <1>8 DEF Answer

\* The camera has taken the new password and answers where it is verified.
Changed ==
  /\ Reached(combo)
  /\ dev.firmware = "restricted"
  /\ cam.pw = req.target

\* Without a fault the password is the one from before the call, or the change
\* went through and only its verification is left.
Kept ==
  faults = 0 =>
    \/ cam.pw = first
    \/ Changed /\ pc \in {"rsaVerify", "tencVerify", "verify"}
    \/ pc = "done" /\ result.ok

\* The verification of a change that went through succeeds.
LEMMA ChangedVerifies ==
  ASSUME Inv, Changed, NEW a \in Verification, a.fault = 0
  PROVE  Verified(a.reply)
<1> DEFINE r == Ask("verify", combo[2], req.target)
<1>1. PICK b \in Served(dev, cam, kind[combo[1]], r) : a.reply = b.reply /\ a.cam = b.cam
  BY CleanExchange DEF Verification
<1>2. b \in Answers(dev, cam, r)
  BY <1>1, ReachedAnswers DEF Changed, Inv, TypeOK
<1>3. r.op = "verify" /\ r.scheme = combo[2] /\ r.pw = cam.pw
  BY DEF Ask, Changed
<1>4. cam.pw \notin Factory
  BY DEF Inv, TypeOK, Request, Changed
<1>5. Authenticated(dev, cam, r.scheme, r.pw) /\ ~Restricted(dev, cam) /\ dev.firmware # "blank"
  BY <1>3, <1>4 DEF Authenticated, Restricted, Changed, Reached
<1> HIDE DEF r
<1>6. b = Answer("ok", cam)
  BY <1>2, <1>3, <1>5 DEF Answers, EssentialAnswers
<1> QED BY <1>1, <1>6 DEF Answer, Verified

\* A step that has nothing to do with a change that went through.
LEMMA OtherStepKeeps ==
  ASSUME Kept, pc \notin {"rsaVerify", "tencVerify", "verify", "done"},
         faults' = 0 => faults = 0, cam'.pw = cam.pw, UNCHANGED world
  PROVE  Kept'
BY DEF Kept, world

LEMMA WriteKeeps ==
  ASSUME Inv, Kept, pc \in {"rsa", "tenc"}, NEW a \in Modpass, Deliver(a), UNCHANGED <<world, probe>>,
         a.reply = "ok" => UNCHANGED at /\ pc' \in {"rsaVerify", "tencVerify"}
  PROVE  Kept'
<1> SUFFICES ASSUME faults' = 0, cam'.pw # first'
             PROVE  Changed' /\ pc' \in {"rsaVerify", "tencVerify"}
  BY DEF Kept
<1>1. a.fault = 0 /\ faults = 0
  <2>1. faults \in Nat
    BY ConnectAssumption DEF Inv, TypeOK
  <2> QED BY <2>1, DeliverCountsFaults DEF Modpass
<1>2. cam.pw = first /\ cam' = a.cam /\ cam' # cam
  BY <1>1 DEF Kept, Deliver, world
<1>3. PICK b \in Served(dev, cam, kind[combo[1]], Ask("modpass", combo[2], password)) :
        a.reply = b.reply /\ a.cam = b.cam
  BY <1>1, CleanExchange DEF Modpass
<1>4. dev \in Camera /\ kind[combo[1]] \in PlaceKind
  BY DEF Inv, TypeOK, Combo
<1>5. /\ Reached(combo) /\ b.reply = "ok"
      /\ b.cam = [cam EXCEPT !.pw = req.target]
      /\ Authenticated(dev, cam, combo[2], password) /\ password = cam.pw
  BY <1>2, <1>3, <1>4, AppliedIsReached
<1>6. dev.firmware = "restricted"
  BY <1>5 DEF Inv, Changing, Restricted
<1>7. combo' = combo /\ req' = req /\ dev' = dev /\ kind' = kind
  BY <1>3, <1>5 DEF combo, Nth, AuthOrder, world
<1>8. cam'.pw = req.target
  BY <1>2, <1>3, <1>5 DEF Inv, TypeOK, CameraState
<1> QED BY <1>3, <1>5, <1>6, <1>7, <1>8 DEF Changed, Reached

LEMMA VerifyKeeps ==
  ASSUME Inv, Kept, pc \in {"rsaVerify", "tencVerify", "verify"}, NEW a \in Verification, Deliver(a),
         UNCHANGED <<world, probe>>,
         Verified(a.reply) => \/ pc' = "verify" /\ UNCHANGED at
                              \/ pc' = "done" /\ result'.ok
  PROVE  Kept'
<1> SUFFICES ASSUME faults' = 0, cam'.pw # first'
             PROVE  (Changed' /\ pc' = "verify") \/ (pc' = "done" /\ result'.ok)
  BY DEF Kept
<1>1. a.fault = 0 /\ faults = 0
  <2>1. faults \in Nat
    BY ConnectAssumption DEF Inv, TypeOK
  <2> QED BY <2>1, DeliverCountsFaults DEF Verification
<1>2. cam' = cam
  BY ReadExchange DEF Verification
<1>3. Changed
  BY <1>1, <1>2 DEF Kept, world
<1>4. Verified(a.reply)
  BY <1>1, <1>3, ChangedVerifies
<1>5. ASSUME UNCHANGED at PROVE Changed'
  <2>1. combo' = combo
    BY <1>5 DEF combo, Nth, AuthOrder
  <2> QED BY <2>1, <1>2, <1>3 DEF Changed, Reached, world
<1> QED BY <1>4, <1>5

LEMMA StepKeeps == Inv /\ Kept /\ [Next]_vars => Kept'
<1> SUFFICES ASSUME Inv, Kept, [Next]_vars PROVE Kept'
  OBVIOUS
<1>0. faults \in Nat
  BY ConnectAssumption DEF Inv, TypeOK
<1>1. ASSUME Next PROVE UNCHANGED world
  BY <1>1, WorldStays
<1>2. ASSUME NEW place, NEW r, NEW a \in Exchanges(place, r), Deliver(a)
      PROVE  faults' = 0 => faults = 0
  BY <1>0, <1>2, DeliverCountsFaults
<1>3. CASE ProbeFinds \/ ProbeFindsNothing
  <2>1. pc = "probe" /\ cam' = cam /\ (faults' = faults \/ faults' = faults + 1) /\ UNCHANGED world
    BY <1>3 DEF ProbeFinds, ProbeFindsNothing
  <2> QED BY <1>0, <2>1, OtherStepKeeps
<1>4. CASE ReadTestKey
  <2>1. PICK a \in Exchanges(combo[1], Ask("test", combo[2], password)) : Deliver(a)
    BY <1>4 DEF ReadTestKey
  <2>2. pc = "test" /\ UNCHANGED world
    BY <1>4 DEF ReadTestKey
  <2>3. cam' = cam
    BY <2>1, <2>2, ReadExchange
  <2> QED BY <1>2, <2>1, <2>2, <2>3, OtherStepKeeps
<1>5. CASE ReadEssentials
  <2>1. PICK a \in Exchanges(combo[1], Ask("essentials", combo[2], password)) : Deliver(a)
    BY <1>5 DEF ReadEssentials
  <2>2. pc = "essentials" /\ UNCHANGED world
    BY <1>5 DEF ReadEssentials
  <2>3. cam' = cam
    BY <2>1, <2>2, ReadExchange
  <2> QED BY <1>2, <2>1, <2>2, <2>3, OtherStepKeeps
<1>6. CASE ReadPublicKey
  BY <1>6, OtherStepKeeps DEF ReadPublicKey
<1>7. CASE WriteRsa
  BY <1>7, WriteKeeps DEF WriteRsa
<1>8. CASE WriteTenc
  BY <1>8, WriteKeeps DEF WriteTenc
<1>9. ASSUME NEW here \in {"rsaVerify", "tencVerify"}, VerifyChange(here) PROVE Kept'
  BY <1>9, VerifyKeeps DEF VerifyChange
<1>10. CASE VerifyRecovered
  <2>1. \A pw, recovered : Succeed(pw, recovered) => pc' = "done" /\ result'.ok
    BY DEF Succeed
  <2> QED BY <1>10, <2>1, VerifyKeeps DEF VerifyRecovered
<1>11. CASE Sec3AddUser
  <2>1. PICK a \in Exchanges(combo[1], Ask("useradd", "none", Sec3Password)) : Deliver(a)
    BY <1>11 DEF Sec3AddUser
  <2>2. pc = "sec3Add" /\ UNCHANGED world
    BY <1>11 DEF Sec3AddUser
  <2>3. cam'.pw = cam.pw
    BY <2>1, <2>2, BootstrapKeepsPassword
  <2> QED BY <1>2, <2>1, <2>2, <2>3, OtherStepKeeps
<1>12. CASE Sec3WriteAccess
  <2>1. PICK a \in Exchanges(combo[1], Ask("access", "digest", Sec3Password)) : Deliver(a)
    BY <1>12 DEF Sec3WriteAccess
  <2>2. pc = "sec3Access" /\ UNCHANGED world
    BY <1>12 DEF Sec3WriteAccess
  <2>3. cam'.pw = cam.pw
    BY <2>1, <2>2, BootstrapKeepsPassword
  <2> QED BY <1>2, <2>1, <2>2, <2>3, OtherStepKeeps
<1>13. CASE Sec3Home \/ Sec3ReadEssentials
  <2>1. PICK a \in Exchanges(combo[1], Ask("account", "digest", Sec3Password)) : Deliver(a)
    BY <1>13 DEF Sec3Home, Sec3ReadEssentials
  <2>2. pc \in {"sec3Home", "sec3Read"} /\ UNCHANGED world
    BY <1>13 DEF Sec3Home, Sec3ReadEssentials
  <2>3. cam' = cam
    BY <2>1, <2>2, ReadExchange
  <2> QED BY <1>2, <2>1, <2>2, <2>3, OtherStepKeeps
<1>14. CASE UNCHANGED vars
  <2>1. combo' = combo
    BY <1>14 DEF vars, combo, Nth, AuthOrder
  <2> QED BY <1>14, <2>1 DEF vars, Kept, Changed, Reached
<1> QED BY <1>3, <1>4, <1>5, <1>6, <1>7, <1>8, <1>9, <1>10, <1>11, <1>12, <1>13, <1>14 DEF Next

-----------------------------------------------------------------------------
\* The fallback after a probe that missed the camera

\* The cameras FoundAfterMissedProbe is about, asked by an operator who typed
\* their password, and a call in which only the probe was disturbed.
Findable ==
  /\ ApiPlaces # {} /\ dev.firmware = "plain" /\ ~dev.sec3
  /\ dev.scheme = "none" \/ (dev.scheme = "digest" /\ ~dev.testPublic)
  /\ \E i \in 1..Len(Candidates(req.raw)) : Candidates(req.raw)[i] = first

Undisturbed == faults = (IF probe.missed THEN 1 ELSE 0)

\* The password the camera wants, where it wants one.
Wanted(pw) == dev.scheme = "none" \/ pw = first

\* What the fallback has behind it holds no combination that works; where it
\* stands, the right password is still to come.
Search ==
  /\ pc \in {"test", "essentials"} \/ (pc = "done" /\ result.ok)
  /\ IF probe.combo # NoCombo THEN at = 0 /\ Reached(probe.combo) ELSE at # 0
  /\ \A j \in 1..(3 * Places) : j < at => ~Reached(Nth(j))
  /\ Reached(combo) =>
       \A k \in 1..Len(Candidates(req.raw)) : k < cand => ~Wanted(Candidates(req.raw)[k])
  /\ pc = "essentials" => Reached(combo) /\ Wanted(password)

Found ==
  /\ dev.firmware = "plain" => cam.pw = first
  /\ IF pc = "probe" THEN cand = 1 ELSE faults >= IF probe.missed THEN 1 ELSE 0
  /\ pc # "probe" /\ Findable /\ Undisturbed => Search

\* The camera answers somewhere on the fallback's way.
LEMMA SomewhereReached ==
  ASSUME TypeOK, Findable, probe.combo = NoCombo
  PROVE  \E j \in 1..(3 * Places) : Reached(Nth(j))
<1>1. PICK p \in 1..Places : kind[p] = "api"
  BY DEF Findable, ApiPlaces
<1>2. AuthOrder = <<"digest", "basic", "none">>
  BY DEF AuthOrder, NoCombo
<1>3. p \in Nat /\ p >= 1 /\ p <= Places /\ Places \in Nat
  BY ConnectAssumption
<1>4. CASE dev.scheme = "digest"
  <2>1. 3 * p - 2 \in 1..(3 * Places)
    BY <1>3
  <2>2. ((3 * p - 2 - 1) \div 3) + 1 = p /\ ((3 * p - 2 - 1) % 3) + 1 = 1
    BY <1>3
  <2>3. Nth(3 * p - 2) = <<p, "digest">>
    BY <1>2, <2>2 DEF Nth
  <2>4. Reached(Nth(3 * p - 2))
    BY <1>1, <1>4, <2>3 DEF Reached, Findable
  <2> QED BY <2>1, <2>4
<1>5. CASE dev.scheme = "none"
  <2>1. 3 * p \in 1..(3 * Places)
    BY <1>3
  <2>2. ((3 * p - 1) \div 3) + 1 = p /\ ((3 * p - 1) % 3) + 1 = 3
    BY <1>3
  <2>3. Nth(3 * p) = <<p, "none">>
    BY <1>2, <2>2 DEF Nth
  <2>4. Reached(Nth(3 * p))
    BY <1>1, <1>5, <2>3 DEF Reached, Findable
  <2> QED BY <2>1, <2>4
<1> QED BY <1>4, <1>5 DEF Findable

\* The scheme the probe reads from a findable camera is one that works.
LEMMA GuessReached ==
  ASSUME dev \in Camera, Findable, NEW p \in ApiPlaces
  PROVE  Reached(<<p, Guess>>)
<1>1. dev.scheme = "none" => dev.testPublic
  BY DEF Camera
<1> QED BY <1>1 DEF Reached, Findable, Guess, ApiPlaces

\* What the first request tells an undisturbed call about its combination.
LEMMA TestTells ==
  ASSUME Inv, Findable, cam.pw = first, pc # "probe",
         NEW a \in Exchanges(combo[1], Ask("test", combo[2], password)), a.fault = 0
  PROVE  /\ Reached(combo) => IF Wanted(password) THEN a.reply = "ok" ELSE a.reply = "auth"
         /\ ~Reached(combo) => a.reply \in {"transport", "auth"}
<1> DEFINE r == Ask("test", combo[2], password)
<1>1. PICK b \in Served(dev, cam, kind[combo[1]], r) : a.reply = b.reply /\ a.cam = b.cam
  BY CleanExchange
<1>2. r.op = "test" /\ r.scheme = combo[2] /\ r.pw = password
  BY DEF Ask
<1>3. dev \in Camera /\ kind[combo[1]] \in PlaceKind /\ combo[2] \in Scheme
  BY DEF Inv, TypeOK, Combo
<1>4. dev.scheme = "none" => dev.testPublic
  BY <1>3 DEF Camera
<1>5. \A e : Answer(e, cam).reply = e
  BY DEF Answer
<1>6. Answers(dev, cam, r) = {Answer(IF dev.testPublic \/ Authenticated(dev, cam, combo[2], password)
                                     THEN "ok" ELSE "auth", cam)}
  BY <1>2 DEF Answers, TestAnswers
<1>7. ASSUME Reached(combo)
      PROVE  IF Wanted(password) THEN a.reply = "ok" ELSE a.reply = "auth"
  <2>1. b \in Answers(dev, cam, r)
    BY <1>1, <1>3, <1>7, ReachedAnswers
  <2>2. a.reply = IF dev.testPublic \/ Authenticated(dev, cam, combo[2], password)
                  THEN "ok" ELSE "auth"
    BY <1>1, <1>5, <1>6, <2>1
  <2>3. (dev.testPublic \/ Authenticated(dev, cam, combo[2], password)) <=> Wanted(password)
    BY <1>3, <1>4, <1>7 DEF Authenticated, Wanted, Reached, Findable
  <2> QED BY <2>2, <2>3
<1>8. ASSUME ~Reached(combo) PROVE a.reply \in {"transport", "auth"}
  <2>1. CASE kind[combo[1]] = "absent"
    <3>1. PICK e \in Failures(r) : b = Answer(e, cam)
      BY <1>1, <2>1 DEF Served
    <3>2. e \in {"transport", "auth"}
      BY DEF Failures
    <3> QED BY <1>1, <1>5, <3>1, <3>2
  <2>2. CASE kind[combo[1]] = "other"
    BY <1>1, <1>5, <2>2 DEF Served
  <2>3. CASE kind[combo[1]] = "api"
    <3>1. ~dev.sec3 /\ dev.scheme # "basic"
      BY DEF Findable
    <3>2. CASE combo[2] = "digest" /\ dev.scheme = "none"
      <4>1. Served(dev, cam, kind[combo[1]], r) = {Answer("auth", cam)}
        BY <1>2, <2>3, <3>1, <3>2 DEF Served
      <4> QED BY <1>1, <1>5, <4>1
    <3>3. CASE ~(combo[2] = "digest" /\ dev.scheme = "none")
      <4>1. Served(dev, cam, kind[combo[1]], r) = Answers(dev, cam, r)
        BY <1>2, <2>3, <3>1, <3>3 DEF Served
      <4>2. dev.scheme # "none" /\ dev.scheme # combo[2] /\ ~dev.testPublic
        BY <1>3, <1>8, <2>3, <3>1, <3>3 DEF Reached, Findable
      <4>3. ~Authenticated(dev, cam, combo[2], password)
        BY <4>2 DEF Authenticated
      <4> QED BY <1>1, <1>5, <1>6, <4>1, <4>2, <4>3
    <3> QED BY <3>2, <3>3
  <2> QED BY <1>3, <2>1, <2>2, <2>3 DEF PlaceKind
<1> QED BY <1>7, <1>8

\* ... and the second.
LEMMA EssentialsComplete ==
  ASSUME Inv, Findable, cam.pw = first, pc # "probe", Reached(combo), Wanted(password),
         NEW a \in Exchanges(combo[1], Ask("essentials", combo[2], password)), a.fault = 0
  PROVE  a.reply = "ok"
<1> DEFINE r == Ask("essentials", combo[2], password)
<1>1. PICK b \in Served(dev, cam, kind[combo[1]], r) : a.reply = b.reply /\ a.cam = b.cam
  BY CleanExchange
<1>2. r.op = "essentials" /\ r.scheme = combo[2] /\ r.pw = password
  BY DEF Ask
<1>3. b \in Answers(dev, cam, r)
  BY <1>1, ReachedAnswers DEF Inv, TypeOK
<1>4. Authenticated(dev, cam, r.scheme, r.pw) /\ ~Restricted(dev, cam) /\ dev.firmware # "blank"
  BY <1>2 DEF Authenticated, Restricted, Reached, Wanted, Findable
<1> HIDE DEF r
<1>5. b = Answer("ok", cam)
  BY <1>2, <1>3, <1>4 DEF Answers, EssentialAnswers
<1> QED BY <1>1, <1>5 DEF Answer

\* What a step keeps while the search's place and the world stay.
LEMMA PlaceStays ==
  ASSUME UNCHANGED <<world, probe>>
  PROVE  /\ \A c : Reached(c)' <=> Reached(c)
         /\ \A j : Nth(j)' = Nth(j)
         /\ \A pw : Wanted(pw)' <=> Wanted(pw)
         /\ Findable' <=> Findable
         /\ at' = at => combo' = combo
<1>1. AuthOrder' = AuthOrder
  BY DEF AuthOrder
<1>2. \A j : Nth(j)' = Nth(j)
  BY <1>1 DEF Nth
<1>3. at' = at => combo' = combo
  BY <1>2 DEF combo, Nth
<1>4. \A c : Reached(c)' <=> Reached(c)
  BY DEF Reached, world
<1>5. \A pw : Wanted(pw)' <=> Wanted(pw)
  BY DEF Wanted, world
<1>6. ApiPlaces' = ApiPlaces
  BY DEF ApiPlaces, world
<1>7. Findable' <=> Findable
  BY <1>6 DEF Findable, world
<1> QED BY <1>2, <1>3, <1>4, <1>5, <1>7

LEMMA NthPlace ==
  ASSUME NEW i \in Nat
  PROVE  Nth(i)[1] = ((i - 1) \div 3) + 1
<1> DEFINE place == ((i - 1) \div 3) + 1
           scheme == AuthOrder[((i - 1) % 3) + 1]
<1>1. Nth(i) = <<place, scheme>>
  BY Zenon DEF Nth
<1> HIDE DEF place, scheme
<1>2. Nth(i)[1] = place
  BY <1>1
<1> QED BY <1>2 DEF place

\* A combination that does not work leads to the next one, and never ends the
\* call before the one that works.
LEMMA SearchGoesOn ==
  ASSUME Inv, Findable, Search, pc = "test", ~Reached(combo),
         NEW e, ComboFails(e), UNCHANGED <<world, probe>>
  PROVE  Search'
<1>1. probe.combo = NoCombo /\ at # 0 /\ combo = Nth(at) /\ at \in 1..(3 * Places)
  BY ConnectAssumption DEF Search, combo, Inv, TypeOK
<1>2. Following(at) = at + 1
  <2>1. Nth(at + 1)[1] = ((at + 1 - 1) \div 3) + 1
    BY <1>1, NthPlace
  <2>2. Nth(at + 1)[1] # 0
    BY <1>1, <2>1, ConnectAssumption
  <2> QED BY <1>1, <2>2 DEF Following, NoCombo
<1>3. \A j \in 1..(3 * Places) : j < at + 1 => ~Reached(Nth(j))
  <2>1. \A j \in 1..(3 * Places) : j < at + 1 => j < at \/ j = at
    BY <1>1, ConnectAssumption
  <2> QED BY <1>1, <2>1 DEF Search
<1>4. at + 1 <= 3 * Places
  <2>1. PICK j \in 1..(3 * Places) : Reached(Nth(j))
    BY <1>1, SomewhereReached DEF Inv
  <2>2. ~(j < at + 1)
    BY <1>3, <2>1
  <2> QED BY <1>1, <2>2, ConnectAssumption
<1>5. ~IsFinal(e)
  BY <1>1 DEF IsFinal
<1>6. at' = at + 1 /\ pc' = "test" /\ cand' = 1
  BY <1>2, <1>4, <1>5 DEF ComboFails
<1>7. /\ \A c : Reached(c)' <=> Reached(c)
      /\ \A j : Nth(j)' = Nth(j)
  BY PlaceStays
<1>8. \A j \in 1..(3 * Places) : j < at' => ~Reached(Nth(j))'
  BY <1>3, <1>6, <1>7
<1>9. \A k \in 1..Len(Candidates(req.raw)) : ~(k < cand')
  BY <1>6, CandidateTypes DEF Inv, TypeOK
<1>10. at' # 0 /\ req' = req /\ probe'.combo = NoCombo
  BY <1>1, <1>6 DEF world
<1> QED BY <1>6, <1>8, <1>9, <1>10 DEF Search

LEMMA SearchTriesPasswords ==
  ASSUME Inv, Findable, Search, pc = "test", Reached(combo) => ~Wanted(password),
         NEW e, PasswordFails(e), UNCHANGED <<world, probe>>
  PROVE  Search'
<1> DEFINE n == Len(Candidates(req.raw))
<1>1. n \in Nat /\ cand \in 1..n
  BY CandidateTypes DEF Inv, TypeOK
<1>2. ASSUME Reached(combo)
      PROVE  \A k \in 1..n : k < cand + 1 => ~Wanted(Candidates(req.raw)[k])
  <2>1. \A k \in 1..n : k < cand + 1 => k < cand \/ k = cand
    BY <1>1
  <2> QED BY <1>2, <2>1 DEF Search, password
<1>3. CASE cand < n
  <2>1. cand' = cand + 1 /\ pc' = "test" /\ at' = at /\ req' = req
    BY <1>3 DEF PasswordFails, world
  <2>2. /\ \A c : Reached(c)' <=> Reached(c)
        /\ \A j : Nth(j)' = Nth(j)
        /\ \A pw : Wanted(pw)' <=> Wanted(pw)
        /\ combo' = combo
    BY <2>1, PlaceStays
  <2>3. Reached(combo)' => \A k \in 1..n : k < cand' => ~Wanted(Candidates(req.raw)[k])'
    <3>1. Reached(combo)' <=> Reached(combo)
      BY <2>2 DEF Reached, world
    <3> QED BY <1>2, <2>1, <2>2, <3>1
  <2>4. \A j \in 1..(3 * Places) : j < at' => ~Reached(Nth(j))'
    BY <2>1, <2>2 DEF Search, Reached, world
  <2>5. IF probe'.combo # NoCombo THEN at' = 0 /\ Reached(probe.combo)' ELSE at' # 0
    BY <2>1, <2>2 DEF Search, Reached, world
  <2> QED BY <2>1, <2>3, <2>4, <2>5 DEF Search
<1>4. CASE ~(cand < n)
  <2>1. ~Reached(combo)
    <3>1. PICK i \in 1..n : Candidates(req.raw)[i] = first
      BY DEF Findable
    <3>2. Wanted(Candidates(req.raw)[i]) /\ i < cand + 1
      BY <1>1, <1>4, <3>1 DEF Wanted
    <3> QED BY <1>2, <3>2
  <2> QED BY <1>4, <2>1, SearchGoesOn DEF PasswordFails
<1> QED BY <1>3, <1>4

LEMMA TestSearches ==
  ASSUME Inv, Findable, Search, cam.pw = first, ReadTestKey, faults' = faults
  PROVE  Search'
<1>1. pc = "test" /\ UNCHANGED <<world, probe, tries>>
  BY DEF ReadTestKey
<1>2. PICK a \in Exchanges(combo[1], Ask("test", combo[2], password)) :
        /\ Deliver(a)
        /\ \/ a.reply = "ok" /\ pc' = "essentials" /\ UNCHANGED <<at, cand, mem, result>>
           \/ a.reply = "transport" /\ TransportFails
           \/ a.reply = "raise" /\ Raise
           \/ a.reply \in {"auth", "policy", "rejected"} /\ PasswordFails(a.reply)
  BY Zenon DEF ReadTestKey
<1>3. a.fault = 0
  <2>1. faults \in Nat
    BY ConnectAssumption DEF Inv, TypeOK
  <2> QED BY <1>2, <2>1, DeliverCountsFaults
<1>4. /\ Reached(combo) => IF Wanted(password) THEN a.reply = "ok" ELSE a.reply = "auth"
      /\ ~Reached(combo) => a.reply \in {"transport", "auth"}
  BY <1>1, <1>3, TestTells
<1>5. CASE a.reply = "ok" /\ pc' = "essentials" /\ UNCHANGED <<at, cand, mem, result>>
  <2>1. Reached(combo) /\ Wanted(password)
    BY <1>4, <1>5
  <2>2. /\ \A c : Reached(c)' <=> Reached(c)
        /\ \A j : Nth(j)' = Nth(j)
        /\ \A pw : Wanted(pw)' <=> Wanted(pw)
        /\ combo' = combo
    BY <1>1, <1>5, PlaceStays
  <2>3. req' = req /\ password' = password
    BY <1>1, <1>5 DEF world, password
  <2>4. Reached(combo)' /\ Wanted(password)'
    BY <1>1, <2>1, <2>2, <2>3 DEF Reached, Wanted, world
  <2>5. \A k \in 1..Len(Candidates(req.raw)) : k < cand => ~Wanted(Candidates(req.raw)[k])
    BY <2>1 DEF Search
  <2>6. \A k \in 1..Len(Candidates(req'.raw)) : k < cand' => ~Wanted(Candidates(req.raw)[k])'
    BY <1>1, <1>5, <2>3, <2>5 DEF Wanted, world
  <2>7. \A j \in 1..(3 * Places) : j < at' => ~Reached(Nth(j))'
    BY <1>1, <1>5, <2>2 DEF Search, Reached, world
  <2>8. IF probe'.combo # NoCombo THEN at' = 0 /\ Reached(probe.combo)' ELSE at' # 0
    BY <1>1, <1>5 DEF Search, Reached, world
  <2> QED BY <1>5, <2>4, <2>6, <2>7, <2>8 DEF Search
<1>6. CASE a.reply = "transport" /\ TransportFails
  BY <1>1, <1>4, <1>6, SearchGoesOn DEF TransportFails
<1>7. CASE a.reply \in {"auth", "policy", "rejected"} /\ PasswordFails(a.reply)
  BY <1>1, <1>4, <1>7, SearchTriesPasswords
<1> QED BY <1>2, <1>4, <1>5, <1>6, <1>7

LEMMA EssentialsSearch ==
  ASSUME Inv, Findable, Search, cam.pw = first, ReadEssentials, faults' = faults
  PROVE  Search'
<1>1. pc = "essentials" /\ UNCHANGED <<world, probe, tries>>
  BY DEF ReadEssentials
<1>2. PICK a \in Exchanges(combo[1], Ask("essentials", combo[2], password)) :
        /\ Deliver(a)
        /\ a.reply = "ok" => Succeed(password, FALSE) /\ UNCHANGED <<at, cand, mem>>
  BY Zenon DEF ReadEssentials, IsDefaultPasswordState
<1>3. a.fault = 0
  <2>1. faults \in Nat
    BY ConnectAssumption DEF Inv, TypeOK
  <2> QED BY <1>2, <2>1, DeliverCountsFaults
<1>4. Reached(combo) /\ Wanted(password)
  BY <1>1 DEF Search
<1>5. pc' = "done" /\ result'.ok /\ UNCHANGED <<at, cand, mem>>
  <2>1. a.reply = "ok"
    BY <1>1, <1>3, <1>4, EssentialsComplete
  <2> QED BY <1>2, <2>1 DEF Succeed
<1>6. /\ \A c : Reached(c)' <=> Reached(c)
      /\ \A j : Nth(j)' = Nth(j)
      /\ combo' = combo
  BY <1>1, <1>5, PlaceStays
<1>7. \A j \in 1..(3 * Places) : j < at' => ~Reached(Nth(j))'
  BY <1>1, <1>5, <1>6 DEF Search, Reached, world
<1>8. \A k \in 1..Len(Candidates(req'.raw)) : k < cand' => ~Wanted(Candidates(req.raw)[k])'
  BY <1>1, <1>4, <1>5 DEF Search, Wanted, world
<1>9. IF probe'.combo # NoCombo THEN at' = 0 /\ Reached(probe.combo)' ELSE at' # 0
  BY <1>1, <1>5 DEF Search, Reached, world
<1>10. \A k \in 1..Len(Candidates(req'.raw)) : Candidates(req.raw)[k]' = Candidates(req.raw)[k]
  BY <1>1 DEF world
<1> QED BY <1>5, <1>7, <1>8, <1>9, <1>10 DEF Search

LEMMA ProbeOutcome ==
  ASSUME ProbeFinds
  PROVE  \E p \in ApiPlaces, sec3 \in {FALSE, dev.sec3} :
           /\ probe'.combo = <<p, Guess>>
           /\ faults' = IF probe'.missed THEN faults + 1 ELSE faults
           /\ pc' = IF sec3 THEN "sec3Add" ELSE "test"
<1>1. PICK p \in ApiPlaces, sec3 \in {FALSE, dev.sec3} :
        LET missed == sec3 # dev.sec3 \/ \E q \in ApiPlaces : q < p IN
        /\ faults' = IF missed THEN faults + 1 ELSE faults
        /\ probe' = [combo |-> <<p, Guess>>, missed |-> missed]
        /\ pc' = IF sec3 THEN "sec3Add" ELSE "test"
  BY Zenon DEF ProbeFinds
<1> DEFINE missed == sec3 # dev.sec3 \/ \E q \in ApiPlaces : q < p
<1> HIDE DEF missed
<1>2. /\ faults' = IF missed THEN faults + 1 ELSE faults
      /\ probe' = [combo |-> <<p, Guess>>, missed |-> missed]
  BY <1>1, Zenon DEF missed
<1>3. probe'.combo = <<p, Guess>> /\ probe'.missed = missed
  BY <1>2
<1> QED BY <1>1, <1>2, <1>3, Zenon

LEMMA ProbeSearches ==
  ASSUME Inv, cand = 1, ProbeFinds \/ ProbeFindsNothing, Findable'
  PROVE  Search'
<1>1. UNCHANGED <<world, cand>> /\ pc = "probe" /\ at = 0
  BY DEF ProbeFinds, ProbeFindsNothing, Inv
<1>2. ApiPlaces' = ApiPlaces
  BY <1>1 DEF ApiPlaces, world
<1>3. Findable
  BY <1>1, <1>2 DEF Findable, world
<1>0. \A k \in 1..Len(Candidates(req'.raw)) : ~(k < cand')
  BY <1>1
<1>4. CASE ProbeFindsNothing
  <2>1. at' = 1 /\ pc' = "test" /\ probe'.combo = NoCombo
    BY <1>4 DEF ProbeFindsNothing
  <2>2. \A j \in 1..(3 * Places) : ~(j < at')
    BY <2>1, ConnectAssumption
  <2> QED BY <1>0, <2>1, <2>2 DEF Search
<1>5. CASE ProbeFinds
  <2>1. PICK p \in ApiPlaces, sec3 \in {FALSE, dev.sec3} :
          probe'.combo = <<p, Guess>> /\ pc' = IF sec3 THEN "sec3Add" ELSE "test"
    BY <1>5, ProbeOutcome
  <2>2. pc' = "test" /\ at' = 0 /\ cand' = cand
    BY <1>1, <1>3, <1>5, <2>1 DEF ProbeFinds, Findable
  <2>3. Reached(<<p, Guess>>)
    BY <1>3, GuessReached DEF Inv, TypeOK
  <2>4. Reached(probe.combo)' /\ probe'.combo # NoCombo
    <3>1. p # 0
      BY DEF ApiPlaces
    <3> QED BY <1>1, <2>1, <2>3, <3>1 DEF Reached, NoCombo, world
  <2>5. \A j \in 1..(3 * Places) : ~(j < at')
    BY <2>2, ConnectAssumption
  <2> QED BY <1>0, <2>2, <2>4, <2>5 DEF Search
<1> QED BY <1>4, <1>5

LEMMA FaultsGrow ==
  Inv /\ Next => faults' \in {faults, faults + 1}
<1> SUFFICES ASSUME Inv, Next PROVE faults' \in {faults, faults + 1}
  OBVIOUS
<1>1. CASE ProbeFinds \/ ProbeFindsNothing \/ ReadPublicKey
  BY <1>1 DEF ProbeFinds, ProbeFindsNothing, ReadPublicKey
<1>2. CASE ~(ProbeFinds \/ ProbeFindsNothing \/ ReadPublicKey)
  <2>1. \E place, r : \E a \in Exchanges(place, r) : Deliver(a)
    BY <1>2 DEF Next, ReadTestKey, ReadEssentials, WriteRsa, WriteTenc, VerifyChange,
                VerifyRecovered, Sec3AddUser, Sec3Home, Sec3WriteAccess, Sec3ReadEssentials,
                Modpass, Verification
  <2> QED BY <2>1, DeliverCountsFaults
<1> QED BY <1>1, <1>2

\* Only the first step is the probe's.
LEMMA StepStaysInCall ==
  ASSUME Inv, Next, pc # "probe"
  PROVE  probe' = probe /\ pc' # "probe"
<1>1. \A e : Finish(e) \/ Raise \/ ComboFails(e) \/ PasswordFails(e) => pc' # "probe"
  BY DEF Finish, Raise, ComboFails, PasswordFails
<1>2. TransportFails => pc' # "probe"
  BY <1>1 DEF TransportFails
<1>3. \A pw, recovered : Succeed(pw, recovered) => pc' # "probe"
  BY DEF Succeed
<1>4. ReadTestKey \/ ReadEssentials => probe' = probe /\ pc' # "probe"
  BY <1>1, <1>2, <1>3, Zenon DEF ReadTestKey, ReadEssentials
<1>5. ReadPublicKey \/ WriteRsa \/ WriteTenc => probe' = probe /\ pc' # "probe"
  BY <1>1 DEF ReadPublicKey, WriteRsa, WriteTenc, RecoveryFails
<1>6. VerifyChange("rsaVerify") \/ VerifyChange("tencVerify") \/ VerifyRecovered
        => probe' = probe /\ pc' # "probe"
  BY <1>1, <1>3 DEF VerifyChange, VerifyRecovered, RecoveryFails
<1>7. Sec3AddUser \/ Sec3Home \/ Sec3WriteAccess \/ Sec3ReadEssentials
        => probe' = probe /\ pc' # "probe"
  BY <1>1, <1>3 DEF Sec3AddUser, Sec3Home, Sec3WriteAccess, Sec3ReadEssentials,
                   BootstrapFails, BootstrapEnds
<1> QED BY <1>4, <1>5, <1>6, <1>7 DEF Next, ProbeFinds, ProbeFindsNothing

LEMMA StepFinds == Inv /\ Found /\ [Next]_vars => Found'
<1> SUFFICES ASSUME Inv, Found, [Next]_vars PROVE Found'
  OBVIOUS
<1>0. faults \in Nat
  BY ConnectAssumption DEF Inv, TypeOK
<1>1. CASE UNCHANGED vars
  <2>1. UNCHANGED <<world, probe>> /\ UNCHANGED <<at, cand, pc, req, cam, faults, result>>
    BY <1>1 DEF vars, world
  <2>2. /\ \A c : Reached(c)' <=> Reached(c)
        /\ Findable' <=> Findable
        /\ \A pw : Wanted(pw)' <=> Wanted(pw)
        /\ \A j : Nth(j)' = Nth(j)
        /\ combo' = combo
    BY <2>1, PlaceStays
  <2>3. Search => Search'
    BY <2>1, <2>2 DEF Search, Reached, Wanted, password, world
  <2> QED BY <2>1, <2>2, <2>3 DEF Found, Undisturbed, world
<1>2. CASE Next
  <2>1. UNCHANGED world /\ faults' \in {faults, faults + 1}
    BY <1>2, WorldStays, FaultsGrow
  <2>2. dev'.firmware = "plain" => cam'.pw = first'
    <3>1. PasswordRule \/ UNCHANGED vars
      BY <1>2, StepInv
    <3>2. dev.firmware = "plain" => cam'.pw = cam.pw
      BY <3>1 DEF PasswordRule, Restricted, vars
    <3> QED BY <2>1, <3>2 DEF Found, world
  <2>3. CASE pc = "probe"
    <3>1. ProbeFinds \/ ProbeFindsNothing
      BY <1>2, <2>3 DEF Next, ReadTestKey, ReadEssentials, ReadPublicKey, WriteRsa, WriteTenc,
             VerifyChange, VerifyRecovered, Sec3AddUser, Sec3Home, Sec3WriteAccess, Sec3ReadEssentials
    <3>2. pc' # "probe" /\ faults' >= IF probe'.missed THEN 1 ELSE 0
      <4>1. CASE ProbeFinds
        <5>1. PICK p \in ApiPlaces, sec3 \in {FALSE, dev.sec3} :
                /\ faults' = IF probe'.missed THEN faults + 1 ELSE faults
                /\ pc' = IF sec3 THEN "sec3Add" ELSE "test"
          BY <4>1, ProbeOutcome
        <5>2. pc' # "probe"
          BY <5>1
        <5>3. faults' >= IF probe'.missed THEN 1 ELSE 0
          <6> DEFINE m == probe'.missed
          <6>1. faults' = IF m THEN faults + 1 ELSE faults
            BY <5>1
          <6> HIDE DEF m
          <6>2. faults' >= IF m THEN 1 ELSE 0
            BY <1>0, <6>1
          <6> QED BY <6>2 DEF m
        <5> QED BY <5>2, <5>3
      <4>2. CASE ProbeFindsNothing
        <5>1. /\ probe'.missed <=> ApiPlaces # {}
              /\ faults' = IF ApiPlaces = {} THEN faults ELSE faults + 1
              /\ pc' = "test"
          BY <4>2 DEF ProbeFindsNothing
        <5>2. CASE ApiPlaces = {}
          BY <1>0, <5>1, <5>2
        <5>3. CASE ApiPlaces # {}
          BY <1>0, <5>1, <5>3
        <5> QED BY <5>2, <5>3
      <4> QED BY <3>1, <4>1, <4>2
    <3>3. Findable' => Search'
      BY <2>3, <3>1, ProbeSearches DEF Found
    <3> QED BY <2>2, <3>2, <3>3 DEF Found
  <2>4. CASE pc # "probe"
    <3>1. probe' = probe /\ pc' # "probe"
      BY <1>2, <2>4, StepStaysInCall
    <3>2. faults >= IF probe.missed THEN 1 ELSE 0
      BY <2>4 DEF Found
    <3>3. ASSUME Findable', Undisturbed' PROVE Search'
      <4>1. faults' = faults /\ Undisturbed
        BY <1>0, <2>1, <3>1, <3>2, <3>3 DEF Undisturbed
      <4>2. Findable
        BY <2>1, <3>1, <3>3, PlaceStays
      <4>3. Search /\ cam.pw = first
        BY <2>4, <4>1, <4>2 DEF Found, Findable
      <4>4. pc \in {"test", "essentials"}
        <5>1. pc # "done"
          BY <1>2, <2>4 DEF Next, ProbeFinds, ProbeFindsNothing, ReadTestKey, ReadEssentials,
             ReadPublicKey, WriteRsa, WriteTenc, VerifyChange, VerifyRecovered,
             Sec3AddUser, Sec3Home, Sec3WriteAccess, Sec3ReadEssentials
        <5> QED BY <4>3, <5>1 DEF Search
      <4>5. ReadTestKey \/ ReadEssentials
        BY <1>2, <4>4 DEF Next, ProbeFinds, ProbeFindsNothing, ReadPublicKey, WriteRsa, WriteTenc,
             VerifyChange, VerifyRecovered, Sec3AddUser, Sec3Home, Sec3WriteAccess, Sec3ReadEssentials
      <4> QED BY <4>1, <4>2, <4>3, <4>5, TestSearches, EssentialsSearch
    <3>4. faults' >= IF probe'.missed THEN 1 ELSE 0
      BY <1>0, <2>1, <3>1, <3>2
    <3> QED BY <2>2, <3>1, <3>3, <3>4 DEF Found
  <2> QED BY <2>3, <2>4
<1> QED BY <1>1, <1>2

-----------------------------------------------------------------------------
\* Theorems

\* Every variable of the call keeps its type: in particular the candidate
\* index stays inside the candidate list and the position inside the places.
THEOREM TypeCorrect == Spec => []TypeOK
<1>1. Inv => TypeOK
  BY DEF Inv
<1> QED BY SpecInv, <1>1, PTL

\* A successful response carries credentials that open the camera.
THEOREM SuccessIsReal == Spec => []SuccessOpensCamera
<1>1. Inv => SuccessOpensCamera
  BY DEF Inv
<1> QED BY SpecInv, <1>1, PTL

\* A camera's password changes only when it is the factory one and refused,
\* the operator typed a factory password, and only to the chosen target.
THEOREM PasswordIsSafe == Spec => OnlyDefaultPasswordChanges
<1> DEFINE Allowed == cam'.pw # cam.pw => /\ Restricted(dev, cam)
                                          /\ req.raw \in Factory
                                          /\ cam'.pw = req.target
<1>1. Inv /\ [Next]_vars => [Allowed]_vars
  BY StepInv DEF PasswordRule
<1> QED BY SpecInv, <1>1, PTL DEF Spec, OnlyDefaultPasswordChanges

\* The password the camera had when the call began, or the target that a call
\* allowed to change it chose.
Known ==
  \/ cam.pw = first
  \/ /\ cam.pw = req.target
     /\ first \in Factory /\ req.raw \in Factory
     /\ dev.firmware = "restricted"

\* Whatever requests are lost, repeated or answered late, and whether the call
\* succeeds, fails or raises, the operator is not locked out: the camera has
\* its old password or the target, never one of the other candidates.
THEOREM PasswordStaysKnown == Spec => []Known
<1>1. Init => Known
  BY DEF Init, Known
<1>2. Inv /\ Known /\ [Next]_vars => Known'
  <2> SUFFICES ASSUME Inv, Known, [Next]_vars PROVE Known'
    OBVIOUS
  <2>1. UNCHANGED world
    BY WorldStays DEF vars, world
  <2>2. CASE cam'.pw = cam.pw
    BY <2>1, <2>2 DEF Known, world
  <2>3. CASE cam'.pw # cam.pw
    <3>1. PasswordRule
      BY <2>3, StepInv DEF vars
    <3>2. cam'.pw = req.target /\ req.raw \in Factory /\ Restricted(dev, cam)
      BY <2>3, <3>1 DEF PasswordRule
    <3>3. req.target \notin Factory
      BY DEF Inv, TypeOK, Request
    <3>4. cam.pw = first
      BY <3>2, <3>3 DEF Known, Restricted
    <3> QED BY <2>1, <3>2, <3>4 DEF Known, Restricted, world
  <2> QED BY <2>2, <2>3
<1> QED BY SpecInv, <1>1, <1>2, PTL DEF Spec

\* On a network that loses nothing, a call that fails has not changed the
\* password: try_recover_password verifies what it wrote before it gives up.
THEOREM FailureKeepsPassword == Spec => []NoLossWithoutFault
<1>1. Init => Kept
  BY DEF Init, Kept
<1>2. Inv /\ Kept /\ [Next]_vars => Kept'
  BY StepKeeps
<1>3. Kept => NoLossWithoutFault
  BY DEF Kept, NoLossWithoutFault
<1> QED BY SpecInv, <1>1, <1>2, <1>3, PTL DEF Spec

\* A probe that missed a working camera does not lose it: the fallback of
\* run_phase1 comes to the combination and the password that open it.
THEOREM MissedProbeIsMadeGood == Spec => []FoundAfterMissedProbe
<1>1. Init => Found
  BY DEF Init, Found
<1>2. Inv /\ Found /\ [Next]_vars => Found'
  BY StepFinds
<1>3. Found => FoundAfterMissedProbe
  BY DEF Found, Findable, Undisturbed, Search, FoundAfterMissedProbe
<1> QED BY SpecInv, <1>1, <1>2, <1>3, PTL DEF Spec

=============================================================================
