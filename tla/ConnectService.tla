--------------------------- MODULE ConnectService ---------------------------
(* run_phase1: one connect of the tool to one camera, from the probe to    *)
(* the Phase1Response, with the password change of a camera that was reset *)
(* and the account bootstrap of a Security 3.0 camera.                     *)
(*                                                                         *)
(* The call runs alone on its camera (AppSupervisor keeps one task in      *)
(* flight per device); what may happen in between is the network: at most  *)
(* MaxFaults exchanges are disturbed.  The candidate (base, root) pairs    *)
(* are the numbers 1..Places in the order in which they are tried.         *)
EXTENDS CameraHttp, Sequences

CONSTANTS
  Places,       \* number of (base_url, root_path) candidates
  VerifyTries,  \* range(8) of _verify_after_password_change
  HomeTries,    \* range(10) of sec3_write_remoteaccess_first
  MaxFaults     \* bound: exchanges the network disturbs in one call

ASSUME ConnectAssumption ==
  /\ Places \in Nat \ {0}
  /\ VerifyTries \in Nat \ {0}
  /\ HomeTries \in Nat \ {0}
  /\ MaxFaults \in Nat

VARIABLES
  dev,      \* the camera's traits, chosen once
  kind,     \* what answers at each place, chosen once
  cam,      \* the camera's state
  first,    \* the camera's password when the call began
  req,      \* Phase1Request: the password typed in and the one to change to
  faults,   \* exchanges disturbed so far
  pc,       \* what the call does next
  probe,    \* [combo, missed]: what probe_camera found
  at,       \* position in the fallback's three loops, 0 for the probe's combination
  cand,     \* index of the password candidate in use
  tries,    \* verifications left
  mem,      \* errors kept: best (in this combination), direct, bestNon, last
  result    \* the Phase1Response

vars == <<dev, kind, cam, first, req, faults, pc, probe, at, cand, tries, mem, result>>
world == <<dev, kind, first, req>>

NoCombo == <<0, "none">>
Combo == (1..Places) \X Scheme
Phase == {"probe", "test", "essentials", "key", "rsa", "rsaVerify", "tenc", "tencVerify",
          "verify", "sec3Add", "sec3Home", "sec3Access", "sec3Read", "done"}
ErrorClass == {"none", "probe", "parse"} \cup (Reply \ {"ok", "noversion"})
Memory == [best : ErrorClass, direct : ErrorClass, bestNon : ErrorClass, last : ErrorClass]
\* The operating account's password, which other cameras may have as well.
Sec3Password == "!Camera1108"
\* Phase1Response; the combination is the one the call stopped at.
Response == [ok : BOOLEAN, pw : Password \cup {"none"}, recovered : BOOLEAN, err : ErrorClass]
Pending == [ok |-> FALSE, pw |-> "none", recovered |-> FALSE, err |-> "none"]
NoErrors == [best |-> "none", direct |-> "none", bestNon |-> "none", last |-> "none"]

\* _candidate_passwords: a factory password stands for both of them, an empty
\* one for every usual password, any other only for itself.
Candidates(raw) ==
  CASE raw = "admin" -> <<"admin", "1234">>
    [] raw = "1234"  -> <<"1234", "admin">>
    [] raw = ""      -> <<"1234", "admin", "123", "!camera1108", "!Camera1108">>
    [] OTHER         -> <<raw>>

\* Mutant: a password may be changed whatever the operator typed.
AllowRecovery_Always == TRUE

AllowRecovery == req.raw \in Factory

\* MainController._build_phase1_request: the target is chosen for a factory
\* password and is the password itself otherwise.
Request ==
  {r \in [raw : Password \cup {""}, target : Password \ Factory] :
     r.raw \notin Factory => r.target = (IF r.raw = "" THEN "123" ELSE r.raw)}

Init ==
  /\ dev \in Camera
  /\ kind \in [1..Places -> PlaceKind]
  /\ \E p \in Password : cam = [pw |-> p, user |-> FALSE, access |-> FALSE]
  /\ first = cam.pw
  /\ req \in Request
  /\ faults = 0
  /\ pc = "probe"
  /\ probe = [combo |-> NoCombo, missed |-> FALSE]
  /\ at = 0
  /\ cand = 1
  /\ tries = 0
  /\ mem = NoErrors
  /\ result = Pending

-----------------------------------------------------------------------------
\* Requests

\* auth_candidates, without repetition.
AuthOrder ==
  CASE probe.combo[2] = "basic" -> <<"basic", "digest", "none">>
    [] probe.combo[2] = "none" /\ probe.combo # NoCombo -> <<"none", "digest", "basic">>
    [] OTHER -> <<"digest", "basic", "none">>

\* The i-th combination of the fallback: the places, and for each the schemes.
Nth(i) == <<((i - 1) \div 3) + 1, AuthOrder[((i - 1) % 3) + 1]>>

\* The combination that is evaluated and the password candidate in use.
combo == IF at = 0 THEN probe.combo ELSE Nth(at)
password == Candidates(req.raw)[cand]

\* Mutant: the probe's combination is not stepped over.
Following_Stuck(i) == IF Nth(i + 1) = probe.combo THEN i ELSE i + 1

\* The position after this one, past the combination the probe suggested.
Following(i) == IF Nth(i + 1) = probe.combo THEN i + 2 ELSE i + 1

Ask(op, scheme, pw) == [op |-> op, scheme |-> scheme, pw |-> pw, new |-> req.target]

\* Every outcome of a request at a place, with the fault it costs.
Exchanges(place, r) ==
  {[reply |-> a.reply, cam |-> a.cam, fault |-> 0] : a \in Served(dev, cam, kind[place], r)}
    \cup {[reply |-> a.reply, cam |-> a.cam, fault |-> 1] :
            a \in IF faults < MaxFaults /\ kind[place] = "api"
                  THEN Disturbed(dev, cam, kind[place], r) ELSE {}}

Deliver(a) == cam' = a.cam /\ faults' = faults + a.fault

-----------------------------------------------------------------------------
\* Ends of the call and of a combination

Finish(error) ==
  /\ pc' = "done"
  /\ result' = [Pending EXCEPT !.err = error]

Succeed(pw, recovered) ==
  /\ pc' = "done"
  /\ result' = [ok |-> TRUE, pw |-> pw, recovered |-> recovered, err |-> "none"]

FirstError(m) ==
  CASE m.bestNon # "none" -> m.bestNon
    [] m.bestNon = "none" /\ m.direct # "none" -> m.direct
    [] OTHER -> m.last

\* Mutant: any answer ends the fallback.
IsFinal_Anywhere(error) == error # "transport"

\* The probe's combination decides alone unless nothing answered there.
IsFinal(error) == at = 0 /\ error # "transport"

\* run_phase1 after a combination failed with this error.
ComboFails(error) ==
  LET direct == at = 0
      final == IsFinal(error)
      kept == [best |-> "none",
               direct |-> IF direct THEN error ELSE mem.direct,
               bestNon |-> IF ~direct /\ error # "transport" /\ mem.bestNon = "none"
                           THEN error ELSE mem.bestNon,
               last |-> IF direct THEN mem.last ELSE error]
      more == ~final /\ Following(at) <= 3 * Places
  IN  /\ mem' = kept
      /\ cand' = 1
      /\ \/ more /\ at' = Following(at) /\ pc' = "test" /\ result' = result
         \/ ~more /\ at' = at /\ Finish(IF final THEN error ELSE FirstError(kept))

\* Mutant: one candidate too many.
PasswordFails_OffByOne(error) ==
  IF cand <= Len(Candidates(req.raw))
  THEN /\ cand' = cand + 1
       /\ mem' = [mem EXCEPT !.best = error]
       /\ pc' = "test"
       /\ UNCHANGED <<at, result>>
  ELSE ComboFails(error)

\* _attempt_candidate_combo goes on to the next password candidate.
PasswordFails(error) ==
  IF cand < Len(Candidates(req.raw))
  THEN /\ cand' = cand + 1
       /\ mem' = [mem EXCEPT !.best = error]
       /\ pc' = "test"
       /\ UNCHANGED <<at, result>>
  ELSE ComboFails(error)

\* ... or gives the combination up because nothing answers there.
TransportFails == ComboFails(IF mem.best = "none" THEN "transport" ELSE mem.best)

\* try_recover_password has one password to try, so that its error is the
\* combination's.
RecoveryFails(error) == ComboFails(error)

\* An exception no handler of the service expects leaves run_phase1.
Raise ==
  /\ Finish("raise")
  /\ UNCHANGED <<at, cand, mem>>

-----------------------------------------------------------------------------
\* The probe

ApiPlaces == {p \in 1..Places : kind[p] = "api"}

\* The scheme probe_camera reads from the answer to the unauthenticated test.
Guess == IF dev.testPublic THEN "none" ELSE dev.scheme

\* The first place where the API answers; a disturbed probe misses it, or
\* only the public key that tells a Security 3.0 camera.
ProbeFinds ==
  /\ pc = "probe"
  /\ \E p \in ApiPlaces, sec3 \in {FALSE, dev.sec3} :
       LET missed == sec3 # dev.sec3 \/ \E q \in ApiPlaces : q < p IN
       /\ missed => faults < MaxFaults
       /\ faults' = IF missed THEN faults + 1 ELSE faults
       /\ probe' = [combo |-> <<p, Guess>>, missed |-> missed]
       /\ pc' = IF sec3 THEN "sec3Add" ELSE "test"
       /\ tries' = IF sec3 THEN HomeTries ELSE 0
  /\ UNCHANGED <<world, cam, at, cand, mem, result>>

\* AppError of probe_camera: the fallback starts from nothing.
ProbeFindsNothing ==
  /\ pc = "probe"
  /\ ApiPlaces # {} => faults < MaxFaults
  /\ faults' = IF ApiPlaces = {} THEN faults ELSE faults + 1
  /\ probe' = [combo |-> NoCombo, missed |-> ApiPlaces # {}]
  /\ at' = 1
  /\ pc' = "test"
  /\ UNCHANGED <<world, cam, cand, tries, mem, result>>

-----------------------------------------------------------------------------
\* _attempt_candidate_combo

ReadTestKey ==
  /\ pc = "test"
  /\ \E a \in Exchanges(combo[1], Ask("test", combo[2], password)) :
       /\ Deliver(a)
       /\ \/ a.reply = "ok" /\ pc' = "essentials" /\ UNCHANGED <<at, cand, mem, result>>
          \/ a.reply = "transport" /\ TransportFails
          \/ a.reply = "raise" /\ Raise
          \/ a.reply \in {"auth", "policy", "rejected"} /\ PasswordFails(a.reply)
  /\ UNCHANGED <<world, probe, tries>>

IsDefaultPasswordState(reply) == reply = "policy"

ReadEssentials ==
  /\ pc = "essentials"
  /\ \E a \in Exchanges(combo[1], Ask("essentials", combo[2], password)) :
       /\ Deliver(a)
       /\ \/ /\ a.reply = "ok" /\ Succeed(password, FALSE)
             /\ UNCHANGED <<at, cand, mem>>
          \/ a.reply = "noversion" /\ ComboFails("parse")
          \/ /\ AllowRecovery /\ IsDefaultPasswordState(a.reply)
             /\ pc' = "key" /\ UNCHANGED <<at, cand, mem, result>>
          \/ /\ ~(AllowRecovery /\ IsDefaultPasswordState(a.reply))
             /\ a.reply \in {"transport", "raise"} /\ TransportFails
          \/ /\ ~(AllowRecovery /\ IsDefaultPasswordState(a.reply))
             /\ a.reply \in {"auth", "policy", "rejected"} /\ PasswordFails(a.reply)
  /\ UNCHANGED <<world, probe, tries>>

-----------------------------------------------------------------------------
\* try_recover_password and change_password_if_needed

\* RSA when the camera offers a key and the tool could read it.
ReadPublicKey ==
  /\ pc = "key"
  /\ pc' \in {"rsa", "tenc"}
  /\ UNCHANGED <<world, cam, faults, probe, at, cand, tries, mem, result>>

Modpass == Exchanges(combo[1], Ask("modpass", combo[2], password))

\* Anything but an accepted write leads to the TENC form of the same write.
WriteRsa ==
  /\ pc = "rsa"
  /\ \E a \in Modpass :
       /\ Deliver(a)
       /\ pc' = IF a.reply = "ok" THEN "rsaVerify" ELSE "tenc"
       /\ tries' = IF a.reply = "ok" THEN VerifyTries ELSE 0
  /\ UNCHANGED <<world, probe, at, cand, mem, result>>

WriteTenc ==
  /\ pc = "tenc"
  /\ \E a \in Modpass :
       /\ Deliver(a)
       /\ \/ /\ a.reply = "ok" /\ pc' = "tencVerify" /\ tries' = VerifyTries
             /\ UNCHANGED <<at, cand, mem, result>>
          \/ a.reply # "ok" /\ tries' = 0 /\ RecoveryFails(a.reply)
  /\ UNCHANGED <<world, probe>>

\* Mutant: whatever the camera answers counts as verified.
Verified_AnyAnswer(reply) == reply # "transport"

\* Mutant: the change is verified with the password it replaced.
Verification_OldPassword == Exchanges(combo[1], Ask("verify", combo[2], password))

\* What a verification reads: the test key and the essentials, with the new
\* password; an empty version is not an error here.
Verified(reply) == reply \in {"ok", "noversion"}
Verification == Exchanges(combo[1], Ask("verify", combo[2], req.target))

\* _verify_after_password_change inside change_password_if_needed.
VerifyChange(here) ==
  /\ pc = here
  /\ \E a \in Verification :
       /\ Deliver(a)
       /\ \/ /\ Verified(a.reply) /\ pc' = "verify" /\ tries' = VerifyTries
             /\ UNCHANGED <<at, cand, mem, result>>
          \/ /\ ~Verified(a.reply) /\ tries > 1 /\ pc' = pc /\ tries' = tries - 1
             /\ UNCHANGED <<at, cand, mem, result>>
          \/ /\ ~Verified(a.reply) /\ tries = 1 /\ tries' = 0
             /\ \/ here = "rsaVerify" /\ pc' = "tenc" /\ UNCHANGED <<at, cand, mem, result>>
                \/ here = "tencVerify" /\ RecoveryFails(a.reply)
  /\ UNCHANGED <<world, probe>>

\* The second verification, by _attempt_candidate_combo itself.
VerifyRecovered ==
  /\ pc = "verify"
  /\ \E a \in Verification :
       /\ Deliver(a)
       /\ \/ /\ Verified(a.reply) /\ tries' = 0 /\ Succeed(req.target, TRUE)
             /\ UNCHANGED <<at, cand, mem>>
          \/ /\ ~Verified(a.reply) /\ tries > 1 /\ pc' = pc /\ tries' = tries - 1
             /\ UNCHANGED <<at, cand, mem, result>>
          \/ ~Verified(a.reply) /\ tries = 1 /\ tries' = 0 /\ ComboFails(a.reply)
  /\ UNCHANGED <<world, probe>>

-----------------------------------------------------------------------------
\* security3_bootstrap

\* The branch of run_phase1: no other candidate is tried.
BootstrapFails(error) == Finish(error)
BootstrapEnds == Succeed(Sec3Password, TRUE)

\* sec3_usr_add_noauth
Sec3AddUser ==
  /\ pc = "sec3Add"
  /\ \E a \in Exchanges(combo[1], Ask("useradd", "none", Sec3Password)) :
       /\ Deliver(a)
       /\ \/ a.reply = "ok" /\ pc' = "sec3Home" /\ result' = result
          \/ a.reply # "ok" /\ BootstrapFails(a.reply)
  /\ UNCHANGED <<world, probe, at, cand, tries, mem>>

\* The home page, until the new account opens it.
Sec3Home ==
  /\ pc = "sec3Home"
  /\ \E a \in Exchanges(combo[1], Ask("account", "digest", Sec3Password)) :
       /\ Deliver(a)
       /\ \/ a.reply = "ok" /\ pc' = "sec3Access" /\ UNCHANGED <<tries, result>>
          \/ a.reply # "ok" /\ tries > 1 /\ tries' = tries - 1 /\ UNCHANGED <<pc, result>>
          \/ a.reply # "ok" /\ tries = 1 /\ tries' = 0 /\ BootstrapFails("auth")
  /\ UNCHANGED <<world, probe, at, cand, mem>>

\* The remote access table.
Sec3WriteAccess ==
  /\ pc = "sec3Access"
  /\ \E a \in Exchanges(combo[1], Ask("access", "digest", Sec3Password)) :
       /\ Deliver(a)
       /\ \/ a.reply = "ok" /\ pc' = "sec3Read" /\ result' = result
          \/ a.reply # "ok" /\ BootstrapFails(a.reply)
  /\ UNCHANGED <<world, probe, at, cand, tries, mem>>

\* read_essentials_best_effort: the three passes end at the first that reads
\* any key, and without a version the bootstrap has failed.
Sec3ReadEssentials ==
  /\ pc = "sec3Read"
  /\ \E a \in Exchanges(combo[1], Ask("account", "digest", Sec3Password)) :
       /\ Deliver(a)
       /\ \/ a.reply = "ok" /\ BootstrapEnds
          \/ a.reply # "ok" /\ BootstrapFails("auth")
  /\ UNCHANGED <<world, probe, at, cand, tries, mem>>

-----------------------------------------------------------------------------
Next ==
  \/ ProbeFinds \/ ProbeFindsNothing
  \/ ReadTestKey \/ ReadEssentials
  \/ ReadPublicKey \/ WriteRsa \/ WriteTenc
  \/ VerifyChange("rsaVerify") \/ VerifyChange("tencVerify") \/ VerifyRecovered
  \/ Sec3AddUser \/ Sec3Home \/ Sec3WriteAccess \/ Sec3ReadEssentials

Spec == Init /\ [][Next]_vars

\* Every request has a timeout, so the call always takes its next step.
FairSpec == Spec /\ WF_vars(Next)

-----------------------------------------------------------------------------
\* Properties

TypeOK ==
  /\ dev \in Camera
  /\ kind \in [1..Places -> PlaceKind]
  /\ cam \in CameraState
  /\ first \in Password
  /\ req \in Request
  /\ faults \in 0..MaxFaults
  /\ pc \in Phase
  /\ probe \in [combo : {NoCombo} \cup Combo, missed : BOOLEAN]
  /\ at \in 0..(3 * Places)
  /\ cand \in 1..Len(Candidates(req.raw))
  /\ tries \in Nat
  /\ mem \in Memory
  /\ result \in Response

\* The credentials of a successful response open the camera as it is when the
\* response is returned: after a recovery that means the new password, and
\* after a bootstrap the new account, already limited to the allowed address.
SuccessOpensCamera ==
  result.ok =>
    IF dev.sec3
    THEN cam.user /\ cam.access
    ELSE Authenticated(dev, cam, combo[2], result.pw)

\* A camera that works with its password is left alone: the password changes
\* only when it is a factory password the camera refuses to work with, only
\* for an operator who typed a factory password, and only to the target.
OnlyDefaultPasswordChanges ==
  [][cam'.pw # cam.pw =>
       /\ Restricted(dev, cam)
       /\ req.raw \in Factory
       /\ cam'.pw = req.target]_vars

\* On a network that loses nothing, a call that fails has not changed the
\* password: whatever the camera rejects, the operator's password is still right.
NoLossWithoutFault ==
  pc = "done" /\ ~result.ok /\ faults = 0 => cam.pw = first

\* A probe that missed the camera does not lose it: if nothing else is
\* disturbed, the fallback finds a working camera with digest authentication or
\* none at all, wherever it answers.
FoundAfterMissedProbe ==
  ( /\ pc = "done"
    /\ faults = (IF probe.missed THEN 1 ELSE 0)
    /\ ApiPlaces # {} /\ dev.firmware = "plain" /\ ~dev.sec3
    /\ dev.scheme = "none" \/ (dev.scheme = "digest" /\ ~dev.testPublic)
    /\ \E i \in 1..Len(Candidates(req.raw)) : Candidates(req.raw)[i] = first )
  => result.ok

\* The call returns, however the network treats it.
Returns == <>(pc = "done")

=============================================================================
