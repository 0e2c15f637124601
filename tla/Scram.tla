------------------------------- MODULE Scram -------------------------------
(***************************************************************************)
(* Password authentication between libpq and a backend: the methods md5,   *)
(* scram-sha-256, pqc-scram-sha-384 and password of pg_hba.conf, SASL      *)
(* negotiation and the SCRAM exchange with and without channel binding     *)
(* (auth.c, auth-sasl.c, auth-scram.c and crypt.c of the backend,          *)
(* fe-auth.c and fe-auth-scram.c of libpq), while the role's password and  *)
(* password_encryption change.                                             *)
(*                                                                         *)
(* Cryptography is perfect: a StoredKey, a proof or a signature stands for *)
(* the values it is computed from.  "salt" is salt and iteration count.    *)
(* Both ends use SSL or neither does; a relay that terminates SSL shows    *)
(* the client another certificate than the server's.                       *)
(***************************************************************************)
EXTENDS Naturals, Sequences

CONSTANTS
    Conns,            \* connections, all for one role
    Passwords,        \* the passwords a role may have
    Tried,            \* those a client may try
    NoSecret,         \* no such role, or no password
    MaxSalt           \* bound: passwords set in a behaviour

ASSUME ScramAssumption ==
    /\ NoSecret \notin Passwords /\ Tried \subseteq Passwords
    /\ MaxSalt \in Nat

VARIABLES
    secret,           \* pg_authid.rolpassword
    expired,          \* pg_authid.rolvaliduntil is past
    salts,            \* salts drawn so far
    encryption,       \* password_encryption
    conf,             \* what each connection was opened with
    shadow,           \* the secret its backend has read
    srv, cli,         \* state of the two ends
    c2s, s2c          \* messages on their way

roleVars == <<secret, expired, salts, encryption>>
connVars == <<shadow, srv, cli, c2s, s2c>>
vars == <<roleVars, conf, connVars>>

Hashes == {"sha256", "sha384"}
Secrets ==
    [type : Hashes \cup {"md5"}, pw : Passwords, salt : 1 .. MaxSalt]

\* SASL mechanisms: SCRAM-SHA-256, SCRAM-SHA-384 and their -PLUS variants.
Mechs == [hash : Hashes, plus : BOOLEAN]

\* The line of pg_hba.conf, SSL, the relay, and the client's channel_binding,
\* require_auth = scram-sha-256 and password.
Confs ==
    {k \in [method : {"md5", "scram-sha-256", "pqc-scram-sha-384", "password"},
            ssl : BOOLEAN, relay : BOOLEAN,
            binding : {"disable", "prefer", "require"},
            scramOnly : BOOLEAN, pw : Tried] : k.relay => k.ssl}

Cert(c, end) == IF end = "client" /\ conf[c].relay THEN "relay" ELSE "server"
Nonce(c, end) == <<c, end>>

Init ==
    /\ secret = NoSecret /\ expired = FALSE /\ salts = 0
    /\ encryption \in Hashes \cup {"md5"}
    /\ conf \in [Conns -> Confs]
    /\ shadow = [c \in Conns |-> NoSecret]
    /\ srv = [c \in Conns |-> [at |-> "start"]]
    /\ cli = [c \in Conns |-> [at |-> "start"]]
    /\ c2s = [c \in Conns |-> <<>>] /\ s2c = [c \in Conns |-> <<>>]

-----------------------------------------------------------------------------
\* CREATE or ALTER ROLE ... PASSWORD: encrypt_password makes a secret of the
\* kind password_encryption asks for, and VALID UNTIL stays what it was.
SetPassword(pw) ==
    /\ salts < MaxSalt
    /\ salts' = salts + 1
    /\ secret' = [type |-> encryption, pw |-> pw, salt |-> salts + 1]
    /\ UNCHANGED <<expired, encryption, conf, connVars>>

\* The role is dropped or its password is cleared.
LosePassword ==
    /\ secret # NoSecret
    /\ secret' = NoSecret
    /\ UNCHANGED <<expired, salts, encryption, conf, connVars>>

\* The password expires, or VALID UNTIL is moved.
ChangeValidUntil ==
    /\ expired' = ~expired
    /\ UNCHANGED <<secret, salts, encryption, conf, connVars>>

\* pqc_migrate_credentials('force-reset'): SHA-256 secrets only are nulled, and
\* their roles expire.
MigrateCredentials ==
    /\ secret # NoSecret /\ secret.type = "sha256"
    /\ secret' = NoSecret /\ expired' = TRUE
    /\ UNCHANGED <<salts, encryption, conf, connVars>>

SetEncryption(e) ==
    /\ encryption' = e
    /\ UNCHANGED <<secret, expired, salts, conf, connVars>>
-----------------------------------------------------------------------------
\* The server.

\* get_role_password.
RolePassword == IF expired THEN NoSecret ELSE secret

\* scram_get_mechanisms.
OfferedMechs(k) ==
    LET h == IF k.method = "pqc-scram-sha-384" THEN "sha384" ELSE "sha256"
        plain == [hash |-> h, plus |-> FALSE]
        bound == [hash |-> h, plus |-> TRUE]
    IN  IF k.ssl THEN <<bound, plain>> ELSE <<plain>>

\* ClientAuthentication: CheckPasswordAuth asks for the password first, and
\* CheckPWChallengeAuth reads the secret first; md5 falls back on SCRAM.
ServerBegin(c) ==
    LET k == conf[c]
        pwtype == IF RolePassword = NoSecret THEN encryption ELSE RolePassword.type
    IN
    /\ srv[c].at = "start"
    /\ shadow' = IF k.method = "password" THEN shadow
                 ELSE [shadow EXCEPT ![c] = RolePassword]
    /\ \/ /\ k.method = "password"
          /\ srv' = [srv EXCEPT ![c] = [at |-> "password"]]
          /\ s2c' = [s2c EXCEPT ![c] = Append(@, [type |-> "password"])]
       \/ /\ k.method = "md5" /\ pwtype = "md5"
          /\ srv' = [srv EXCEPT ![c] = [at |-> "md5"]]
          /\ s2c' = [s2c EXCEPT ![c] = Append(@, [type |-> "md5"])]
       \/ /\ k.method # "password" /\ ~(k.method = "md5" /\ pwtype = "md5")
          /\ srv' = [srv EXCEPT ![c] = [at |-> "sasl"]]
          /\ s2c' = [s2c EXCEPT ![c] =
                        Append(@, [type |-> "sasl", mechs |-> OfferedMechs(k)])]
    /\ UNCHANGED <<roleVars, conf, cli, c2s>>

\* Mutant: AUTH_REQ_OK is left out after AUTH_REQ_SASL_FIN.
ReplyNoOK(c, verdict, ms) ==
    /\ srv' = [srv EXCEPT ![c] = [at |-> verdict]]
    /\ s2c' = [s2c EXCEPT ![c] = @ \o ms]

\* The end of ClientAuthentication: OK, or the error that ends the backend
\* (auth_failed, or an ereport(ERROR) for a protocol violation).
Reply(c, verdict, ms) ==
    /\ srv' = [srv EXCEPT ![c] = [at |-> verdict]]
    /\ s2c' = [s2c EXCEPT ![c] =
        @ \o ms \o <<[type |-> IF verdict = "ok" THEN "ok" ELSE "error"]>>]

\* scram_init and the gs2-cbind-flag checks of read_client_first_message.
AcceptsFirst(k, m) ==
    /\ k.method = "pqc-scram-sha-384" => m.mech.hash = "sha384"
    /\ m.mech.plus => k.ssl
    /\ m.flag = "p" <=> m.mech.plus
    /\ m.flag = "y" => ~k.ssl

\* Mutant: an MD5 hash is not told from a SCRAM secret.
ParseScramSecretAny(s) == s # NoSecret

\* scram_init: get_password_type and parse_scram_secret find a SCRAM secret.
ParseScramSecret(s) == s # NoSecret /\ s.type \in Hashes

\* SASLInitialResponse.  The secret overrides the hash of the mechanism, and
\* mock_scram_secret stands in for a missing one or an MD5 hash.
ServerInitial(c) ==
    LET m == Head(c2s[c])
        got == ParseScramSecret(shadow[c])
        salt == IF got THEN shadow[c].salt ELSE 0
    IN
    /\ srv[c].at = "sasl" /\ c2s[c] # <<>>
    /\ \/ /\ AcceptsFirst(conf[c], m)
          /\ srv' = [srv EXCEPT ![c] =
                [at |-> "salt_sent", plus |-> m.mech.plus, flag |-> m.flag,
                 hash |-> IF got THEN shadow[c].type ELSE m.mech.hash,
                 doomed |-> ~got, salt |-> salt, nonce |-> m.nonce]]
          /\ s2c' = [s2c EXCEPT ![c] = Append(@,
                [type |-> "cont", salt |-> salt,
                 nonce |-> <<m.nonce, Nonce(c, "server")>>])]
       \/ /\ ~AcceptsFirst(conf[c], m)
          /\ Reply(c, "error", <<>>)
    /\ c2s' = [c2s EXCEPT ![c] = Tail(@)]
    /\ UNCHANGED <<roleVars, conf, shadow, cli>>

\* What both ends sign: the three messages without the proof.
AuthMessage(nonce, salt, cbind) == <<nonce, salt, cbind>>

\* Mutant: the channel binding data are not compared.
AcceptsFinalNoBinding(c, m) ==
    LET s == srv[c] IN
    /\ m.nonce = <<s.nonce, Nonce(c, "server")>>
    /\ m.proof.key.hash = s.hash

\* read_client_final_message and verify_final_nonce: channel binding data,
\* nonce, and the length of the proof.
AcceptsFinal(c, m) ==
    LET s == srv[c] IN
    /\ m.cbind = IF s.plus THEN <<"p", Cert(c, "server")>> ELSE <<s.flag>>
    /\ m.nonce = <<s.nonce, Nonce(c, "server")>>
    /\ m.proof.key.hash = s.hash

\* verify_client_proof, and not a mock authentication.
VerifyClientProof(c, m) ==
    LET s == srv[c] IN
    /\ ~s.doomed
    /\ m.proof.key = [hash |-> s.hash, pw |-> shadow[c].pw, salt |-> s.salt]
    /\ m.proof.auth = AuthMessage(m.nonce, s.salt, m.cbind)

\* ServerSignature, as build_server_final_message computes it.
ServerSignature(c, m) ==
    LET s == srv[c] IN
    [key |-> [hash |-> s.hash, pw |-> shadow[c].pw, salt |-> s.salt],
     auth |-> AuthMessage(m.nonce, s.salt, m.cbind)]

\* The client's final message, and build_server_final_message.
ServerFinal(c) ==
    LET m == Head(c2s[c]) IN
    /\ srv[c].at = "salt_sent" /\ c2s[c] # <<>>
    /\ \/ ~AcceptsFinal(c, m) /\ Reply(c, "error", <<>>)
       \/ /\ AcceptsFinal(c, m) /\ ~VerifyClientProof(c, m)
          /\ Reply(c, "failed", <<>>)
       \/ /\ AcceptsFinal(c, m) /\ VerifyClientProof(c, m)
          /\ Reply(c, "ok", <<[type |-> "fin", sig |-> ServerSignature(c, m)]>>)
    /\ c2s' = [c2s EXCEPT ![c] = Tail(@)]
    /\ UNCHANGED <<roleVars, conf, shadow, cli>>

\* The answer to an MD5 or a cleartext request: md5_crypt_verify, or
\* get_role_password and plain_crypt_verify.
ServerPassword(c) ==
    LET stored == IF srv[c].at = "password" THEN RolePassword ELSE shadow[c] IN
    /\ srv[c].at \in {"password", "md5"} /\ c2s[c] # <<>>
    /\ shadow' = [shadow EXCEPT ![c] = stored]
    /\ Reply(c, IF stored # NoSecret /\ stored.pw = Head(c2s[c]).pw
                THEN "ok" ELSE "failed", <<>>)
    /\ c2s' = [c2s EXCEPT ![c] = Tail(@)]
    /\ UNCHANGED <<roleVars, conf, cli>>

\* The backend waits for an answer of a client that is gone: STATUS_EOF.
ServerEOF(c) ==
    /\ srv[c].at \notin {"start", "ok", "failed", "error", "gone"}
    /\ cli[c].at \in {"failed", "quit"} /\ c2s[c] = <<>>
    /\ srv' = [srv EXCEPT ![c] = [at |-> "gone"]]
    /\ UNCHANGED <<roleVars, conf, shadow, cli, c2s, s2c>>

\* authentication_timeout strikes.
ServerTimeout(c) ==
    /\ srv[c].at \notin {"ok", "failed", "error", "gone"}
    /\ srv' = [srv EXCEPT ![c] = [at |-> "gone"]]
    /\ s2c' = [s2c EXCEPT ![c] = Append(@, [type |-> "eof"])]
    /\ UNCHANGED <<roleVars, conf, shadow, cli, c2s>>
-----------------------------------------------------------------------------
\* The client.

\* The choice of pg_SASL_init: a -PLUS mechanism if offered and not disabled,
\* SHA-384 before SHA-256, else the first mechanism offered without it.
SelectedMechs(k, offered) ==
    LET usable == {offered[i] : i \in {j \in DOMAIN offered :
                        offered[j].plus => k.binding # "disable"}}
        plus == {m \in usable : m.plus}
        best == {m \in plus : m.hash = "sha384" \/ \A n \in plus : n.hash = "sha256"}
        first == {i \in DOMAIN offered : ~offered[i].plus
                    /\ \A j \in DOMAIN offered : ~offered[j].plus => i <= j}
        ok == /\ \A i \in DOMAIN offered : offered[i].plus => k.ssl
              /\ k.binding = "require" => k.ssl /\ plus # {}
    IN  IF ~ok THEN {} ELSE IF plus # {} THEN best ELSE {offered[i] : i \in first}

\* Mutant: channel_binding = disable is not honoured.
GS2FlagIgnoresDisable(k, mech) ==
    IF mech = [hash |-> "sha256", plus |-> TRUE] THEN "p"
    ELSE IF k.ssl THEN "y" ELSE "n"

\* The gs2 flag of build_client_first_message: only SCRAM-SHA-256-PLUS gets "p".
GS2Flag(k, mech) ==
    IF mech = [hash |-> "sha256", plus |-> TRUE] THEN "p"
    ELSE IF k.binding # "disable" /\ k.ssl THEN "y" ELSE "n"

SASLRequests == {"sasl", "cont", "fin"}

\* Mutant: scram_channel_bound is asked one state too early.
ExpectedBoundEarly(c, type) ==
    LET k == conf[c]
        Done(s) == type = "ok" /\ cli[c].at = s
    IN
    /\ k.scramOnly => type \in SASLRequests \/ Done("finished")
    /\ k.binding = "require" =>
        type \in SASLRequests \/ (Done("proof_sent") /\ cli[c].mech.plus)

\* check_expected_areq and scram_channel_bound.
Expected(c, type) ==
    LET k == conf[c]
        done == type = "ok" /\ cli[c].at = "finished"
    IN
    /\ k.scramOnly => type \in SASLRequests \/ done
    /\ k.binding = "require" =>
        type \in SASLRequests \/ (done /\ cli[c].mech.plus)

ClientTo(c, s) == cli' = [cli EXCEPT ![c] = s]
ClientSend(c, m) == c2s' = [c2s EXCEPT ![c] = Append(@, m)]

\* build_client_final_message.
FinalMessage(c, m) ==
    LET mech == cli[c].mech
        flag == GS2Flag(conf[c], mech)
        cbind == IF flag = "p" THEN <<"p", Cert(c, "client")>> ELSE <<flag>>
        key == [hash |-> mech.hash, pw |-> conf[c].pw, salt |-> m.salt]
    IN  [cbind |-> cbind, nonce |-> m.nonce,
         proof |-> [key |-> key, auth |-> AuthMessage(m.nonce, m.salt, cbind)]]

\* The checks of pg_fe_sendauth, pg_SASL_init, read_server_first_message and
\* verify_server_signature.
Handles(c, m) ==
    /\ m.type \notin {"error", "eof"} /\ Expected(c, m.type)
    /\ m.type = "sasl" => SelectedMechs(conf[c], m.mechs) # {}
    /\ m.type = "cont" => m.nonce[1] = Nonce(c, "client")
    /\ m.type = "fin" => m.sig = cli[c].proof

\* pg_fe_sendauth, pg_SASL_init, pg_SASL_continue: the response to a request.
ClientRespond(c, m) ==
    \/ /\ m.type = "sasl"
       /\ \E mech \in SelectedMechs(conf[c], m.mechs) :
            /\ ClientTo(c, [at |-> "nonce_sent", mech |-> mech])
            /\ ClientSend(c, [mech |-> mech, flag |-> GS2Flag(conf[c], mech),
                              nonce |-> Nonce(c, "client")])
    \/ /\ m.type = "cont"
       /\ ClientTo(c, [at |-> "proof_sent", mech |-> cli[c].mech,
                       proof |-> FinalMessage(c, m).proof])
       /\ ClientSend(c, FinalMessage(c, m))
    \/ /\ m.type = "fin"
       /\ ClientTo(c, [at |-> "finished", mech |-> cli[c].mech])
       /\ UNCHANGED c2s
    \/ /\ m.type \in {"md5", "password"}
       /\ ClientTo(c, [at |-> "password_sent"])
       /\ ClientSend(c, [pw |-> conf[c].pw])
    \/ /\ m.type = "ok"
       /\ ClientTo(c, [at |-> "connected"])
       /\ UNCHANGED c2s

ClientReceive(c) ==
    LET m == Head(s2c[c]) IN
    /\ s2c[c] # <<>> /\ cli[c].at \notin {"connected", "failed", "quit"}
    /\ \/ Handles(c, m) /\ ClientRespond(c, m)
       \/ ~Handles(c, m) /\ ClientTo(c, [at |-> "failed"]) /\ UNCHANGED c2s
    /\ s2c' = [s2c EXCEPT ![c] = Tail(@)]
    /\ UNCHANGED <<roleVars, conf, shadow, srv>>

\* The application gives up, or the connection breaks.
ClientQuit(c) ==
    /\ cli[c].at \notin {"connected", "failed", "quit"}
    /\ ClientTo(c, [at |-> "quit"])
    /\ UNCHANGED <<roleVars, conf, shadow, srv, c2s, s2c>>
-----------------------------------------------------------------------------
RoleChange ==
    \/ \E pw \in Passwords : SetPassword(pw)
    \/ \E e \in Hashes \cup {"md5"} : SetEncryption(e)
    \/ LosePassword
    \/ ChangeValidUntil
    \/ MigrateCredentials

ServerStep(c) ==
    \/ ServerBegin(c) \/ ServerInitial(c) \/ ServerFinal(c)
    \/ ServerPassword(c) \/ ServerEOF(c)

Next ==
    \/ RoleChange
    \/ \E c \in Conns :
        ServerStep(c) \/ ServerTimeout(c) \/ ClientReceive(c) \/ ClientQuit(c)

\* Both processes run; the client also sees the end of the connection.
Fairness ==
    \A c \in Conns : WF_vars(ServerStep(c)) /\ WF_vars(ClientReceive(c))

Spec == Init /\ [][Next]_vars /\ Fairness

-----------------------------------------------------------------------------
ServerEnds == {"ok", "failed", "error", "gone"}
ClientEnds == {"connected", "failed", "quit"}

\* Type invariant.
TypeOK ==
    /\ secret \in Secrets \cup {NoSecret} /\ expired \in BOOLEAN
    /\ salts \in 0 .. MaxSalt
    /\ encryption \in Hashes \cup {"md5"}
    /\ conf \in [Conns -> Confs]
    /\ shadow \in [Conns -> Secrets \cup {NoSecret}]
    /\ \A c \in Conns :
        /\ srv[c].at \in ServerEnds \cup
                {"start", "sasl", "salt_sent", "md5", "password"}
        /\ srv[c].at = "salt_sent" => srv[c].hash \in Hashes
        /\ cli[c].at \in ClientEnds \cup
                {"start", "nonce_sent", "proof_sent", "finished", "password_sent"}
        /\ Len(c2s[c]) <= 1 /\ Len(s2c[c]) <= 3

\* What the client picks from the server's offer, if anything.
Mech(c) == CHOOSE m \in SelectedMechs(conf[c], OfferedMechs(conf[c])) : TRUE

\* The reference: which attempts may succeed.  The secret read for the
\* connection was made from the client's password and is of the kind the method
\* works with; the client does not refuse the method; the two ends see the same
\* certificate if they bind to it.
Compatible(c) ==
    LET k == conf[c]
        s == shadow[c]
    IN
    /\ s # NoSecret /\ s.pw = k.pw
    /\ \/ /\ k.method = "password" \/ (k.method = "md5" /\ s.type = "md5")
          /\ ~k.scramOnly /\ k.binding # "require"
       \/ /\ k.method # "password" /\ s.type \in Hashes
          /\ SelectedMechs(k, OfferedMechs(k)) # {}
          /\ s.type = Mech(c).hash
          /\ Mech(c).plus => ~k.relay

\* A backend lets a client in, and libpq reports success, only for an attempt
\* that may succeed: whatever the role's password and password_encryption become
\* meanwhile, whichever of the four methods, with and without channel binding.
AcceptsOnlyCompatible ==
    \A c \in Conns :
        srv[c].at = "ok" \/ cli[c].at = "connected" => Compatible(c)

\* SCRAM-SHA-384-PLUS, for which build_client_first_message sends the wrong flag.
PqcPlus(c) ==
    /\ SelectedMechs(conf[c], OfferedMechs(conf[c])) # {}
    /\ Mech(c) = [hash |-> "sha384", plus |-> TRUE]

\* Conversely an attempt that may succeed is never turned down by either end,
\* except where SCRAM-SHA-384-PLUS is negotiated: channel binding options, hash
\* types and requirements of the two ends fit together in all combinations.
RejectsOnlyWithCause ==
    \A c \in Conns :
        /\ srv[c].at \in {"failed", "error"} \/ cli[c].at = "failed"
        /\ srv[c].at # "gone" /\ ~PqcPlus(c)
        => ~Compatible(c)

\* The two ends come to the same verdict: a client that reports success was let
\* in, and one that was let in never refuses the connection afterwards.
VerdictsAgree ==
    \A c \in Conns :
        /\ cli[c].at = "connected" => srv[c].at = "ok"
        /\ srv[c].at = "ok" => cli[c].at # "failed"

\* No attempt hangs with each end waiting for the other.
EveryAttemptEnds ==
    \A c \in Conns : <>(srv[c].at \in ServerEnds /\ cli[c].at \in ClientEnds)

\* doc/src/sgml/pqc.sgml, of pqc-scram-sha-384: "The SASL mechanism names are
\* SCRAM-SHA-384 and SCRAM-SHA-384-PLUS (with channel binding)".  With the
\* second one the server rejects libpq's first message.
PqcPlusWorks ==
    \A c \in Conns :
        PqcPlus(c) /\ Compatible(c) => srv[c].at \notin {"failed", "error"}
=============================================================================
