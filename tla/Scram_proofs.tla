---------------------------- MODULE Scram_proofs ----------------------------
(***************************************************************************)
(* For every set of connections and passwords and however many passwords   *)
(* the role is given: only compatible attempts are accepted, the two ends  *)
(* agree, and an attempt is only turned down for a cause.  The invariant   *)
(* says of each connection which messages are on their way for each pair   *)
(* of states of the two ends, and that every value in them was computed    *)
(* from the connection's own configuration and the one secret its backend  *)
(* has read, whatever the role's password has become since.                *)
(***************************************************************************)
EXTENDS Scram, TLAPS

\* The client answers requests for a password (check_expected_areq).
Tolerates(k) == ~k.scramOnly /\ k.binding # "require"
\* pg_SASL_init finds a mechanism it can use in the offer.
Chosen(c) == SelectedMechs(conf[c], OfferedMechs(conf[c])) # {}
\* The salt the server sends: that of the secret, or the mock one.
Salt(c) == IF ParseScramSecret(shadow[c]) THEN shadow[c].salt ELSE 0
\* The nonce both ends have contributed to.
Nonces(c) == <<Nonce(c, "client"), Nonce(c, "server")>>
\* The channel binding data of the client, Mech(c) being chosen.
Bound(c) ==
    LET flag == GS2Flag(conf[c], Mech(c)) IN
    IF flag = "p" THEN <<"p", Cert(c, "client")>> ELSE <<flag>>
\* The proof the client computes, and the signature it expects.
Proof(c) ==
    [key |-> [hash |-> Mech(c).hash, pw |-> conf[c].pw, salt |-> Salt(c)],
     auth |-> AuthMessage(Nonces(c), Salt(c), Bound(c))]
\* The messages of the exchange, each as it must be if it is ever sent.
FirstMsg(c) ==
    [mech |-> Mech(c), flag |-> GS2Flag(conf[c], Mech(c)), nonce |-> Nonce(c, "client")]
FinalMsg(c) == [cbind |-> Bound(c), nonce |-> Nonces(c), proof |-> Proof(c)]
Offer(c) == [type |-> "sasl", mechs |-> OfferedMechs(conf[c])]
Cont(c) == [type |-> "cont", salt |-> Salt(c), nonce |-> Nonces(c)]
Fin(c) == [type |-> "fin", sig |-> Proof(c)]
Msg(t) == [type |-> t]
\* What an AUTH_REQ that asks the client for something may be.
Requests(c) == {Offer(c), Cont(c), Msg("md5"), Msg("password")}

\* The client has yet to read m; m is on its way to the server; the client has
\* refused; all the server has left to say is ms.  A client that gave up leaves
\* the messages where they are.
Asked(c, m, at) == s2c[c] = <<m>> /\ c2s[c] = <<>> /\ cli[c].at \in {at, "quit"}
Answered(c, m, at) == s2c[c] = <<>> /\ c2s[c] = <<m>> /\ cli[c].at \in {at, "quit"}
Refused(c) == s2c[c] = <<>> /\ c2s[c] = <<>> /\ cli[c].at = "failed"
Told(c, ms, at) == s2c[c] = ms /\ c2s[c] = <<>> /\ cli[c].at \in at

\* The state libpq carries from one request to the next.
Knows(c) ==
    /\ cli[c].at \in {"nonce_sent", "proof_sent", "finished"} => cli[c].mech = Mech(c)
    /\ cli[c].at = "proof_sent" => cli[c].proof = Proof(c)

\* The state scram_init and read_client_first_message leave in the backend.
SaltSent(c) ==
    LET s == srv[c]
        got == ParseScramSecret(shadow[c]) IN
    /\ s.plus = Mech(c).plus /\ s.flag = GS2Flag(conf[c], Mech(c))
    /\ s.hash = IF got THEN shadow[c].type ELSE Mech(c).hash
    /\ s.doomed = ~got /\ s.salt = Salt(c) /\ s.nonce = Nonce(c, "client")
    /\ AcceptsFirst(conf[c], FirstMsg(c))

\* ClientAuthentication took the branch that asks for a password.
ForPassword(c) ==
    \/ srv[c].at = "password" /\ conf[c].method = "password"
    \/ /\ srv[c].at = "md5" /\ conf[c].method = "md5"
       /\ shadow[c] = NoSecret \/ shadow[c].type = "md5"

\* ClientAuthentication took the branch that starts SASL.
ForSasl(c) ==
    /\ conf[c].method # "password"
    /\ conf[c].method = "md5" => shadow[c] = NoSecret \/ shadow[c].type \in Hashes

\* Where a connection can be: for each state of the server, what is on its way
\* to either end and what the client is waiting for, and at the ends the verdict.
ConnInv(c) ==
  /\ srv[c].at \in ServerEnds \cup {"start", "sasl", "salt_sent", "md5", "password"}
  /\ cli[c].at \in ClientEnds \cup
        {"start", "nonce_sent", "proof_sent", "finished", "password_sent"}
  /\ srv[c].at = "start" => Told(c, <<>>, {"start", "quit"})
  /\ srv[c].at \in {"password", "md5"} =>
        /\ ForPassword(c)
        /\ \/ Asked(c, Msg(srv[c].at), "start")
           \/ Answered(c, [pw |-> conf[c].pw], "password_sent") /\ Tolerates(conf[c])
           \/ Refused(c) /\ ~Tolerates(conf[c])
  /\ srv[c].at = "sasl" =>
        /\ ForSasl(c)
        /\ \/ Asked(c, Offer(c), "start")
           \/ Chosen(c) /\ Knows(c) /\ Answered(c, FirstMsg(c), "nonce_sent")
           \/ Refused(c) /\ ~Chosen(c)
  /\ srv[c].at = "salt_sent" =>
        /\ ForSasl(c) /\ Chosen(c) /\ Knows(c) /\ SaltSent(c)
        /\ Asked(c, Cont(c), "nonce_sent") \/ Answered(c, FinalMsg(c), "proof_sent")
  /\ srv[c].at = "ok" =>
        /\ Compatible(c)
        /\ \/ Told(c, <<Msg("ok")>>, {"password_sent", "quit"}) /\ Tolerates(conf[c])
           \/ Chosen(c) /\ Knows(c) /\ Told(c, <<Fin(c), Msg("ok")>>, {"proof_sent", "quit"})
           \/ Chosen(c) /\ Knows(c) /\ Told(c, <<Msg("ok")>>, {"finished", "quit"})
           \/ Told(c, <<>>, {"connected"})
  /\ srv[c].at \in {"failed", "error"} =>
        /\ ~PqcPlus(c) => ~Compatible(c)
        /\ \/ Told(c, <<Msg("error")>>, {"password_sent", "nonce_sent", "proof_sent", "quit"})
           \/ Told(c, <<>>, {"failed"})
  /\ srv[c].at = "gone" =>
        /\ cli[c].at \notin {"connected", "finished"}
        /\ Len(c2s[c]) <= 1
        /\ \/ s2c[c] = <<>> /\ cli[c].at \in {"failed", "quit"}
           \/ (\E m \in Requests(c) : s2c[c] = <<m>>) /\ cli[c].at = "quit"
           \/ s2c[c] = <<Msg("eof")>>
           \/ (\E m \in Requests(c) : s2c[c] = <<m, Msg("eof")>>) /\ c2s[c] = <<>>

\* The types of the rest of the state.
RoleOK ==
    /\ secret \in Secrets \cup {NoSecret} /\ expired \in BOOLEAN
    /\ salts \in 0 .. MaxSalt
    /\ encryption \in Hashes \cup {"md5"}
    /\ conf \in [Conns -> Confs]
    /\ shadow \in [Conns -> Secrets \cup {NoSecret}]
    /\ DOMAIN srv = Conns /\ DOMAIN cli = Conns
    /\ DOMAIN c2s = Conns /\ DOMAIN s2c = Conns

\* The inductive invariant.
Inv == RoleOK /\ \A c \in Conns : ConnInv(c)
-----------------------------------------------------------------------------
\* Concatenation with the empty queue.
LEMMA OneAfterNone ==
    ASSUME NEW a
    PROVE  <<>> \o <<a>> = <<a>>
<1>1. <<>> \in Seq({a}) /\ <<a>> \in Seq({a})
  OBVIOUS
<1>2. Len(<<>> \o <<a>>) = 1 /\ <<>> \o <<a>> \in Seq({a}) /\ (<<>> \o <<a>>)[1] = a
  BY <1>1
<1> QED BY <1>2

\* Concatenation of two messages.
LEMMA OneAfterOne ==
    ASSUME NEW a, NEW b
    PROVE  <<a>> \o <<b>> = <<a, b>>
<1> DEFINE s == <<a>> \o <<b>>
<1>1. <<a>> \in Seq({a, b}) /\ <<b>> \in Seq({a, b})
  OBVIOUS
<1>2. Len(s) = 2 /\ s \in Seq({a, b}) /\ s[1] = a /\ s[2] = b
  BY <1>1
<1>3. s = <<a, b>>
  <2> HIDE DEF s
  <2> QED BY <1>2
<1> QED BY <1>3

\* Concatenation of two empty queues.
LEMMA NoneAfterNone == <<>> \o <<>> = <<>>
<1>1. Len(<<>> \o <<>>) = 0 /\ <<>> \o <<>> \in Seq({})
  OBVIOUS
<1> QED BY <1>1

\* Sending after a message that is still on its way.
LEMMA OneMore ==
    ASSUME NEW a, NEW b
    PROVE  Append(<<a>>, b) = <<a, b>>
<1> DEFINE s == Append(<<a>>, b)
<1>1. <<a>> \in Seq({a, b})
  OBVIOUS
<1>2. Len(s) = 2 /\ s \in Seq({a, b}) /\ s[1] = a /\ s[2] = b
  BY <1>1
<1>3. s = <<a, b>>
  <2> HIDE DEF s
  <2> QED BY <1>2
<1> QED BY <1>3

\* What sending to and receiving from queues of at most two messages gives.
LEMMA Wires ==
    ASSUME NEW a, NEW b
    PROVE  /\ Append(<<>>, a) = <<a>> /\ Append(<<a>>, b) = <<a, b>>
           /\ Head(<<a>>) = a /\ Tail(<<a>>) = <<>> /\ <<a>> # <<>>
           /\ Head(<<a, b>>) = a /\ Tail(<<a, b>>) = <<b>> /\ <<a, b>> # <<>>
           /\ Len(<<>>) = 0 /\ Len(<<a>>) = 1 /\ Len(<<a, b>>) = 2
           /\ <<a>>[1] = a /\ <<a, b>>[1] = a /\ <<a, b>>[2] = b
           /\ <<>> \o <<>> \o <<a>> = <<a>> /\ <<>> \o <<a>> \o <<b>> = <<a, b>>
<1>1. Append(<<>>, a) = <<a>>
  OBVIOUS
<1>2. Append(<<a>>, b) = <<a, b>>
  BY OneMore
<1>3. Head(<<a>>) = a /\ Tail(<<a>>) = <<>> /\ <<a>> # <<>>
  OBVIOUS
<1>4. Head(<<a, b>>) = a /\ Tail(<<a, b>>) = <<b>> /\ <<a, b>> # <<>>
  OBVIOUS
<1>5. Len(<<>>) = 0 /\ Len(<<a>>) = 1 /\ Len(<<a, b>>) = 2
  OBVIOUS
<1>6. <<a>>[1] = a /\ <<a, b>>[1] = a /\ <<a, b>>[2] = b
  OBVIOUS
<1>7. <<>> \o <<>> \o <<a>> = <<a>>
  BY OneAfterNone, NoneAfterNone
<1>8. <<>> \o <<a>> \o <<b>> = <<a, b>>
  BY OneAfterNone, OneAfterOne
<1> QED BY <1>1, <1>2, <1>3, <1>4, <1>5, <1>6, <1>7, <1>8, Zenon

\* Receiving the first of two messages.
LEMMA TwoLeft ==
    ASSUME NEW a, NEW b
    PROVE  Head(<<a, b>>) = a /\ Tail(<<a, b>>) = <<b>>
  OBVIOUS

\* What pg_SASL_init selects from scram_get_mechanisms is determined by the
\* configuration: the hash of the method, and -PLUS exactly with SSL and channel
\* binding not disabled; it selects nothing without SSL where binding is required.
LEMMA Selection ==
    ASSUME NEW k \in Confs, NEW m \in SelectedMechs(k, OfferedMechs(k))
    PROVE  /\ m = [hash |-> IF k.method = "pqc-scram-sha-384" THEN "sha384" ELSE "sha256",
                   plus |-> k.ssl /\ k.binding # "disable"]
           /\ k.binding = "require" => k.ssl
<1> DEFINE h == IF k.method = "pqc-scram-sha-384" THEN "sha384" ELSE "sha256"
           a == [hash |-> h, plus |-> TRUE]
           b == [hash |-> h, plus |-> FALSE]
<1>1. CASE k.ssl
  <2>1. OfferedMechs(k) = <<a, b>>
    BY <1>1, Zenon DEF OfferedMechs
  <2>2. DOMAIN <<a, b>> = {1, 2} /\ <<a, b>>[1] = a /\ <<a, b>>[2] = b
    BY SMTT(30), Z3T(30)
  <2>3. k.binding # "disable" => m = a
    BY <1>1, <2>1, <2>2 DEF SelectedMechs
  <2>4. k.binding = "disable" => m = b
    BY <1>1, <2>1, <2>2 DEF SelectedMechs
  <2> QED BY <1>1, <2>3, <2>4, Zenon DEF Confs
<1>2. CASE ~k.ssl
  <2>1. OfferedMechs(k) = <<b>>
    BY <1>2, Zenon DEF OfferedMechs
  <2>2. DOMAIN <<b>> = {1} /\ <<b>>[1] = b
    OBVIOUS
  <2>3. m = b /\ k.binding # "require"
    BY <1>2, <2>1, <2>2, Zenon DEF SelectedMechs
  <2> QED BY <1>2, <2>3, Zenon DEF Confs
<1> QED BY <1>1, <1>2

\* Mech(c) is that selection, the only one.
LEMMA Choice ==
    ASSUME NEW c \in Conns, conf[c] \in Confs, Chosen(c)
    PROVE  /\ Mech(c) \in SelectedMechs(conf[c], OfferedMechs(conf[c]))
           /\ \A m \in SelectedMechs(conf[c], OfferedMechs(conf[c])) : m = Mech(c)
           /\ Mech(c).hash = IF conf[c].method = "pqc-scram-sha-384" THEN "sha384" ELSE "sha256"
           /\ Mech(c).plus = (conf[c].ssl /\ conf[c].binding # "disable")
           /\ conf[c].binding = "require" => conf[c].ssl
           /\ \A h \in Hashes :
                Mech(c) = [hash |-> h, plus |-> TRUE] <=> Mech(c).hash = h /\ Mech(c).plus
<1>1. Mech(c) \in SelectedMechs(conf[c], OfferedMechs(conf[c]))
  BY Zenon DEF Mech, Chosen
<1>2. \A m \in SelectedMechs(conf[c], OfferedMechs(conf[c])) : m = Mech(c)
  BY <1>1, Selection, Zenon
<1>3. /\ Mech(c) = [hash |-> IF conf[c].method = "pqc-scram-sha-384" THEN "sha384" ELSE "sha256",
                   plus |-> conf[c].ssl /\ conf[c].binding # "disable"]
      /\ conf[c].binding = "require" => conf[c].ssl
  BY <1>1, Selection
<1>4. \A h \in Hashes :
        Mech(c) = [hash |-> h, plus |-> TRUE] <=> Mech(c).hash = h /\ Mech(c).plus
  <2> DEFINE H == IF conf[c].method = "pqc-scram-sha-384" THEN "sha384" ELSE "sha256"
             P == conf[c].ssl /\ conf[c].binding # "disable"
  <2>1. Mech(c) = [hash |-> H, plus |-> P]
    BY <1>3
  <2> HIDE DEF H, P
  <2>2. P \in BOOLEAN
    BY DEF P
  <2>3. P = TRUE \/ P = FALSE
    BY <2>2
  <2>4. CASE P = TRUE
    <3>1. Mech(c) = [hash |-> H, plus |-> TRUE]
      BY <2>1, <2>4, Zenon
    <3>2. Mech(c).hash = H /\ Mech(c).plus
      BY <3>1
    <3>3. \A h \in Hashes : Mech(c) = [hash |-> h, plus |-> TRUE] => Mech(c).hash = h
      OBVIOUS
    <3> QED BY <3>1, <3>2, <3>3, Zenon
  <2>5. CASE P = FALSE
    BY <2>1, <2>5
  <2> QED BY <2>3, <2>4, <2>5, Zenon
<1> QED BY <1>1, <1>2, <1>3, <1>4

\* build_client_first_message sends a flag that read_client_first_message accepts,
\* except for SCRAM-SHA-384-PLUS.
LEMMA Flag ==
    ASSUME NEW c \in Conns, conf[c] \in Confs, Chosen(c), ~PqcPlus(c)
    PROVE  AcceptsFirst(conf[c], FirstMsg(c))
<1> DEFINE k == conf[c]
           flag == GS2Flag(k, Mech(c))
<1>1. FirstMsg(c).mech = Mech(c) /\ FirstMsg(c).flag = flag
  BY DEF FirstMsg
<1>2. ~(Mech(c).hash = "sha384" /\ Mech(c).plus)
  BY Choice DEF PqcPlus, Hashes, Chosen
<1>3. flag = IF Mech(c).hash = "sha256" /\ Mech(c).plus THEN "p"
             ELSE IF k.binding # "disable" /\ k.ssl THEN "y" ELSE "n"
  BY Choice DEF GS2Flag, Hashes
<1>4. Mech(c).hash \in Hashes /\ (k.method = "pqc-scram-sha-384" => Mech(c).hash = "sha384")
  BY Choice DEF Hashes
<1>5. Mech(c).plus = (k.ssl /\ k.binding # "disable")
  BY Choice
<1> HIDE DEF flag
<1> QED BY <1>1, <1>2, <1>3, <1>4, <1>5, Zenon DEF AcceptsFirst, Hashes

\* What the messages are computed from does not change: neither the configuration
\* nor the secret that was read.
LEMMA Same ==
    ASSUME NEW c \in Conns, conf' = conf, shadow'[c] = shadow[c]
    PROVE  /\ Mech(c)' = Mech(c) /\ Chosen(c)' = Chosen(c) /\ Salt(c)' = Salt(c)
           /\ Bound(c)' = Bound(c) /\ Proof(c)' = Proof(c)
           /\ FirstMsg(c)' = FirstMsg(c) /\ FinalMsg(c)' = FinalMsg(c)
           /\ Offer(c)' = Offer(c) /\ Cont(c)' = Cont(c) /\ Fin(c)' = Fin(c)
           /\ Compatible(c)' = Compatible(c) /\ PqcPlus(c)' = PqcPlus(c)
           /\ ForSasl(c)' = ForSasl(c) /\ Requests(c)' = Requests(c)
<1>1. Mech(c)' = Mech(c) /\ Chosen(c)' = Chosen(c) /\ Offer(c)' = Offer(c)
  BY DEF Mech, Chosen, Offer
<1>2. Salt(c)' = Salt(c)
  BY DEF Salt
<1>3. Bound(c)' = Bound(c)
  BY <1>1 DEF Bound, Cert
<1>4. Proof(c)' = Proof(c)
  BY <1>1, <1>2, <1>3, Zenon DEF Proof
<1>5. FirstMsg(c)' = FirstMsg(c) /\ FinalMsg(c)' = FinalMsg(c)
  BY <1>1, <1>3, <1>4, Zenon DEF FirstMsg, FinalMsg
<1>6. Cont(c)' = Cont(c) /\ Fin(c)' = Fin(c)
  BY <1>2, <1>4, Zenon DEF Cont, Fin
<1>7. Compatible(c)' = Compatible(c)
  BY <1>1 DEF Compatible
<1>8. PqcPlus(c)' = PqcPlus(c)
  BY <1>1 DEF PqcPlus
<1>9. ForSasl(c)' = ForSasl(c)
  BY DEF ForSasl
<1>10. Requests(c)' = Requests(c)
  BY <1>1, <1>6, ZenonT(40) DEF Requests, Msg
<1> QED BY <1>1, <1>2, <1>3, <1>4, <1>5, <1>6, <1>7, <1>8, <1>9, <1>10

\* A step that leaves a connection alone keeps its invariant.
LEMMA Frame ==
    ASSUME NEW c \in Conns, conf' = conf, shadow'[c] = shadow[c],
           srv'[c] = srv[c], cli'[c] = cli[c], c2s'[c] = c2s[c], s2c'[c] = s2c[c],
           ConnInv(c)
    PROVE  ConnInv(c)'
<1>1. Knows(c)' = Knows(c) /\ SaltSent(c)' = SaltSent(c) /\ ForPassword(c)' = ForPassword(c)
  BY Same, Zenon DEF Knows, SaltSent, ForPassword
<1>2. CASE srv[c].at \in {"start", "password", "md5"}
  BY <1>1, <1>2, Same, ZenonT(40) DEF ConnInv, Told, Asked, Answered, Refused, ServerEnds, ClientEnds
<1>3. CASE srv[c].at = "sasl"
  BY <1>1, <1>3, Same, ZenonT(40) DEF ConnInv, Asked, Answered, Refused, ServerEnds, ClientEnds
<1>4. CASE srv[c].at = "salt_sent"
  BY <1>1, <1>4, Same, ZenonT(40) DEF ConnInv, Asked, Answered, ServerEnds, ClientEnds
<1>5. CASE srv[c].at \in {"ok", "failed", "error"}
  BY <1>1, <1>5, Same, ZenonT(40) DEF ConnInv, Told, ServerEnds, ClientEnds
<1>6. CASE srv[c].at = "gone"
  BY <1>6, Same, ZenonT(40) DEF ConnInv, ServerEnds, ClientEnds
<1>7. srv[c].at \in {"ok", "failed", "error", "gone", "start", "sasl", "salt_sent", "md5", "password"}
  BY Zenon DEF ConnInv, ServerEnds
<1> QED BY <1>2, <1>3, <1>4, <1>5, <1>6, <1>7, Zenon

\* ClientAuthentication starts the exchange of the method and the secret.
LEMMA BeginStep ==
    ASSUME Inv, NEW c \in Conns, ServerBegin(c)
    PROVE  ConnInv(c)'
<1> DEFINE k == conf[c]
<1>1. /\ Told(c, <<>>, {"start", "quit"}) /\ conf' = conf /\ cli' = cli /\ c2s' = c2s
      /\ DOMAIN srv = Conns /\ DOMAIN s2c = Conns /\ DOMAIN shadow = Conns
      /\ encryption \in Hashes \cup {"md5"} /\ RolePassword \in Secrets \cup {NoSecret}
  BY Zenon DEF Inv, RoleOK, ConnInv, ServerBegin, RolePassword
<1>2. CASE /\ k.method = "password"
           /\ srv' = [srv EXCEPT ![c] = [at |-> "password"]]
           /\ s2c' = [s2c EXCEPT ![c] = Append(@, [type |-> "password"])]
  <2>1. srv'[c].at = "password" /\ s2c'[c] = <<Msg("password")>>
    BY <1>1, <1>2, Wires DEF Told, Msg
  <2>2. Asked(c, Msg(srv[c].at), "start")' /\ ForPassword(c)'
    BY <1>1, <1>2, <2>1, Zenon DEF Asked, Told, ForPassword
  <2> QED BY <1>1, <2>1, <2>2 DEF ConnInv, Told, ServerEnds, ClientEnds
<1>3. CASE k.method # "password"
  <2> DEFINE pwtype == IF RolePassword = NoSecret THEN encryption ELSE RolePassword.type
  <2>1. shadow'[c] = RolePassword
    BY <1>1, <1>3, Zenon DEF ServerBegin
  <2>2. CASE /\ k.method = "md5" /\ pwtype = "md5"
             /\ srv' = [srv EXCEPT ![c] = [at |-> "md5"]]
             /\ s2c' = [s2c EXCEPT ![c] = Append(@, [type |-> "md5"])]
    <3>1. srv'[c].at = "md5" /\ s2c'[c] = <<Msg("md5")>>
      BY <1>1, <2>2, Wires, Zenon DEF Told, Msg
    <3>2. Asked(c, Msg(srv[c].at), "start")' /\ ForPassword(c)'
      BY <1>1, <2>1, <2>2, <3>1, Zenon DEF Asked, Told, ForPassword
    <3> QED BY <1>1, <3>1, <3>2 DEF ConnInv, Told, ServerEnds, ClientEnds
  <2>3. CASE /\ ~(k.method = "md5" /\ pwtype = "md5")
             /\ srv' = [srv EXCEPT ![c] = [at |-> "sasl"]]
             /\ s2c' = [s2c EXCEPT ![c] =
                        Append(@, [type |-> "sasl", mechs |-> OfferedMechs(k)])]
    <3>1. srv'[c].at = "sasl" /\ s2c'[c] = <<Offer(c)>>
      BY <1>1, <2>3, Wires DEF Told, Offer
    <3>2. Offer(c)' = Offer(c)
      BY <1>1 DEF Offer
    <3>3. Asked(c, Offer(c), "start")'
      BY <1>1, <3>1, <3>2, Zenon DEF Asked, Told
    <3>4. ForSasl(c)'
      BY <1>1, <1>3, <2>1, <2>3 DEF ForSasl, Secrets
    <3> QED BY <1>1, <3>1, <3>3, <3>4, Zenon DEF ConnInv, Told, ServerEnds, ClientEnds
  <2> QED BY <1>3, <2>2, <2>3, Zenon DEF ServerBegin
<1> QED BY <1>2, <1>3 DEF ServerBegin

\* SASLInitialResponse: the server sends the salt, or rejects the flag, which only
\* happens to SCRAM-SHA-384-PLUS.
LEMMA InitialStep ==
    ASSUME Inv, NEW c \in Conns, ServerInitial(c)
    PROVE  ConnInv(c)'
<1> DEFINE m == Head(c2s[c])
<1>1. /\ conf' = conf /\ cli' = cli /\ shadow' = shadow /\ conf[c] \in Confs
      /\ shadow[c] \in Secrets \cup {NoSecret}
      /\ DOMAIN srv = Conns /\ DOMAIN s2c = Conns /\ DOMAIN c2s = Conns
      /\ srv[c].at = "sasl" /\ c2s[c] # <<>>
  BY DEF Inv, RoleOK, ServerInitial
<1>2. ForSasl(c) /\ Chosen(c) /\ Knows(c) /\ Answered(c, FirstMsg(c), "nonce_sent")
  BY <1>1, Zenon DEF Inv, ConnInv, Asked, Answered, Refused
<1>3. m = FirstMsg(c) /\ c2s'[c] = <<>> /\ s2c[c] = <<>> /\ cli[c].at \in {"nonce_sent", "quit"}
  BY <1>1, <1>2, Wires DEF ServerInitial, Answered
<1>4. /\ FirstMsg(c).mech = Mech(c) /\ FirstMsg(c).flag = GS2Flag(conf[c], Mech(c))
      /\ FirstMsg(c).nonce = Nonce(c, "client")
  BY Zenon DEF FirstMsg
<1>5. Knows(c)' = Knows(c) /\ ForSasl(c)' /\ Chosen(c)'
  BY <1>1, <1>2, Same, Zenon DEF Knows
<1>6. CASE AcceptsFirst(conf[c], m)
  <2>1. /\ srv'[c] = [at |-> "salt_sent", plus |-> m.mech.plus, flag |-> m.flag,
                 hash |-> IF ParseScramSecret(shadow[c]) THEN shadow[c].type ELSE m.mech.hash,
                 doomed |-> ~ParseScramSecret(shadow[c]), salt |-> Salt(c), nonce |-> m.nonce]
        /\ s2c'[c] = Append(s2c[c], [type |-> "cont", salt |-> Salt(c),
                 nonce |-> <<m.nonce, Nonce(c, "server")>>])
    BY <1>1, <1>6, Zenon DEF ServerInitial, Salt
  <2>2. s2c'[c] = <<Cont(c)>> /\ srv'[c].at = "salt_sent"
    <3>1. m.nonce = Nonce(c, "client")
      BY <1>3, <1>4, Zenon
    <3>2. Cont(c) = [type |-> "cont", salt |-> Salt(c), nonce |-> <<m.nonce, Nonce(c, "server")>>]
      BY <3>1, Zenon DEF Cont, Nonces
    <3>3. s2c'[c] = Append(<<>>, Cont(c))
      BY <1>3, <2>1, <3>2, Zenon
    <3>4. srv'[c].at = "salt_sent"
      BY <2>1
    <3>5. ASSUME NEW a PROVE Append(<<>>, a) = <<a>>
      OBVIOUS
    <3> QED BY <3>3, <3>4, <3>5, Zenon
  <2>3. SaltSent(c)'
    <3>1. /\ srv'[c].plus = Mech(c).plus /\ srv'[c].flag = GS2Flag(conf[c], Mech(c))
          /\ srv'[c].hash = IF ParseScramSecret(shadow[c]) THEN shadow[c].type ELSE Mech(c).hash
          /\ srv'[c].doomed = ~ParseScramSecret(shadow[c])
          /\ srv'[c].salt = Salt(c) /\ srv'[c].nonce = Nonce(c, "client")
      BY <1>3, <1>4, <2>1
    <3>2. /\ Mech(c)' = Mech(c) /\ FirstMsg(c)' = FirstMsg(c) /\ Salt(c)' = Salt(c)
          /\ conf' = conf /\ shadow' = shadow
      BY <1>1, Same, Zenon
    <3>3. AcceptsFirst(conf[c], FirstMsg(c))'
      BY <1>3, <1>6, <3>2, Zenon
    <3> QED BY <3>1, <3>2, <3>3, Zenon DEF SaltSent
  <2>4. Asked(c, Cont(c), "nonce_sent")'
    BY <1>1, <1>3, <2>2, Same, Zenon DEF Asked
  <2> QED BY <1>1, <1>2, <1>3, <1>5, <2>2, <2>3, <2>4, Zenon DEF ConnInv, ServerEnds, ClientEnds
<1>7. CASE ~AcceptsFirst(conf[c], m)
  <2>1. Reply(c, "error", <<>>)
    BY <1>7, Zenon DEF ServerInitial
  <2>2. srv'[c].at = "error" /\ s2c'[c] = <<Msg("error")>>
    BY <1>1, <1>3, <2>1, Wires, Zenon DEF Reply, Msg
  <2>3. PqcPlus(c)
    BY <1>1, <1>2, <1>3, <1>7, Flag, Zenon
  <2>4. PqcPlus(c)'
    BY <1>1, <2>3, Same, Zenon
  <2>5. Told(c, <<Msg("error")>>, {"password_sent", "nonce_sent", "proof_sent", "quit"})'
    BY <1>1, <1>3, <2>2 DEF Told
  <2> QED BY <1>1, <1>3, <2>2, <2>4, <2>5, Zenon DEF ConnInv, ServerEnds, ClientEnds
<1> QED BY <1>6, <1>7, Zenon

\* The final message is accepted exactly for a compatible attempt: the binding
\* data agree iff there is no relay, the proof has the length of the secret's hash
\* iff the hashes agree, and then it is the right one iff the passwords agree.
LEMMA FinalStep ==
    ASSUME Inv, NEW c \in Conns, ServerFinal(c)
    PROVE  ConnInv(c)'
<1> DEFINE m == Head(c2s[c])
           k == conf[c]
           got == ParseScramSecret(shadow[c])
<1>1. /\ conf' = conf /\ cli' = cli /\ shadow' = shadow /\ conf[c] \in Confs
      /\ shadow[c] \in Secrets \cup {NoSecret}
      /\ DOMAIN srv = Conns /\ DOMAIN s2c = Conns /\ DOMAIN c2s = Conns
      /\ srv[c].at = "salt_sent" /\ c2s[c] # <<>>
  BY DEF Inv, RoleOK, ServerFinal
<1>2. ForSasl(c) /\ Chosen(c) /\ Knows(c) /\ SaltSent(c) /\ Answered(c, FinalMsg(c), "proof_sent")
  BY <1>1, Zenon DEF Inv, ConnInv, Asked, Answered
<1>3. m = FinalMsg(c) /\ c2s'[c] = <<>> /\ s2c[c] = <<>> /\ cli[c].at \in {"proof_sent", "quit"}
  BY <1>1, <1>2, Wires DEF ServerFinal, Answered
<1>4. FinalMsg(c).cbind = Bound(c) /\ FinalMsg(c).nonce = Nonces(c) /\ FinalMsg(c).proof = Proof(c)
  BY DEF FinalMsg
<1>5. /\ Proof(c).key = [hash |-> Mech(c).hash, pw |-> k.pw, salt |-> Salt(c)]
      /\ Proof(c).auth = AuthMessage(Nonces(c), Salt(c), Bound(c))
      /\ Proof(c).key.hash = Mech(c).hash
  BY Zenon DEF Proof
<1>7. /\ srv[c].plus = Mech(c).plus /\ srv[c].flag = GS2Flag(k, Mech(c))
      /\ srv[c].hash = IF got THEN shadow[c].type ELSE Mech(c).hash
      /\ srv[c].doomed = ~got /\ srv[c].salt = Salt(c) /\ srv[c].nonce = Nonce(c, "client")
      /\ GS2Flag(k, Mech(c)) = "p" <=> Mech(c).plus
  <2>1. FirstMsg(c).mech = Mech(c) /\ FirstMsg(c).flag = GS2Flag(k, Mech(c))
    BY Zenon DEF FirstMsg
  <2> QED BY <1>2, <2>1 DEF SaltSent, AcceptsFirst
<1>8. AcceptsFinal(c, m) <=> /\ Mech(c).plus => ~k.relay
                            /\ Mech(c).hash = srv[c].hash
  <2>1. m.nonce = <<srv[c].nonce, Nonce(c, "server")>>
    BY <1>3, <1>4, <1>7, Zenon DEF Nonces
  <2>2. m.proof.key.hash = Mech(c).hash
    BY <1>3, <1>4, <1>5, Zenon
  <2>3. (Bound(c) = IF srv[c].plus THEN <<"p", Cert(c, "server")>> ELSE <<srv[c].flag>>)
            <=> (Mech(c).plus => ~k.relay)
    BY <1>7, Zenon DEF Bound, Cert
  <2> QED BY <1>3, <1>4, <2>1, <2>2, <2>3, Zenon DEF AcceptsFinal
<1>9. AcceptsFinal(c, m) => (VerifyClientProof(c, m) <=> got /\ k.pw = shadow[c].pw)
  <2>1. m.proof.auth = AuthMessage(m.nonce, srv[c].salt, m.cbind)
    BY <1>3, <1>4, <1>5, <1>7
  <2>2. SUFFICES ASSUME AcceptsFinal(c, m)
                 PROVE  m.proof.key =
                            [hash |-> srv[c].hash, pw |-> shadow[c].pw, salt |-> srv[c].salt]
                            <=> k.pw = shadow[c].pw
    BY <1>7, <2>1, Zenon DEF VerifyClientProof
  <2>3. Mech(c).hash = srv[c].hash
    BY <1>8, <2>2, Zenon
  <2> QED BY <1>3, <1>4, <1>5, <1>7, <2>3, SMTT(30), Z3T(30)
<1>10. Compatible(c) <=> AcceptsFinal(c, m) /\ VerifyClientProof(c, m)
  <2>1. ~got => ~Compatible(c)
    BY <1>2 DEF Compatible, ForSasl, ParseScramSecret, Hashes
  <2>2. got => shadow[c] # NoSecret /\ shadow[c].type \in Hashes /\ shadow[c].type # "md5"
    BY DEF ParseScramSecret, Hashes
  <2>3. k.method # "password" /\ SelectedMechs(k, OfferedMechs(k)) # {}
    BY <1>2, Zenon DEF ForSasl, Chosen
  <2>4. got => srv[c].hash = shadow[c].type
    BY <1>7
  <2>5. ASSUME got, Compatible(c)
        PROVE  AcceptsFinal(c, m) /\ VerifyClientProof(c, m)
    <3>1. k.pw = shadow[c].pw /\ Mech(c).hash = srv[c].hash
      BY <2>2, <2>3, <2>4, <2>5, Zenon DEF Compatible
    <3>2. Mech(c).plus => ~k.relay
      BY <2>2, <2>3, <2>5, Zenon DEF Compatible
    <3> QED BY <1>8, <1>9, <2>5, <3>1, <3>2, Zenon
  <2>6. ASSUME AcceptsFinal(c, m), VerifyClientProof(c, m)
        PROVE  Compatible(c)
    <3>1. got /\ k.pw = shadow[c].pw
      BY <1>9, <2>6, Zenon
    <3>2. (Mech(c).plus => ~k.relay) /\ Mech(c).hash = shadow[c].type
      BY <1>8, <2>4, <2>6, <3>1, Zenon
    <3> QED BY <2>2, <2>3, <3>1, <3>2, Zenon DEF Compatible
  <2> QED BY <1>9, <2>1, <2>5, <2>6, Zenon
<1>11. CASE AcceptsFinal(c, m) /\ VerifyClientProof(c, m)
  <2>1. Reply(c, "ok", <<[type |-> "fin", sig |-> ServerSignature(c, m)]>>)
    BY <1>11 DEF ServerFinal
  <2>2. ServerSignature(c, m) = Proof(c)
    <3>1. m.proof.key = [hash |-> srv[c].hash, pw |-> shadow[c].pw, salt |-> srv[c].salt]
      BY <1>11, Zenon DEF VerifyClientProof
    <3>2. m.proof.auth = AuthMessage(m.nonce, srv[c].salt, m.cbind)
      BY <1>11 DEF VerifyClientProof
    <3>3. Proof(c) = [key |-> Proof(c).key, auth |-> Proof(c).auth]
      BY Zenon DEF Proof
    <3> QED BY <1>3, <1>4, <3>1, <3>2, <3>3, Zenon DEF ServerSignature
  <2>3. srv'[c].at = "ok" /\ s2c'[c] = <<Fin(c), Msg("ok")>>
    BY <1>1, <1>3, <2>1, <2>2, Wires DEF Reply, Msg, Fin
  <2>4. Told(c, <<Fin(c), Msg("ok")>>, {"proof_sent", "quit"})' /\ Chosen(c)' /\ Knows(c)'
    BY <1>1, <1>2, <1>3, <2>3, Same, Zenon DEF Told, Msg, Knows
  <2>5. Compatible(c)'
    BY <1>1, <1>10, <1>11, Same, Zenon
  <2> QED BY <1>1, <1>3, <2>3, <2>4, <2>5, Zenon DEF ConnInv, ServerEnds, ClientEnds
<1>12. CASE ~(AcceptsFinal(c, m) /\ VerifyClientProof(c, m))
  <2>1. Reply(c, "error", <<>>) \/ Reply(c, "failed", <<>>)
    BY <1>12, Zenon DEF ServerFinal
  <2>2. srv'[c].at \in {"failed", "error"} /\ s2c'[c] = <<Msg("error")>>
    BY <1>1, <1>3, <2>1, Wires DEF Reply, Msg
  <2>3. ~Compatible(c)'
    BY <1>1, <1>10, <1>12, Same, Zenon
  <2>4. Told(c, <<Msg("error")>>, {"password_sent", "nonce_sent", "proof_sent", "quit"})'
    BY <1>1, <1>3, <2>2 DEF Told, Msg
  <2> QED BY <1>1, <1>3, <2>2, <2>3, <2>4, Zenon DEF ConnInv, ServerEnds, ClientEnds
<1> QED BY <1>11, <1>12, Zenon

\* The password is verified against the secret read for this connection.
LEMMA PasswordStep ==
    ASSUME Inv, NEW c \in Conns, ServerPassword(c)
    PROVE  ConnInv(c)'
<1> DEFINE k == conf[c]
           stored == IF srv[c].at = "password" THEN RolePassword ELSE shadow[c]
           verdict == IF stored # NoSecret /\ stored.pw = Head(c2s[c]).pw THEN "ok" ELSE "failed"
<1>1. /\ conf' = conf /\ cli' = cli /\ shadow'[c] = stored /\ Reply(c, verdict, <<>>)
      /\ DOMAIN srv = Conns /\ DOMAIN s2c = Conns /\ DOMAIN c2s = Conns
      /\ srv[c].at \in {"password", "md5"} /\ c2s[c] # <<>>
  BY DEF Inv, RoleOK, ServerPassword
<1>2. ForPassword(c) /\ Answered(c, [pw |-> k.pw], "password_sent") /\ Tolerates(k)
  BY <1>1, Zenon DEF Inv, ConnInv, Asked, Answered, Refused
<1>3. /\ Head(c2s[c]).pw = k.pw /\ c2s'[c] = <<>> /\ s2c[c] = <<>>
      /\ cli[c].at \in {"password_sent", "quit"}
  BY <1>1, <1>2, Wires, SMTT(30), Z3T(30) DEF ServerPassword, Answered
<1>4. verdict = "ok" <=> Compatible(c)'
  BY <1>1, <1>2, <1>3 DEF Compatible, ForPassword, Tolerates, Hashes
<1> HIDE DEF verdict, stored
<1>5. verdict \in {"ok", "failed"}
  BY Zenon DEF verdict
<1>6. srv'[c].at = verdict /\ s2c'[c] = <<Msg(IF verdict = "ok" THEN "ok" ELSE "error")>>
  BY <1>1, <1>3, Wires, ZenonT(40) DEF Reply, Msg
<1>7. CASE verdict = "ok"
  <2>1. Told(c, <<Msg("ok")>>, {"password_sent", "quit"})' /\ Tolerates(conf[c])'
    BY <1>1, <1>2, <1>3, <1>6, <1>7, Zenon DEF Told, Msg
  <2> QED BY <1>1, <1>3, <1>4, <1>6, <1>7, <2>1, Zenon DEF ConnInv, ServerEnds, ClientEnds
<1>8. CASE verdict = "failed"
  <2>1. Told(c, <<Msg("error")>>, {"password_sent", "nonce_sent", "proof_sent", "quit"})'
    BY <1>1, <1>3, <1>6, <1>8 DEF Told, Msg
  <2> QED BY <1>1, <1>3, <1>4, <1>6, <1>8, <2>1, Zenon DEF ConnInv, ServerEnds, ClientEnds
<1> QED BY <1>5, <1>7, <1>8, Zenon

\* The server sees that the client is gone, or authentication_timeout strikes with
\* a request still unread.
LEMMA GoneStep ==
    ASSUME Inv, NEW c \in Conns, ServerEOF(c) \/ ServerTimeout(c)
    PROVE  ConnInv(c)'
<1>1. ConnInv(c) /\ DOMAIN srv = Conns /\ DOMAIN s2c = Conns
  BY DEF Inv, RoleOK
<1>2. /\ conf' = conf /\ cli' = cli /\ shadow' = shadow /\ c2s' = c2s /\ srv'[c].at = "gone"
      /\ srv[c].at \notin ServerEnds
  BY <1>1 DEF ServerEOF, ServerTimeout, ServerEnds
<1>3. srv[c].at \in {"start", "sasl", "salt_sent", "md5", "password"}
  BY <1>1, <1>2, Zenon DEF ConnInv
<1>4. /\ s2c[c] = <<>> \/ \E m \in Requests(c) : s2c[c] = <<m>> /\ c2s[c] = <<>>
      /\ cli[c].at = "failed" => s2c[c] = <<>>
      /\ cli[c].at \notin {"connected", "finished"}
      /\ c2s[c] = <<>> \/ \E m : c2s[c] = <<m>>
  <2>1. CASE srv[c].at = "start"
    BY <1>1, <2>1, Zenon DEF ConnInv, Told, Requests
  <2>2. CASE srv[c].at = "password"
    BY <1>1, <2>2, Zenon DEF ConnInv, Asked, Answered, Refused, Requests
  <2>3. CASE srv[c].at = "md5"
    BY <1>1, <2>3, Zenon DEF ConnInv, Asked, Answered, Refused, Requests
  <2>4. CASE srv[c].at = "sasl"
    BY <1>1, <2>4, ZenonT(40) DEF ConnInv, Asked, Answered, Refused, Requests
  <2>5. CASE srv[c].at = "salt_sent"
    BY <1>1, <2>5, ZenonT(40) DEF ConnInv, Asked, Answered, Refused, Requests
  <2> QED BY <1>3, <2>1, <2>2, <2>3, <2>4, <2>5, Zenon
<1>6. Len(c2s[c]) <= 1
  <2>1. CASE c2s[c] = <<>>
    BY <2>1
  <2>2. ASSUME NEW m, c2s[c] = <<m>>
        PROVE  Len(c2s[c]) <= 1
    BY <2>2, SMTT(30), Z3T(30)
  <2> QED BY <1>4, <2>1, <2>2, Zenon
<1>7. cli[c].at \in ClientEnds \cup
        {"start", "nonce_sent", "proof_sent", "finished", "password_sent"}
  BY <1>1, Zenon DEF ConnInv
<1>8. CASE ServerEOF(c)
  <2>1. s2c' = s2c /\ cli[c].at \in {"failed", "quit"}
    BY <1>8, Zenon DEF ServerEOF
  <2> QED BY <1>2, <1>4, <1>6, <1>7, <2>1, Same, Zenon DEF ConnInv, ServerEnds
<1>9. CASE ServerTimeout(c)
  <2>1. s2c'[c] = Append(s2c[c], Msg("eof"))
    BY <1>1, <1>9, Zenon DEF ServerTimeout, Msg
  <2>2. CASE s2c[c] = <<>>
    <3>1. s2c'[c] = <<Msg("eof")>>
      BY <2>1, <2>2, Wires
    <3> QED BY <1>2, <1>4, <1>6, <1>7, <3>1, Zenon DEF ConnInv, ServerEnds, Msg
  <2>3. ASSUME NEW m \in Requests(c), s2c[c] = <<m>>, c2s[c] = <<>>
        PROVE  ConnInv(c)'
    <3>1. s2c'[c] = <<m, Msg("eof")>>
      BY <2>1, <2>3, OneMore, Zenon
    <3> QED BY <1>2, <1>4, <1>6, <1>7, <2>3, <3>1, Same, Zenon DEF ConnInv, ServerEnds, Msg
  <2> QED BY <1>4, <2>2, <2>3, Zenon
<1> QED BY <1>8, <1>9

\* The client gives up: the messages stay where they are.
LEMMA QuitStep ==
    ASSUME Inv, NEW c \in Conns, ClientQuit(c)
    PROVE  ConnInv(c)'
<1>1. /\ conf' = conf /\ shadow' = shadow /\ srv' = srv /\ c2s' = c2s /\ s2c' = s2c
      /\ cli'[c].at = "quit" /\ cli[c].at \notin {"connected", "failed", "quit"}
      /\ ConnInv(c)
  BY DEF Inv, RoleOK, ClientQuit, ClientTo
<1>2. Knows(c)' /\ SaltSent(c)' = SaltSent(c) /\ ForPassword(c)' = ForPassword(c)
  BY <1>1, Same, Zenon DEF Knows, SaltSent, ForPassword
<1> QED BY <1>1, <1>2, Same, Zenon DEF ConnInv, Told, Asked, Answered, Refused, ClientEnds

\* What ClientReceive has in common for all messages.
LEMMA Receives ==
    ASSUME Inv, NEW c \in Conns, ClientReceive(c)
    PROVE  /\ conf' = conf /\ shadow' = shadow /\ srv' = srv
           /\ s2c[c] # <<>> /\ s2c'[c] = Tail(s2c[c])
           /\ cli[c].at \notin {"connected", "failed", "quit"}
           /\ ConnInv(c) /\ conf[c] \in Confs
           /\ DOMAIN srv = Conns /\ DOMAIN cli = Conns /\ DOMAIN c2s = Conns
  BY Zenon DEF Inv, RoleOK, ClientReceive

\* The client gets a request for a password.
LEMMA ReceiveRequest ==
    ASSUME Inv, NEW c \in Conns, ClientReceive(c), srv[c].at \in {"password", "md5"}
    PROVE  ConnInv(c)'
<1> DEFINE k == conf[c]
           t == srv[c].at
<1>1. /\ conf' = conf /\ shadow' = shadow /\ srv' = srv /\ ConnInv(c)
      /\ s2c[c] # <<>> /\ DOMAIN cli = Conns /\ DOMAIN c2s = Conns
      /\ cli[c].at \notin {"connected", "failed", "quit"} /\ s2c'[c] = Tail(s2c[c])
  BY Receives, Zenon
<1>2. ForPassword(c) /\ s2c[c] = <<Msg(t)>> /\ c2s[c] = <<>> /\ cli[c].at = "start"
  BY <1>1, Zenon DEF ConnInv, Asked, Answered, Refused
<1>3. Head(s2c[c]) = Msg(t) /\ s2c'[c] = <<>> /\ Msg(t).type = t
  BY <1>1, <1>2, Wires DEF Msg
<1>4. Handles(c, Msg(t)) <=> Tolerates(k)
  BY <1>3, Zenon DEF Handles, Expected, Tolerates, SASLRequests
<1>5. ForPassword(c)'
  BY <1>1, <1>2 DEF ForPassword
<1>6. CASE Tolerates(k)
  <2>1. ClientTo(c, [at |-> "password_sent"]) /\ ClientSend(c, [pw |-> k.pw])
    BY <1>3, <1>4, <1>6, Zenon DEF ClientReceive, ClientRespond
  <2>2. cli'[c].at = "password_sent" /\ c2s'[c] = <<[pw |-> k.pw]>>
    BY <1>1, <1>2, <2>1, Wires DEF ClientTo, ClientSend
  <2>3. Answered(c, [pw |-> conf[c].pw], "password_sent")' /\ Tolerates(conf[c])'
    BY <1>1, <1>3, <1>6, <2>2, Zenon DEF Answered
  <2> QED BY <1>1, <1>5, <2>2, <2>3, Zenon DEF ConnInv, ServerEnds, ClientEnds
<1>7. CASE ~Tolerates(k)
  <2>1. ClientTo(c, [at |-> "failed"]) /\ c2s' = c2s
    BY <1>3, <1>4, <1>7, Zenon DEF ClientReceive
  <2>2. Refused(c)' /\ cli'[c].at = "failed" /\ ~Tolerates(conf[c])'
    BY <1>1, <1>2, <1>3, <1>7, <2>1, Zenon DEF ClientTo, Refused
  <2> QED BY <1>1, <1>5, <2>2, Zenon DEF ConnInv, ServerEnds, ClientEnds
<1> QED BY <1>6, <1>7

\* The client gets the list of mechanisms.
LEMMA ReceiveOffer ==
    ASSUME Inv, NEW c \in Conns, ClientReceive(c), srv[c].at = "sasl"
    PROVE  ConnInv(c)'
<1>1. /\ conf' = conf /\ shadow' = shadow /\ srv' = srv /\ ConnInv(c) /\ conf[c] \in Confs
      /\ s2c[c] # <<>> /\ DOMAIN cli = Conns /\ DOMAIN c2s = Conns
      /\ cli[c].at \notin {"connected", "failed", "quit"} /\ s2c'[c] = Tail(s2c[c])
  BY Receives, Zenon
<1>2. ForSasl(c) /\ s2c[c] = <<Offer(c)>> /\ c2s[c] = <<>> /\ cli[c].at = "start"
  BY <1>1, Zenon DEF ConnInv, Asked, Answered, Refused
<1>3. /\ Head(s2c[c]) = Offer(c) /\ s2c'[c] = <<>>
      /\ Offer(c).type = "sasl" /\ Offer(c).mechs = OfferedMechs(conf[c])
  BY <1>1, <1>2, Wires DEF Offer
<1>4. Handles(c, Offer(c)) <=> Chosen(c)
  BY <1>3, ZenonT(40) DEF Handles, Expected, SASLRequests, Chosen
<1>5. ForSasl(c)' /\ Chosen(c)' = Chosen(c)
  BY <1>1, <1>2, Same
<1>6. CASE Chosen(c)
  <2>0. ClientRespond(c, Offer(c))
    BY <1>3, <1>4, <1>6, Zenon DEF ClientReceive
  <2>1. PICK mech \in SelectedMechs(conf[c], OfferedMechs(conf[c])) :
            /\ ClientTo(c, [at |-> "nonce_sent", mech |-> mech])
            /\ ClientSend(c, [mech |-> mech, flag |-> GS2Flag(conf[c], mech),
                              nonce |-> Nonce(c, "client")])
    BY <1>3, <2>0, ZenonT(30) DEF ClientRespond
  <2>2. mech = Mech(c)
    BY <1>1, <1>6, <2>1, Choice, Zenon
  <2>3. ClientTo(c, [at |-> "nonce_sent", mech |-> Mech(c)]) /\ ClientSend(c, FirstMsg(c))
    BY <2>1, <2>2, ZenonT(40) DEF FirstMsg
  <2>4. /\ cli'[c].at = "nonce_sent" /\ cli'[c].mech = Mech(c) /\ c2s'[c] = <<FirstMsg(c)>>
    BY <1>1, <1>2, <2>3, Wires DEF ClientTo, ClientSend
  <2>5. Answered(c, FirstMsg(c), "nonce_sent")' /\ Knows(c)'
    BY <1>1, <1>3, <2>4, Same, Zenon DEF Answered, Knows
  <2> QED BY <1>1, <1>5, <1>6, <2>4, <2>5, ZenonT(40) DEF ConnInv, ServerEnds, ClientEnds
<1>7. CASE ~Chosen(c)
  <2>1. ClientTo(c, [at |-> "failed"]) /\ c2s' = c2s
    BY <1>3, <1>4, <1>7, Zenon DEF ClientReceive
  <2>2. Refused(c)' /\ cli'[c].at = "failed"
    BY <1>1, <1>2, <1>3, <2>1 DEF ClientTo, Refused
  <2> QED BY <1>1, <1>5, <1>7, <2>2, Zenon DEF ConnInv, ServerEnds, ClientEnds
<1> QED BY <1>6, <1>7

\* The client gets the salt and the nonce, which it always accepts.
LEMMA ReceiveSalt ==
    ASSUME Inv, NEW c \in Conns, ClientReceive(c), srv[c].at = "salt_sent"
    PROVE  ConnInv(c)'
<1>1. /\ conf' = conf /\ shadow' = shadow /\ srv' = srv /\ ConnInv(c)
      /\ s2c[c] # <<>> /\ DOMAIN cli = Conns /\ DOMAIN c2s = Conns
      /\ cli[c].at \notin {"connected", "failed", "quit"} /\ s2c'[c] = Tail(s2c[c])
  BY Receives, Zenon
<1>2. /\ ForSasl(c) /\ Chosen(c) /\ SaltSent(c) /\ cli[c].mech = Mech(c)
      /\ s2c[c] = <<Cont(c)>> /\ c2s[c] = <<>> /\ cli[c].at = "nonce_sent"
  BY <1>1, Zenon DEF ConnInv, Asked, Answered, Knows
<1>3. /\ Head(s2c[c]) = Cont(c) /\ s2c'[c] = <<>> /\ Cont(c).type = "cont"
      /\ Cont(c).nonce = Nonces(c) /\ Cont(c).salt = Salt(c) /\ Nonces(c)[1] = Nonce(c, "client")
  BY <1>1, <1>2, Wires DEF Cont, Nonces
<1>4. Handles(c, Cont(c))
  BY <1>3, ZenonT(40) DEF Handles, Expected, SASLRequests
<1>5. FinalMessage(c, Cont(c)) = FinalMsg(c) /\ FinalMsg(c).proof = Proof(c)
  BY <1>2, <1>3, Zenon DEF FinalMessage, FinalMsg, Proof, Bound
<1>6. /\ ClientTo(c, [at |-> "proof_sent", mech |-> Mech(c), proof |-> Proof(c)])
      /\ ClientSend(c, FinalMsg(c))
  BY <1>2, <1>3, <1>4, <1>5, Zenon DEF ClientReceive, ClientRespond
<1>7. /\ cli'[c].at = "proof_sent" /\ cli'[c].mech = Mech(c) /\ cli'[c].proof = Proof(c)
      /\ c2s'[c] = <<FinalMsg(c)>>
  BY <1>1, <1>2, <1>6, Wires, ZenonT(40) DEF ClientTo, ClientSend
<1>8. /\ Answered(c, FinalMsg(c), "proof_sent")' /\ Knows(c)'
      /\ ForSasl(c)' /\ Chosen(c)' /\ SaltSent(c)'
  BY <1>1, <1>2, <1>3, <1>7, Same, Zenon DEF Answered, Knows, SaltSent
<1> QED BY <1>1, <1>7, <1>8, Zenon DEF ConnInv, ServerEnds, ClientEnds

\* The client gets the server's signature or AUTH_REQ_OK: the signature is the one
\* it expects and scram_channel_bound holds, so it never refuses.
LEMMA ReceiveOK ==
    ASSUME Inv, NEW c \in Conns, ClientReceive(c), srv[c].at = "ok"
    PROVE  ConnInv(c)'
<1>1. /\ conf' = conf /\ shadow' = shadow /\ srv' = srv /\ ConnInv(c) /\ conf[c] \in Confs
      /\ s2c[c] # <<>> /\ DOMAIN cli = Conns /\ DOMAIN c2s = Conns
      /\ cli[c].at \notin {"connected", "failed", "quit"} /\ s2c'[c] = Tail(s2c[c])
  BY Receives
<1>2. Compatible(c) /\ c2s[c] = <<>> /\ Compatible(c)'
  BY <1>1, Same, Zenon DEF ConnInv, Told
<1>3. CASE /\ Told(c, <<Fin(c), Msg("ok")>>, {"proof_sent", "quit"})
           /\ Chosen(c) /\ Knows(c)
  <2>1. cli[c].at = "proof_sent" /\ cli[c].mech = Mech(c) /\ cli[c].proof = Proof(c)
    BY <1>1, <1>3 DEF Told, Knows
  <2>2. /\ Head(s2c[c]) = Fin(c) /\ s2c'[c] = <<Msg("ok")>>
        /\ Fin(c).type = "fin" /\ Fin(c).sig = Proof(c)
    <3>1. s2c[c] = <<Fin(c), Msg("ok")>>
      BY <1>3, Zenon DEF Told
    <3>2. Fin(c).type = "fin" /\ Fin(c).sig = Proof(c)
      BY Zenon DEF Fin
    <3> QED BY <1>1, <3>1, <3>2, TwoLeft, Zenon
  <2>3. Handles(c, Fin(c))
    BY <2>1, <2>2, Zenon DEF Handles, Expected, SASLRequests
  <2>4. ClientTo(c, [at |-> "finished", mech |-> Mech(c)]) /\ c2s' = c2s
    BY <2>1, <2>2, <2>3, Zenon DEF ClientReceive, ClientRespond
  <2>5. cli'[c].at = "finished" /\ cli'[c].mech = Mech(c)
    BY <1>1, <2>4, ZenonT(40) DEF ClientTo
  <2>6. Told(c, <<Msg("ok")>>, {"finished", "quit"})' /\ Chosen(c)' /\ Knows(c)'
    BY <1>1, <1>2, <1>3, <2>2, <2>4, <2>5, Same, Zenon DEF Told, Knows, Msg
  <2> QED BY <1>1, <1>2, <2>5, <2>6, Zenon DEF ConnInv, ServerEnds, ClientEnds
<1>4. CASE \/ Told(c, <<Msg("ok")>>, {"password_sent", "quit"}) /\ Tolerates(conf[c])
           \/ /\ Told(c, <<Msg("ok")>>, {"finished", "quit"})
              /\ Chosen(c) /\ Knows(c)
  <2>0. s2c[c] = <<Msg("ok")>>
    BY <1>4, Zenon DEF Told
  <2>1. Head(s2c[c]) = Msg("ok") /\ s2c'[c] = <<>> /\ Msg("ok").type = "ok"
    BY <1>1, <2>0, Wires DEF Msg
  <2>2. Expected(c, "ok")
    <3>1. CASE Tolerates(conf[c])
      BY <3>1, Zenon DEF Expected, Tolerates
    <3>2. CASE cli[c].at = "finished" /\ Chosen(c) /\ Knows(c)
      <4>1. conf[c].binding = "require" => cli[c].mech.plus
        BY <1>1, <3>2, Choice, Zenon DEF Knows
      <4> QED BY <3>2, <4>1 DEF Expected
    <3> QED BY <1>1, <1>4, <3>1, <3>2, Zenon DEF Told
  <2>3. Handles(c, Msg("ok"))
    BY <2>1, <2>2, Zenon DEF Handles
  <2>4. ClientTo(c, [at |-> "connected"]) /\ c2s' = c2s
    BY <2>1, <2>3, Zenon DEF ClientReceive, ClientRespond
  <2>5. cli'[c].at = "connected" /\ Told(c, <<>>, {"connected"})'
    BY <1>1, <1>2, <2>1, <2>4, Zenon DEF ClientTo, Told
  <2> QED BY <1>1, <1>2, <2>5, Zenon DEF ConnInv, ServerEnds, ClientEnds
<1> QED BY <1>1, <1>3, <1>4, ZenonT(40) DEF ConnInv, Told

\* The client gets the error.
LEMMA ReceiveError ==
    ASSUME Inv, NEW c \in Conns, ClientReceive(c), srv[c].at \in {"failed", "error"}
    PROVE  ConnInv(c)'
<1>1. /\ conf' = conf /\ shadow' = shadow /\ srv' = srv /\ ConnInv(c)
      /\ s2c[c] # <<>> /\ DOMAIN cli = Conns /\ s2c'[c] = Tail(s2c[c])
  BY Receives, Zenon
<1>2. s2c[c] = <<Msg("error")>> /\ c2s[c] = <<>> /\ (~PqcPlus(c) => ~Compatible(c))
  BY <1>1, Zenon DEF ConnInv, Told
<1>3. Head(s2c[c]) = Msg("error") /\ s2c'[c] = <<>> /\ Msg("error").type = "error"
  BY <1>1, <1>2, Wires DEF Msg
<1>4. ClientTo(c, [at |-> "failed"]) /\ c2s' = c2s
  BY <1>3, Zenon DEF ClientReceive, Handles
<1>5. cli'[c].at = "failed" /\ Told(c, <<>>, {"failed"})'
  BY <1>1, <1>2, <1>3, <1>4, Zenon DEF ClientTo, Told
<1>6. ~PqcPlus(c)' => ~Compatible(c)'
  BY <1>1, <1>2, Same, Zenon
<1> QED BY <1>1, <1>5, <1>6, Zenon DEF ConnInv, ServerEnds, ClientEnds

\* The client reads what is left on a connection the server has closed.
LEMMA ReceiveGone ==
    ASSUME Inv, NEW c \in Conns, ClientReceive(c), srv[c].at = "gone"
    PROVE  ConnInv(c)'
<1>1. /\ conf' = conf /\ shadow' = shadow /\ srv' = srv /\ ConnInv(c)
      /\ s2c[c] # <<>> /\ DOMAIN cli = Conns /\ DOMAIN c2s = Conns
      /\ cli[c].at \notin {"connected", "failed", "quit"} /\ s2c'[c] = Tail(s2c[c])
  BY Receives, ZenonT(40)
<1>2. Len(c2s[c]) <= 1
  BY <1>1, Zenon DEF ConnInv
<1>3. CASE s2c[c] = <<Msg("eof")>>
  <2>1. Head(s2c[c]) = Msg("eof") /\ s2c'[c] = <<>> /\ Msg("eof").type = "eof"
    <3>1. Msg("eof").type = "eof"
      BY Zenon DEF Msg
    <3>2. ASSUME NEW a PROVE Head(<<a>>) = a /\ Tail(<<a>>) = <<>>
      OBVIOUS
    <3> QED BY <1>1, <1>3, <3>1, <3>2, Zenon
  <2>2. ClientTo(c, [at |-> "failed"]) /\ c2s' = c2s
    BY <2>1, Zenon DEF ClientReceive, Handles
  <2>3. cli'[c].at = "failed"
    BY <1>1, <2>2 DEF ClientTo
  <2> QED BY <1>1, <1>2, <2>1, <2>2, <2>3, ZenonT(40) DEF ConnInv, ServerEnds, ClientEnds
<1>4. ASSUME NEW m \in Requests(c), s2c[c] = <<m, Msg("eof")>>, c2s[c] = <<>>
      PROVE  ConnInv(c)'
  <2>1. /\ Head(s2c[c]) = m /\ s2c'[c] = <<Msg("eof")>>
        /\ m.type \in {"sasl", "cont", "md5", "password"}
    <3>1. Head(s2c[c]) = m /\ s2c'[c] = <<Msg("eof")>>
      BY <1>1, <1>4, TwoLeft, Zenon
    <3>2. m.type \in {"sasl", "cont", "md5", "password"}
      BY SMTT(30), Z3T(30) DEF Requests, Msg, Offer, Cont
    <3> QED BY <3>1, <3>2
  <2>2. \/ ClientTo(c, [at |-> "failed"]) /\ c2s' = c2s
        \/ ClientRespond(c, m)
    BY <2>1 DEF ClientReceive
  <2>3. /\ cli'[c].at \in {"failed", "nonce_sent", "proof_sent", "password_sent"}
        /\ c2s' = c2s \/ \E x : c2s'[c] = Append(c2s[c], x)
    <3>1. CASE ClientTo(c, [at |-> "failed"]) /\ c2s' = c2s
      BY <1>1, <3>1 DEF ClientTo
    <3>2. CASE m.type = "sasl" /\ ClientRespond(c, m)
      <4>1. PICK mech : /\ ClientTo(c, [at |-> "nonce_sent", mech |-> mech])
                        /\ ClientSend(c, [mech |-> mech, flag |-> GS2Flag(conf[c], mech),
                                          nonce |-> Nonce(c, "client")])
        BY <3>2, Zenon DEF ClientRespond
      <4>2. cli'[c].at = "nonce_sent"
        BY <1>1, <4>1, Zenon DEF ClientTo
      <4>3. \E x : c2s'[c] = Append(c2s[c], x)
        BY <1>1, <4>1, Zenon DEF ClientSend
      <4> QED BY <4>2, <4>3, Zenon
    <3>3. CASE m.type = "cont" /\ ClientRespond(c, m)
      BY <1>1, <3>3 DEF ClientRespond, ClientTo, ClientSend
    <3>4. CASE m.type \in {"md5", "password"} /\ ClientRespond(c, m)
      <4>1. ClientTo(c, [at |-> "password_sent"]) /\ ClientSend(c, [pw |-> conf[c].pw])
        BY <3>4, Zenon DEF ClientRespond
      <4>2. cli'[c].at = "password_sent"
        BY <1>1, <4>1, Zenon DEF ClientTo
      <4>3. \E x : c2s'[c] = Append(c2s[c], x)
        BY <1>1, <4>1 DEF ClientSend
      <4> QED BY <4>2, <4>3, Zenon
    <3> QED BY <2>1, <2>2, <3>1, <3>2, <3>3, <3>4, Zenon
  <2>4. Len(c2s'[c]) <= 1
    <3>1. ASSUME NEW x, c2s'[c] = Append(c2s[c], x)
          PROVE  Len(c2s'[c]) <= 1
      BY <1>4, <3>1
    <3> QED BY <1>2, <2>3, <3>1, Zenon
  <2>5. s2c'[c] = <<Msg("eof")>>'
    BY <2>1 DEF Msg
  <2> QED BY <1>1, <2>3, <2>4, <2>5, Zenon DEF ConnInv, ServerEnds, ClientEnds
<1> QED BY <1>1, <1>3, <1>4, Zenon DEF ConnInv

\* Every step of either end keeps the invariant of its connection.
LEMMA ConnStep ==
    ASSUME Inv, NEW c \in Conns,
           ServerStep(c) \/ ServerTimeout(c) \/ ClientReceive(c) \/ ClientQuit(c)
    PROVE  ConnInv(c)'
<1>1. CASE ServerStep(c)
  BY <1>1, BeginStep, InitialStep, FinalStep, PasswordStep, GoneStep DEF ServerStep
<1>2. CASE ServerTimeout(c)
  BY <1>2, GoneStep, Zenon
<1>3. CASE ClientReceive(c)
  <2>1. srv[c].at # "start"
    BY <1>3, Receives, Zenon DEF ConnInv, Told
  <2>2. srv[c].at \in ServerEnds \cup {"start", "sasl", "salt_sent", "md5", "password"}
    BY Zenon DEF Inv, ConnInv
  <2> QED BY <1>3, <2>1, <2>2, ReceiveRequest, ReceiveOffer, ReceiveSalt, ReceiveOK,
       ReceiveError, ReceiveGone, Zenon DEF ServerEnds
<1>4. CASE ClientQuit(c)
  BY <1>4, QuitStep, Zenon
<1> QED BY <1>1, <1>2, <1>3, <1>4, Zenon

\* A step of one connection touches no other.
LEMMA OthersStay ==
    ASSUME Inv, NEW c \in Conns, NEW d \in Conns, c # d,
           ServerStep(c) \/ ServerTimeout(c) \/ ClientReceive(c) \/ ClientQuit(c)
    PROVE  ConnInv(d)'
<1>1. ConnInv(d) /\ conf' = conf
  BY Zenon DEF Inv, ServerStep, ServerBegin, ServerInitial, ServerFinal, ServerPassword,
         ServerEOF, ServerTimeout, ClientReceive, ClientQuit
<1>2. /\ shadow'[d] = shadow[d] /\ srv'[d] = srv[d] /\ cli'[d] = cli[d]
      /\ c2s'[d] = c2s[d] /\ s2c'[d] = s2c[d]
  <2>1. CASE ServerStep(c)
    BY <2>1, ZenonT(40) DEF Inv, RoleOK, ServerStep, ServerBegin, ServerInitial, ServerFinal,
         ServerPassword, ServerEOF, Reply
  <2>2. CASE ServerTimeout(c) \/ ClientQuit(c)
    BY <2>2 DEF Inv, RoleOK, ServerTimeout, ClientQuit, ClientTo
  <2>3. CASE ClientReceive(c)
    BY <2>3, Zenon DEF Inv, RoleOK, ClientReceive, ClientRespond, ClientTo, ClientSend
  <2> QED BY <2>1, <2>2, <2>3
<1> QED BY <1>1, <1>2, Frame

\* Changes of the role and steps of the connections keep the types.
LEMMA RoleStep ==
    ASSUME Inv, [Next]_vars
    PROVE  RoleOK'
<1>1. CASE RoleChange
  <2>1. ASSUME NEW pw \in Passwords, SetPassword(pw)
        PROVE  RoleOK'
    BY <2>1, ScramAssumption, SMTT(30), Z3T(30) DEF Inv, RoleOK, SetPassword, connVars, Secrets
  <2>2. ASSUME NEW e \in Hashes \cup {"md5"}, SetEncryption(e)
        PROVE  RoleOK'
    BY <2>2 DEF Inv, RoleOK, SetEncryption, connVars
  <2>3. CASE LosePassword \/ ChangeValidUntil \/ MigrateCredentials
    BY <2>3, Zenon DEF Inv, RoleOK, LosePassword, ChangeValidUntil, MigrateCredentials, connVars
  <2> QED BY <1>1, <2>1, <2>2, <2>3, SMTT(30), Z3T(30) DEF RoleChange
<1>2. ASSUME NEW c \in Conns, ServerStep(c) \/ ServerTimeout(c)
      PROVE  RoleOK'
  <2>1. RolePassword \in Secrets \cup {NoSecret}
    BY Zenon DEF Inv, RoleOK, RolePassword
  <2>2. CASE ServerBegin(c)
    BY <2>1, <2>2, Zenon DEF Inv, RoleOK, ServerBegin, roleVars
  <2>3. CASE ServerInitial(c)
    BY <2>3, Zenon DEF Inv, RoleOK, ServerInitial, Reply, roleVars
  <2>4. CASE ServerFinal(c)
    BY <2>4, Zenon DEF Inv, RoleOK, ServerFinal, Reply, roleVars
  <2>5. CASE ServerPassword(c)
    BY <2>1, <2>5, Zenon DEF Inv, RoleOK, ServerPassword, Reply, roleVars
  <2>6. CASE ServerEOF(c) \/ ServerTimeout(c)
    BY <2>6 DEF Inv, RoleOK, ServerEOF, ServerTimeout, roleVars
  <2> QED BY <1>2, <2>2, <2>3, <2>4, <2>5, <2>6, Zenon DEF ServerStep
<1>3. ASSUME NEW c \in Conns, ClientReceive(c) \/ ClientQuit(c)
      PROVE  RoleOK'
  BY <1>3, Zenon DEF Inv, RoleOK, ClientReceive, ClientQuit, ClientRespond, ClientTo,
         ClientSend, roleVars
<1>4. CASE UNCHANGED vars
  BY <1>4 DEF Inv, RoleOK, vars, roleVars, connVars
<1> QED BY <1>1, <1>2, <1>3, <1>4 DEF Next

\* The invariant holds before anything is sent.
LEMMA InvInit == Init => Inv
<1> SUFFICES ASSUME Init PROVE Inv
  OBVIOUS
<1>1. RoleOK
  <2>1. 0 \in 0 .. MaxSalt
    BY ScramAssumption
  <2>2. shadow \in [Conns -> Secrets \cup {NoSecret}]
    BY Zenon DEF Init
  <2> QED BY <2>1, <2>2, Zenon DEF Init, RoleOK
<1>2. ASSUME NEW c \in Conns PROVE ConnInv(c)
  BY DEF Init, ConnInv, Told, ServerEnds, ClientEnds
<1> QED BY <1>1, <1>2 DEF Inv

\* Every step keeps the invariant.
LEMMA InvNext == Inv /\ [Next]_vars => Inv'
<1> SUFFICES ASSUME Inv, [Next]_vars PROVE Inv'
  OBVIOUS
<1>1. RoleOK'
  BY RoleStep
<1>2. ASSUME NEW d \in Conns PROVE ConnInv(d)'
  <2>1. CASE RoleChange \/ UNCHANGED vars
    <3>1. conf' = conf /\ UNCHANGED connVars
      BY <2>1 DEF RoleChange, SetPassword, SetEncryption, LosePassword,
         ChangeValidUntil, MigrateCredentials, vars
    <3> QED BY <3>1, Frame, Zenon DEF connVars, Inv
  <2>2. ASSUME NEW c \in Conns,
               ServerStep(c) \/ ServerTimeout(c) \/ ClientReceive(c) \/ ClientQuit(c)
        PROVE  ConnInv(d)'
    BY <2>2, ConnStep, OthersStay
  <2> QED BY <2>1, <2>2 DEF Next
<1> QED BY <1>1, <1>2 DEF Inv

\* The invariant holds in every reachable state.
LEMMA InvAlways == Spec => []Inv
  BY InvInit, InvNext, PTL DEF Spec

\* The invariant implies the type invariant.
LEMMA TypesFollow == Inv => TypeOK
<1> SUFFICES ASSUME Inv PROVE TypeOK
  OBVIOUS
<1>1. ASSUME NEW c \in Conns
      PROVE  /\ srv[c].at = "salt_sent" => srv[c].hash \in Hashes
             /\ Len(c2s[c]) <= 1 /\ Len(s2c[c]) <= 3
  <2>1. ConnInv(c) /\ conf[c] \in Confs /\ shadow[c] \in Secrets \cup {NoSecret}
    BY DEF Inv, RoleOK
  <2>2. srv[c].at = "salt_sent" => srv[c].hash \in Hashes
    BY <2>1, Choice, Zenon DEF ConnInv, SaltSent, ParseScramSecret, Hashes
  <2>3. Len(c2s[c]) <= 1
    <3>1. \/ c2s[c] = <<>> \/ (\E m : c2s[c] = <<m>>)
          \/ Len(c2s[c]) <= 1
      BY <2>1, Zenon DEF ConnInv, ServerEnds, Told, Asked, Answered, Refused
    <3>2. ASSUME NEW m, c2s[c] = <<m>>
          PROVE  Len(c2s[c]) <= 1
      BY <3>2
    <3>3. CASE c2s[c] = <<>>
      BY <3>3
    <3> QED BY <3>1, <3>2, <3>3, Zenon
  <2>4. Len(s2c[c]) <= 3
    <3>1. s2c[c] = <<>> \/ (\E m : s2c[c] = <<m>>) \/ (\E m, n : s2c[c] = <<m, n>>)
      BY <2>1, Zenon DEF ConnInv, ServerEnds, Told, Asked, Answered, Refused
    <3>2. ASSUME NEW m, s2c[c] = <<m>>
          PROVE  Len(s2c[c]) <= 3
      BY <3>2
    <3>3. ASSUME NEW m, NEW n, s2c[c] = <<m, n>>
          PROVE  Len(s2c[c]) <= 3
      BY <3>3
    <3>4. CASE s2c[c] = <<>>
      BY <3>4
    <3> QED BY <3>1, <3>2, <3>3, <3>4, Zenon
  <2> QED BY <2>2, <2>3, <2>4, Zenon
<1> QED BY <1>1, Zenon DEF Inv, RoleOK, TypeOK, ConnInv

\* The state of the two ends is well typed and the queues are bounded, for every
\* number of connections of password authentication (auth.c, fe-auth.c).
THEOREM ScramTypes == Spec => []TypeOK
  BY InvAlways, TypesFollow, PTL

\* The invariant decides who is let in.
LEMMA AcceptsFollow == Inv => AcceptsOnlyCompatible
  BY Zenon DEF Inv, ConnInv, AcceptsOnlyCompatible, ServerEnds, Told, Asked, Answered, Refused

\* sendAuthRequest(AUTH_REQ_OK) and libpq's success happen only for a client that
\* has the password of the secret its backend read, with the hash and the channel
\* binding that fit, whatever ALTER ROLE does during the exchange.
THEOREM ScramAcceptsOnlyCompatible == Spec => []AcceptsOnlyCompatible
  BY InvAlways, AcceptsFollow, PTL

\* The invariant relates the two verdicts.
LEMMA AgreeFollow == Inv => VerdictsAgree
  BY Zenon DEF Inv, ConnInv, VerdictsAgree, ServerEnds, Told, Asked, Answered, Refused

\* A client that reports success was let in, and one that was let in never fails
\* verify_server_signature or check_expected_areq afterwards.
THEOREM ScramVerdictsAgree == Spec => []VerdictsAgree
  BY InvAlways, AgreeFollow, PTL

\* The invariant decides who is turned down.
LEMMA RejectsFollow == Inv => RejectsOnlyWithCause
<1> SUFFICES ASSUME Inv, NEW c \in Conns,
                    srv[c].at \in {"failed", "error"} \/ cli[c].at = "failed",
                    srv[c].at # "gone", ~PqcPlus(c)
             PROVE  ~Compatible(c)
  BY Zenon DEF RejectsOnlyWithCause
<1>1. ConnInv(c)
  BY Zenon DEF Inv
<1>2. CASE srv[c].at \in {"failed", "error"}
  BY <1>1, <1>2, Zenon DEF ConnInv
<1>3. CASE srv[c].at \in {"password", "md5"} /\ cli[c].at = "failed"
  <2>1. ForPassword(c) /\ ~Tolerates(conf[c])
    BY <1>1, <1>3, Zenon DEF ConnInv, Asked, Answered
  <2> QED BY <2>1, Zenon DEF Compatible, ForPassword, Tolerates, Hashes
<1>4. CASE srv[c].at = "sasl" /\ cli[c].at = "failed"
  <2>1. ForSasl(c) /\ ~Chosen(c)
    BY <1>1, <1>4, Zenon DEF ConnInv, Asked, Answered
  <2> QED BY <2>1, ZenonT(40) DEF Compatible, ForSasl, Chosen, Hashes
<1>5. CASE srv[c].at \in {"start", "salt_sent", "ok"}
  BY <1>1, <1>5, Zenon DEF ConnInv, Asked, Answered, Told
<1> QED BY <1>1, <1>2, <1>3, <1>4, <1>5, Zenon DEF ConnInv, ServerEnds

\* No attempt that may succeed is turned down by a protocol check of the server
\* (auth-scram.c) or of libpq (fe-auth.c), SCRAM-SHA-384-PLUS excepted.
THEOREM ScramRejectsOnlyWithCause == Spec => []RejectsOnlyWithCause
  BY InvAlways, RejectsFollow, PTL
=============================================================================
