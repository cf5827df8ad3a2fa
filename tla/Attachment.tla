----------------------------- MODULE Attachment -----------------------------
(***************************************************************************)
(* How a provider gets its place at souk and keeps it.  The client         *)
(* registers before every connection; on the socket the two sides prove    *)
(* themselves to each other in four frames, hello, challenge, proof and    *)
(* welcome; the gateway then has souk attach the provider and, on the      *)
(* provider socket, asks from time to time, one name after another,        *)
(* whether souk still lists it.  A registration that vanished under a live *)
(* socket is repaired by closing the socket.                               *)
(*                                                                         *)
(* Three clients speak this exchange: the Python SDK (client.py), the Go   *)
(* probe (wire.go, main.go) and the KYOK bridge (kyok_bridge.py, against   *)
(* ws_kyok.py).  One socket at a time: what an old socket's cleanup does   *)
(* to its replacement is ProviderRelay's subject.  Reconnects are          *)
(* unbounded.                                                              *)
(***************************************************************************)
EXTENDS Naturals, FiniteSets, Sequences

CONSTANTS
  Names,       \* the agents the provider serves, in the order of its hello
  Keys,        \* the identities souks have
  NoKey,       \* a souk without an identity; a provider that pinned none
  MaxLosses    \* times souk or its database changes under the provider

ASSUME AttachmentConstants ==
  /\ Names \in Seq(STRING)
  /\ Names # <<>>
  /\ NoKey \notin Keys
  /\ MaxLosses \in Nat

AllNames == {Names[i] : i \in DOMAIN Names}

VARIABLES
  kind,     \* which client it is: "sdk", "probe" or "bridge"
  hello,    \* what it says of itself: "sound", a hello _hello_error objects to, or
            \* a proof without a signature
  pin,      \* the souk it was told to trust, NoKey for any
  souk,     \* the identity of the souk that answers its URL
  listed,   \* the names souk's database holds for this provider
  losses,   \* how often names vanished or souk was replaced
  sdk,      \* the client: about to register, to connect, waiting for a frame of
            \* the handshake, serving, asleep
  sock,     \* "none", "up" or "dead"
  up,       \* frames of the handshake on their way to the gateway
  down,     \* frames of the handshake on their way to the client
  link,     \* the socket's handler: waiting for a frame, attaching, or open
  fresh,    \* may the challenge it issued still be answered
  watch,    \* its watcher: "none", "asleep", "asking", "returned" or "raised"
  next,     \* the position in Names of the next get_agent
  found,    \* has this round found a name listed
  closing,  \* is the close frame queued for the writer
  kept      \* the names listed ever since this round began (history)

config    == <<kind, hello, pin>>
wires     == <<up, down>>
watchVars == <<watch, next, found, closing, kept>>
vars      == <<config, souk, listed, losses, sdk, sock, wires, link, fresh, watchVars>>

\* What each frame carries that a later step reads: the challenge the key
\* souk presents and who signed, the proof the souk it is meant for.
Challenge(key) == [type |-> "challenge", key |-> key, by |-> key]
Proof(key)     == [type |-> "proof", key |-> key]
Hello          == [type |-> "hello"]
Welcome        == [type |-> "welcome"]

Init ==
  /\ kind \in {"sdk", "probe", "bridge"}
  /\ hello \in {"sound", "unversioned", "malformed", "unsigned"}
  /\ pin \in IF kind = "bridge" THEN {NoKey} ELSE Keys \cup {NoKey}
  /\ souk \in Keys \cup {NoKey}
  /\ listed = {}
  /\ losses = 0
  /\ sdk = "register"
  /\ sock = "none"
  /\ up = <<>>
  /\ down = <<>>
  /\ link = "none"
  /\ fresh = FALSE
  /\ watch = "none"
  /\ next = 1
  /\ found = FALSE
  /\ closing = FALSE
  /\ kept = {}

-----------------------------------------------------------------------------
(* The client.                                                             *)

\* register_agents: the upsert puts every name (back) on the roster.
RegisterAgents == listed' = AllNames

\* register, before every connection.
Register ==
  /\ sdk = "register"
  /\ RegisterAgents
  /\ sdk' = "connect"
  /\ UNCHANGED <<config, souk, losses, sock, wires, link, fresh, watchVars>>

\* register raises: the loop sleeps and tries again; the probe goes on to
\* connect without it.
RegisterFails ==
  /\ sdk = "register"
  /\ sdk' = IF kind = "probe" THEN "connect" ELSE "asleep"
  /\ UNCHANGED <<config, souk, listed, losses, sock, wires, link, fresh, watchVars>>

\* The socket is opened and the hello sent.
Connect ==
  /\ sdk = "connect"
  /\ link = "none"
  /\ sdk' = "challenge"
  /\ sock' = "up"
  /\ up' = <<Hello>>
  /\ down' = <<>>
  /\ link' = "hello"
  /\ UNCHANGED <<config, souk, listed, losses, fresh, watchVars>>

\* Mutant: the key is verified and not compared with the pinned one.
CheckSignatureOnly(f) ==
  IF f.key = NoKey THEN pin = NoKey ELSE f.by = f.key

\* _check_souk_identity: a souk without an identity will do for a provider
\* that pinned none; a key presented must have signed, and is then compared
\* with the pinned one if there is one.
CheckSoukIdentity(f) ==
  IF f.key = NoKey THEN pin = NoKey ELSE f.by = f.key /\ pin \in {NoKey, f.key}

\* verifySouk: the probe compares first and verifies what it would accept.
VerifySouk(f) ==
  IF f.key = NoKey THEN pin = NoKey ELSE pin \in {NoKey, f.key} /\ f.by = f.key

\* The bridge takes the key as it comes.
Recognises(f) ==
  \/ kind = "sdk" /\ CheckSoukIdentity(f)
  \/ kind = "probe" /\ VerifySouk(f)
  \/ kind = "bridge"

\* The challenge is read: the client signs for the souk it recognised, or
\* gives the socket up.
ReceiveChallenge ==
  /\ sdk = "challenge"
  /\ down # <<>>
  /\ down' = Tail(down)
  /\ IF Recognises(Head(down))
     THEN /\ up' = IF sock = "up" THEN Append(up, Proof(Head(down).key)) ELSE up
          /\ sdk' = "welcome"
          /\ UNCHANGED sock
     ELSE /\ sdk' = "asleep"
          /\ sock' = "dead"
          /\ UNCHANGED up
  /\ UNCHANGED <<config, souk, listed, losses, link, fresh, watchVars>>

\* The welcome is read: the client serves.
ReceiveWelcome ==
  /\ sdk = "welcome"
  /\ down # <<>>
  /\ down' = Tail(down)
  /\ sdk' = "serving"
  /\ UNCHANGED <<config, souk, listed, losses, sock, up, link, fresh, watchVars>>

\* WELCOME_TIMEOUT_SECONDS run out on either frame; the probe waits as long
\* as the socket lives.
WaitTimesOut ==
  /\ sdk \in {"challenge", "welcome"}
  /\ kind # "probe"
  /\ sdk' = "asleep"
  /\ sock' = "dead"
  /\ UNCHANGED <<config, souk, listed, losses, wires, link, fresh, watchVars>>

\* The connection ends under the client, in the handshake or after it.
ConnectionLost ==
  /\ sdk \in {"challenge", "welcome", "serving"}
  /\ sock = "dead"
  /\ sdk' = "asleep"
  /\ UNCHANGED <<config, souk, listed, losses, sock, wires, link, fresh, watchVars>>

\* The reconnect delay has passed.
Wake ==
  /\ sdk = "asleep"
  /\ sdk' = "register"
  /\ UNCHANGED <<config, souk, listed, losses, sock, wires, link, fresh, watchVars>>

-----------------------------------------------------------------------------
(* The gateway.                                                            *)

\* Mutant: the handler returns and leaves the socket as it is.
ReturnSilently == link' = "none" /\ UNCHANGED sock

\* The handler closes the socket, with the reason, and returns.
Refuse ==
  /\ link' = "none"
  /\ sock' = "dead"

\* A frame the writer sends.
Send(f) == down' = IF sock = "up" THEN Append(down, f) ELSE down

\* _hello_error of either socket: the version is asked for first, then the
\* key, the nonce, the names and the capacity.
HelloError == hello \in {"unversioned", "malformed"}

\* receive_hello and _hello_error, then the challenge: souk signs only for a
\* hello worth it.
ReadHello ==
  /\ link = "hello"
  /\ up # <<>>
  /\ up' = Tail(up)
  /\ IF ~ HelloError
     THEN Send(Challenge(souk)) /\ link' = "proof" /\ fresh' = TRUE /\ UNCHANGED sock
     ELSE Refuse /\ UNCHANGED <<down, fresh>>
  /\ UNCHANGED <<config, souk, listed, losses, sdk, watchVars>>

\* Mutant: the writer runs before the provider is attached.
WriteWelcome == Send(Welcome)

\* The welcome is put in the outbound queue, which no writer reads yet.
QueueWelcome == UNCHANGED down

\* The proof is read and, if it carries a signature, the welcome is queued and
\* attach_provider called.
ReadProof ==
  /\ link = "proof"
  /\ up # <<>>
  /\ up' = Tail(up)
  /\ IF hello # "unsigned"
     THEN QueueWelcome /\ link' = "attaching" /\ UNCHANGED sock
     ELSE Refuse /\ UNCHANGED down
  /\ UNCHANGED <<config, souk, listed, losses, sdk, fresh, watchVars>>

\* HELLO_TIMEOUT_SECONDS run out, or the socket ends, before the frame came.
NoFrame ==
  /\ link \in {"hello", "proof"}
  /\ Refuse
  /\ UNCHANGED <<config, souk, listed, losses, sdk, wires, fresh, watchVars>>

\* attach_provider accepts a provider whose names are all registered and
\* whose proof answers the live challenge; only then the writer starts, and
\* on the provider socket the watcher.
Attach ==
  /\ link = "attaching"
  /\ AllNames \subseteq listed
  /\ fresh
  /\ link' = "open"
  /\ fresh' = FALSE
  /\ Send(Welcome)
  /\ watch' = IF kind = "bridge" THEN "none" ELSE "asleep"
  /\ closing' = FALSE
  /\ UNCHANGED <<config, souk, listed, losses, sdk, sock, up, next, found, kept>>

\* It refuses any other.
AttachRefused ==
  /\ link = "attaching"
  /\ ~ (AllNames \subseteq listed /\ fresh)
  /\ Refuse
  /\ UNCHANGED <<config, souk, listed, losses, sdk, wires, fresh, watchVars>>

\* OWNERSHIP_RECHECK_SECONDS have passed: a round of asking begins.
WatchWakes ==
  /\ watch = "asleep"
  /\ watch' = "asking"
  /\ next' = 1
  /\ found' = FALSE
  /\ kept' = listed
  /\ UNCHANGED <<config, souk, listed, losses, sdk, sock, wires, link, fresh, closing>>

\* Mutant: one missing name is enough to close.
AllListed == found /\ Names[next] \in listed

\* Some name was listed when it was asked for.
AnyListed == found \/ Names[next] \in listed

\* Mutant: a round that found a name listed was the last one.
RoundEndsWatch == watch' = "returned" /\ closing' = (closing \/ ~ AnyListed)

\* After the last name: go back to sleep if any was listed, else queue the
\* close and return.
RoundEnds ==
  IF AnyListed THEN watch' = "asleep" /\ UNCHANGED closing ELSE watch' = "returned" /\ closing' = TRUE

\* get_agent answers for the next name.
WatchAsks ==
  /\ watch = "asking"
  /\ found' = (found \/ Names[next] \in listed)
  /\ IF next = Len(Names)
     THEN RoundEnds /\ next' = 1
     ELSE next' = next + 1 /\ UNCHANGED <<watch, closing>>
  /\ UNCHANGED <<config, souk, listed, losses, sdk, sock, wires, link, fresh, kept>>

\* get_agent raises: the watcher task ends, and nobody awaits it before the
\* socket is gone.
AskRaises ==
  /\ watch = "asking"
  /\ watch' = "raised"
  /\ UNCHANGED <<config, souk, listed, losses, sdk, sock, wires, link, fresh, next, found, closing, kept>>

\* write_loop comes to the close frame.
WriterCloses ==
  /\ closing
  /\ link = "open"
  /\ sock = "up"
  /\ sock' = "dead"
  /\ closing' = FALSE
  /\ UNCHANGED <<config, souk, listed, losses, sdk, wires, link, fresh, watch, next, found, kept>>

\* The read loop meets the disconnect; its finally ends the watcher.
Cleanup ==
  /\ link = "open"
  /\ sock = "dead"
  /\ link' = "none"
  /\ watch' = "none"
  /\ closing' = FALSE
  /\ UNCHANGED <<config, souk, listed, losses, sdk, sock, wires, fresh, next, found, kept>>

-----------------------------------------------------------------------------
(* The world.                                                              *)

\* Names vanish underneath: a restored database, a redeployed souk.
Lose ==
  /\ losses < MaxLosses
  /\ \E gone \in SUBSET listed \ {{}} :
       /\ listed' = listed \ gone
       /\ kept' = kept \ gone
  /\ losses' = losses + 1
  /\ UNCHANGED <<config, souk, sdk, sock, wires, link, fresh, watch, next, found, closing>>

\* delete_agent: core carries a signed order out only while nobody serves
\* the agent.
Delete ==
  /\ losses < MaxLosses
  /\ link # "open"
  /\ \E n \in listed : listed' = listed \ {n} /\ kept' = kept \ {n}
  /\ losses' = losses + 1
  /\ UNCHANGED <<config, souk, sdk, sock, wires, link, fresh, watch, next, found, closing>>

\* The socket drops.
Drop ==
  /\ sock = "up"
  /\ sock' = "dead"
  /\ UNCHANGED <<config, souk, listed, losses, sdk, wires, link, fresh, watchVars>>

\* The challenge outlives its freshness before the proof is verified.
Expire ==
  /\ fresh
  /\ fresh' = FALSE
  /\ UNCHANGED <<config, souk, listed, losses, sdk, sock, wires, link, watchVars>>

\* Another souk answers the URL from now on: a redeployment, with another
\* identity or none, that ends the sockets of the one before.
Redeploy ==
  /\ losses < MaxLosses
  /\ losses' = losses + 1
  /\ souk' \in (Keys \cup {NoKey}) \ {souk}
  /\ sock' = IF sock = "up" THEN "dead" ELSE sock
  /\ link' = "none"
  /\ watch' = "none"
  /\ closing' = FALSE
  /\ fresh' = FALSE
  /\ UNCHANGED <<config, listed, sdk, wires, next, found, kept>>

-----------------------------------------------------------------------------
Next ==
  \/ Register \/ RegisterFails \/ Connect \/ ReceiveChallenge \/ ReceiveWelcome
  \/ WaitTimesOut \/ ConnectionLost \/ Wake
  \/ ReadHello \/ ReadProof \/ NoFrame \/ Attach \/ AttachRefused
  \/ WatchWakes \/ WatchAsks \/ AskRaises \/ WriterCloses \/ Cleanup
  \/ Lose \/ Delete \/ Drop \/ Expire \/ Redeploy

Spec == Init /\ [][Next]_vars

\* Timers pass, tasks run, the client tries for ever and registration does
\* not fail for ever; no timeout of the handshake is assumed to fire, except
\* that the gateway meets the end of a socket.
Fairness ==
  /\ SF_vars(Register)
  /\ WF_vars(Connect) /\ WF_vars(ReceiveChallenge) /\ WF_vars(ReceiveWelcome)
  /\ WF_vars(ConnectionLost) /\ WF_vars(Wake)
  /\ WF_vars(ReadHello) /\ WF_vars(ReadProof) /\ WF_vars(NoFrame /\ sock = "dead")
  /\ WF_vars(Attach) /\ WF_vars(AttachRefused)
  /\ WF_vars(WatchWakes) /\ WF_vars(WatchAsks) /\ WF_vars(WriterCloses) /\ WF_vars(Cleanup)

FairSpec == Spec /\ Fairness

-----------------------------------------------------------------------------
Souks == Keys \cup {NoKey}

\* The type invariant.
TypeOK ==
  /\ kind \in {"sdk", "probe", "bridge"}
  /\ hello \in {"sound", "unversioned", "malformed", "unsigned"}
  /\ pin \in Souks
  /\ souk \in Souks
  /\ listed \subseteq AllNames
  /\ losses \in 0 .. MaxLosses
  /\ sdk \in {"register", "connect", "challenge", "welcome", "serving", "asleep"}
  /\ sock \in {"none", "up", "dead"}
  /\ up \in Seq({Hello} \cup [type : {"proof"}, key : Souks])
  /\ down \in Seq({Welcome} \cup [type : {"challenge"}, key : Souks, by : Souks])
  /\ link \in {"none", "hello", "proof", "attaching", "open"}
  /\ fresh \in BOOLEAN
  /\ watch \in {"none", "asleep", "asking", "returned", "raised"}
  /\ next \in 1 .. Len(Names)
  /\ found \in BOOLEAN
  /\ closing \in BOOLEAN
  /\ kept \subseteq AllNames

\* A provider told which souk to trust is served by no other, whichever souk
\* comes to answer its URL between two connections.
ServedByThePinned ==
  sdk = "serving" /\ sock = "up" /\ pin # NoKey => souk = pin

\* The welcome means attached: a client that serves on a live socket is
\* attached through it, so a refused attach never looks like success.
WelcomeMeansAttached ==
  sdk = "serving" /\ sock = "up" => link = "open"

\* Only when every name has gone: a provider with a name that stayed listed
\* through a whole round of asking keeps its socket, even though the names
\* are asked one at a time and the roster changes in between.
ListedNameKeepsSocket ==
  [][~ closing /\ closing' => kept = {}]_vars

\* A handshake ends, in service or in a socket given up, without any timeout:
\* the two sides never both wait.
HandshakeEnds == sdk \in {"challenge", "welcome"} ~> sdk \notin {"challenge", "welcome"}

\* An invisible provider is not left so: names that are all gone are put
\* back, unless the watcher died of a database error, and except for a
\* bridge, whose socket has no watcher.
InvisibleIsRepaired ==
  listed = {} ~> listed # {} \/ watch = "raised" \/ (kind = "bridge" /\ link = "open")

-----------------------------------------------------------------------------
(* What the repository says of the watch and the code does not do.         *)

\* The socket of a provider none of whose agents is listed any more is
\* closed, and its reconnect lists them again.
UnlistedIsClosed == kind # "bridge" /\ listed = {} ~> listed # {}

=============================================================================
