--------------------------- MODULE AttachmentProofs ---------------------------
(***************************************************************************)
(* A provider is served only by the souk it trusts and only once it is     *)
(* attached, for every set of identities and every number of losses, and a *)
(* watcher never closes the socket of a provider with a name that stayed   *)
(* listed, for every list of names.                                        *)
(***************************************************************************)
EXTENDS Attachment, SequenceTheorems, TLAPS

\* The handshake on a live socket is one of six situations: who waits for
\* whom, and the one frame, if any, that is under way.
Dialogue ==
  sock = "up" =>
    \/ sdk = "challenge" /\ link = "hello"     /\ up = <<Hello>> /\ down = <<>>
    \/ sdk = "challenge" /\ link = "proof"     /\ up = <<>>      /\ down = <<Challenge(souk)>>
    \/ sdk = "welcome"   /\ link = "proof"     /\ Len(up) = 1    /\ down = <<>>
    \/ sdk = "welcome"   /\ link = "attaching" /\ up = <<>>      /\ down = <<>>
    \/ sdk = "welcome"   /\ link = "open"      /\ up = <<>>      /\ down = <<Welcome>>
    \/ sdk = "serving"   /\ link = "open"      /\ up = <<>>      /\ down = <<>>

\* Whoever pinned a souk and signed for the one on the live socket pinned that one.
Trusted ==
  /\ kind = "bridge" => pin = NoKey
  /\ sock = "up" /\ sdk \in {"welcome", "serving"} /\ pin # NoKey => souk = pin

\* The names that stayed listed through this round are listed, and one that
\* was asked for was found.
Remembered ==
  /\ kept \subseteq listed
  /\ watch = "asking" => \A i \in 1 .. next - 1 : Names[i] \in kept => found

\* What a client relies on, strengthened until every step keeps it.
AttachInv == TypeOK /\ Dialogue /\ Trusted /\ Remembered

ProofFrames     == {Hello} \cup [type : {"proof"}, key : Souks]
ChallengeFrames == {Welcome} \cup [type : {"challenge"}, key : Souks, by : Souks]

\* What a queue of the handshake is after a step of it.
LEMMA FrameFacts ==
  ASSUME NEW S, NEW s \in Seq(S), NEW x \in S
  PROVE  /\ <<>> \in Seq(S) /\ <<x>> \in Seq(S) /\ Append(s, x) \in Seq(S)
         /\ s # <<>> => Tail(s) \in Seq(S)
         /\ Append(<<>>, x) = <<x>>
         /\ Tail(<<x>>) = <<>> /\ Head(<<x>>) = x /\ <<x>> # <<>> /\ Len(<<x>>) = 1
         /\ Len(s) = 1 => s # <<>> /\ Tail(s) = <<>>
<1>1. <<>> \in Seq(S) /\ <<x>> \in Seq(S) /\ Append(s, x) \in Seq(S)
  OBVIOUS
<1>2. s # <<>> => Tail(s) \in Seq(S)
  BY HeadTailProperties
<1>3. Append(<<>>, x) = <<x>>
  OBVIOUS
<1>4. <<x>> # <<>> /\ Len(<<x>>) = 1 /\ Head(<<x>>) = x
  OBVIOUS
<1>5. ASSUME NEW t \in Seq(S), Len(t) = 1
      PROVE  t # <<>> /\ Tail(t) = <<>>
  <2>1. t # <<>>
    BY <1>5, EmptySeq
  <2>2. Tail(t) \in Seq(S) /\ Len(Tail(t)) = 0
    BY <1>5, <2>1, HeadTailProperties
  <2> QED
    BY <2>1, <2>2, EmptySeq
<1> QED
  BY <1>1, <1>2, <1>3, <1>4, <1>5

\* A list of names has a last one.
LEMMA NamesFacts == Len(Names) \in Nat \ {0} /\ DOMAIN Names = 1 .. Len(Names)
  BY AttachmentConstants, EmptySeq, LenProperties DEF AttachmentConstants

\* Nobody has said anything yet, and nobody is attached.
LEMMA AttachInit == Init => AttachInv
<1> SUFFICES ASSUME Init PROVE AttachInv
  OBVIOUS
<1>1. losses \in 0 .. MaxLosses /\ next \in 1 .. Len(Names)
  BY NamesFacts, AttachmentConstants DEF AttachmentConstants, Init
<1>2. /\ kind \in {"sdk", "probe", "bridge"} /\ hello \in {"sound", "unversioned", "malformed", "unsigned"}
      /\ pin \in Souks /\ souk \in Souks
  BY DEF Init, Souks
<1>3. TypeOK
  <2>1. up \in Seq(ProofFrames) /\ down \in Seq(ChallengeFrames)
    BY DEF Init
  <2>2. listed \subseteq AllNames /\ kept \subseteq AllNames
    BY DEF Init
  <2>3. fresh \in BOOLEAN /\ found \in BOOLEAN /\ closing \in BOOLEAN
    BY DEF Init
  <2>4. sdk = "register" /\ sock = "none" /\ link = "none" /\ watch = "none"
    BY DEF Init
  <2> QED
    BY <1>1, <1>2, <2>1, <2>2, <2>3, <2>4 DEF TypeOK, ProofFrames, ChallengeFrames
<1>4. Dialogue /\ Trusted /\ Remembered
  BY DEF Init, Dialogue, Trusted, Remembered
<1> QED
  BY <1>3, <1>4 DEF AttachInv

\* No step takes a variable outside its type.  The client signs for the key of
\* a challenge: that the frame it reads is one is the dialogue's doing.
LEMMA AttachTypeStep == TypeOK /\ Dialogue /\ [Next]_vars => TypeOK'
<1> SUFFICES ASSUME TypeOK, Dialogue, [Next]_vars
             PROVE  TypeOK'
  OBVIOUS
<1> USE DEF config, wires, watchVars
<1>1. CASE Register \/ RegisterFails \/ Wake
  BY <1>1 DEF TypeOK, Register, RegisterAgents, RegisterFails, Wake
<1>2. CASE Connect
  <2>1. up' \in Seq(ProofFrames) /\ down' \in Seq(ChallengeFrames)
    BY <1>2 DEF Connect, ProofFrames, ChallengeFrames
  <2> QED
    BY <1>2, <2>1 DEF TypeOK, Connect, ProofFrames, ChallengeFrames
<1>3. CASE ReceiveChallenge
  <2>1. /\ down \in Seq(ChallengeFrames) /\ up \in Seq(ProofFrames) /\ down # <<>>
        /\ sdk' \in {"welcome", "asleep"} /\ sock' \in {"dead", sock}
        /\ down' = Tail(down)
        /\ up' = up \/ (sock = "up" /\ sdk = "challenge" /\ up' = Append(up, Proof(Head(down).key)))
        /\ UNCHANGED <<kind, hello, pin, souk, listed, losses, link, fresh, watch, next, found, closing, kept>>
    BY <1>3 DEF TypeOK, ReceiveChallenge, ChallengeFrames, ProofFrames
  <2>2. down' \in Seq(ChallengeFrames)
    BY <2>1, HeadTailProperties
  <2>3. up' \in Seq(ProofFrames)
    <3>1. CASE up' = up
      BY <2>1, <3>1
    <3>2. CASE sock = "up" /\ sdk = "challenge" /\ up' = Append(up, Proof(Head(down).key))
      <4>1. down = <<Challenge(souk)>>
        BY <2>1, <3>2 DEF Dialogue
      <4>2. Head(down).key = souk
        BY <4>1 DEF Challenge
      <4>3. Proof(Head(down).key) \in ProofFrames
        BY <4>2 DEF Proof, ProofFrames, TypeOK
      <4> QED
        BY <2>1, <3>2, <4>3
    <3> QED
      BY <2>1, <3>1, <3>2
  <2> QED
    BY <2>1, <2>2, <2>3 DEF TypeOK, ProofFrames, ChallengeFrames
<1>4. CASE ReceiveWelcome
  BY <1>4, HeadTailProperties DEF TypeOK, ReceiveWelcome
<1>5. CASE WaitTimesOut \/ ConnectionLost
  BY <1>5 DEF TypeOK, WaitTimesOut, ConnectionLost
<1>6. CASE ReadHello
  <2>1. Challenge(souk) \in ChallengeFrames
    BY DEF TypeOK, Challenge, ChallengeFrames
  <2>2. down' \in Seq(ChallengeFrames)
    BY <1>6, <2>1, FrameFacts DEF TypeOK, ReadHello, Send, ChallengeFrames
  <2>3. up' \in Seq(ProofFrames)
    BY <1>6, HeadTailProperties DEF TypeOK, ReadHello, ProofFrames
  <2> QED
    BY <1>6, <2>2, <2>3 DEF TypeOK, ReadHello, Refuse, ProofFrames, ChallengeFrames
<1>7. CASE ReadProof
  BY <1>7, HeadTailProperties DEF TypeOK, ReadProof, QueueWelcome, Refuse
<1>8. CASE NoFrame \/ AttachRefused
  BY <1>8 DEF TypeOK, NoFrame, AttachRefused, Refuse
<1>9. CASE Attach
  <2>1. down' \in Seq(ChallengeFrames)
    BY <1>9, FrameFacts DEF TypeOK, Attach, Send, ChallengeFrames
  <2> QED
    BY <1>9, <2>1 DEF TypeOK, Attach, ChallengeFrames
<1>10. CASE WatchWakes
  <2>1. next' \in 1 .. Len(Names)
    BY <1>10, NamesFacts DEF WatchWakes
  <2>2. kept' \subseteq AllNames
    BY <1>10 DEF WatchWakes, TypeOK
  <2> QED
    BY <1>10, <2>1, <2>2 DEF TypeOK, WatchWakes
<1>11. CASE WatchAsks
  <2>1. next' \in 1 .. Len(Names)
    <3>1. next \in 1 .. Len(Names) /\ (next' = 1 \/ (next # Len(Names) /\ next' = next + 1))
      BY <1>11 DEF TypeOK, WatchAsks
    <3>2. \A l \in Nat \ {0} : \A n \in 1 .. l : \A m : m = 1 \/ (n # l /\ m = n + 1) => m \in 1 .. l
      OBVIOUS
    <3> QED
      BY <3>1, <3>2, NamesFacts
  <2>2. found' \in BOOLEAN /\ closing' \in BOOLEAN
    <3>1. closing' = TRUE \/ closing' = closing
      BY <1>11 DEF WatchAsks, RoundEnds
    <3> QED
      BY <1>11, <3>1 DEF WatchAsks, TypeOK
  <2>3. /\ watch' \in {"asleep", "returned", watch}
        /\ UNCHANGED <<kind, hello, pin, souk, listed, losses, sdk, sock, up, down, link, fresh, kept>>
    BY <1>11 DEF WatchAsks, RoundEnds
  <2> QED
    BY <2>1, <2>2, <2>3 DEF TypeOK
<1>12. CASE AskRaises \/ WriterCloses \/ Cleanup
  BY <1>12 DEF TypeOK, AskRaises, WriterCloses, Cleanup
<1>13. CASE Lose
  <2>1. losses' \in 0 .. MaxLosses
    BY <1>13, AttachmentConstants DEF TypeOK, AttachmentConstants, Lose
  <2>2. listed' \subseteq AllNames /\ kept' \subseteq AllNames
    BY <1>13 DEF TypeOK, Lose
  <2> QED
    BY <1>13, <2>1, <2>2 DEF TypeOK, Lose
<1>14. CASE Delete
  <2>1. losses' \in 0 .. MaxLosses
    BY <1>14, AttachmentConstants DEF TypeOK, AttachmentConstants, Delete
  <2>2. listed' \subseteq AllNames /\ kept' \subseteq AllNames
    BY <1>14 DEF TypeOK, Delete
  <2> QED
    BY <1>14, <2>1, <2>2 DEF TypeOK, Delete
<1>15. CASE Drop \/ Expire
  BY <1>15 DEF TypeOK, Drop, Expire
<1>16. CASE Redeploy
  <2>1. losses' \in 0 .. MaxLosses
    BY <1>16, AttachmentConstants DEF TypeOK, AttachmentConstants, Redeploy
  <2>2. souk' \in Souks
    BY <1>16 DEF Redeploy, Souks
  <2> QED
    BY <1>16, <2>1, <2>2 DEF TypeOK, Redeploy
<1>17. CASE UNCHANGED vars
  BY <1>17 DEF TypeOK, vars
<1> QED
  BY <1>1, <1>2, <1>3, <1>4, <1>5, <1>6, <1>7, <1>8, <1>9, <1>10, <1>11, <1>12, <1>13, <1>14, <1>15,
     <1>16, <1>17 DEF Next

\* The handshake goes from one of its situations to the next, or the socket dies.
LEMMA DialogueStep == TypeOK /\ Dialogue /\ [Next]_vars => Dialogue'
<1> SUFFICES ASSUME TypeOK, Dialogue, [Next]_vars, sock' = "up"
             PROVE  Dialogue'
  BY DEF Dialogue
<1> USE DEF config, wires, watchVars
<1>1. CASE Register \/ RegisterFails \/ Wake
  BY <1>1 DEF Dialogue, Register, RegisterFails, Wake
<1>2. CASE Connect
  BY <1>2 DEF Dialogue, Connect
<1>3. CASE ReceiveChallenge
  <2>1. /\ sock = "up" /\ sdk = "challenge" /\ link = "proof" /\ up = <<>> /\ down = <<Challenge(souk)>>
        /\ UNCHANGED <<souk, link>>
    BY <1>3 DEF Dialogue, ReceiveChallenge
  <2>2. sdk' = "welcome" /\ up' = Append(up, Proof(Head(down).key)) /\ down' = Tail(down)
    BY <1>3, <2>1 DEF ReceiveChallenge
  <2>3. up' = <<Proof(Head(down).key)>> /\ down' = <<>>
    BY <2>1, <2>2
  <2>4. Len(up') = 1
    BY <2>3
  <2> QED
    BY <2>1, <2>2, <2>3, <2>4 DEF Dialogue
<1>4. CASE ReceiveWelcome
  <2>1. /\ sock = "up" /\ link = "open" /\ up = <<>> /\ down = <<Welcome>>
        /\ sdk' = "serving" /\ down' = Tail(down) /\ UNCHANGED <<link, up>>
    BY <1>4 DEF Dialogue, ReceiveWelcome
  <2>2. down' = <<>>
    BY <2>1
  <2> QED
    BY <2>1, <2>2 DEF Dialogue
<1>5. CASE WaitTimesOut \/ ConnectionLost
  BY <1>5 DEF Dialogue, WaitTimesOut, ConnectionLost
<1>6. CASE ReadHello
  <2>1. /\ sock = "up" /\ sdk = "challenge" /\ link = "hello" /\ up = <<Hello>> /\ down = <<>>
        /\ UNCHANGED <<souk, sdk>>
    BY <1>6 DEF Dialogue, ReadHello, Refuse
  <2>2. link' = "proof" /\ up' = Tail(up) /\ down' = Append(down, Challenge(souk))
    BY <1>6, <2>1 DEF ReadHello, Refuse, Send
  <2>3. up' = <<>> /\ down' = <<Challenge(souk)>>
    BY <2>1, <2>2
  <2> QED
    BY <2>1, <2>2, <2>3 DEF Dialogue, Challenge
<1>7. CASE ReadProof
  <2>1. /\ sock = "up" /\ sdk = "welcome" /\ link = "proof" /\ Len(up) = 1 /\ down = <<>>
        /\ link' = "attaching" /\ up' = Tail(up) /\ down' = down /\ sdk' = sdk
    BY <1>7 DEF Dialogue, ReadProof, QueueWelcome, Refuse
  <2>2. up' = <<>>
    BY <2>1, FrameFacts DEF TypeOK
  <2> QED
    BY <2>1, <2>2 DEF Dialogue
<1>8. CASE NoFrame \/ AttachRefused
  BY <1>8 DEF NoFrame, AttachRefused, Refuse
<1>9. CASE Attach
  <2>1. /\ sock = "up" /\ sdk = "welcome" /\ link = "attaching" /\ up = <<>> /\ down = <<>>
        /\ link' = "open" /\ up' = up /\ down' = Append(down, Welcome) /\ sdk' = sdk
    BY <1>9 DEF Dialogue, Attach, Send
  <2>2. down' = <<Welcome>>
    BY <2>1
  <2> QED
    BY <2>1, <2>2 DEF Dialogue
<1>10. CASE WatchWakes \/ WatchAsks \/ AskRaises
  BY <1>10 DEF Dialogue, WatchWakes, WatchAsks, AskRaises
<1>11. CASE WriterCloses \/ Drop \/ Redeploy
  BY <1>11 DEF WriterCloses, Drop, Redeploy
<1>12. CASE Cleanup \/ Lose \/ Delete \/ Expire
  BY <1>12 DEF Dialogue, Cleanup, Lose, Delete, Expire
<1>13. CASE UNCHANGED vars
  BY <1>13 DEF Dialogue, vars
<1> QED
  BY <1>1, <1>2, <1>3, <1>4, <1>5, <1>6, <1>7, <1>8, <1>9, <1>10, <1>11, <1>12, <1>13 DEF Next

\* Whoever goes past the challenge recognised the souk that sent it.
LEMMA TrustedStep == TypeOK /\ Dialogue /\ Trusted /\ [Next]_vars => Trusted'
<1> SUFFICES ASSUME TypeOK, Dialogue, Trusted, [Next]_vars
             PROVE  Trusted'
  OBVIOUS
<1> USE DEF config, wires, watchVars
<1>1. UNCHANGED <<kind, pin>>
  BY DEF Next, vars, Register, RegisterFails, Connect, ReceiveChallenge, ReceiveWelcome, WaitTimesOut,
         ConnectionLost, Wake, ReadHello, ReadProof, NoFrame, Attach, AttachRefused, WatchWakes, WatchAsks,
         AskRaises, WriterCloses, Cleanup, Lose, Delete, Drop, Expire, Redeploy
<1>2. CASE ReceiveChallenge
  <2> SUFFICES ASSUME sock' = "up", sdk' \in {"welcome", "serving"}, pin # NoKey
               PROVE  souk' = pin
    BY <1>1 DEF Trusted
  <2>1. /\ sock = "up" /\ Recognises(Head(down)) /\ souk' = souk /\ down = <<Challenge(souk)>>
    BY <1>2 DEF Dialogue, ReceiveChallenge
  <2>2. Head(down).key = souk /\ kind # "bridge"
    BY <2>1 DEF Challenge, Trusted
  <2> QED
    BY <2>1, <2>2 DEF Recognises, CheckSoukIdentity, VerifySouk
<1>3. CASE Connect \/ WaitTimesOut \/ ConnectionLost \/ Wake \/ Register \/ RegisterFails
  BY <1>1, <1>3 DEF Trusted, Connect, WaitTimesOut, ConnectionLost, Wake, Register, RegisterFails
<1>4. CASE ReceiveWelcome \/ ReadHello \/ ReadProof \/ NoFrame \/ Attach \/ AttachRefused
  BY <1>1, <1>4 DEF Trusted, ReceiveWelcome, ReadHello, ReadProof, NoFrame, Attach, AttachRefused, Refuse
<1>5. CASE WatchWakes \/ WatchAsks \/ AskRaises \/ WriterCloses \/ Cleanup
  BY <1>1, <1>5 DEF Trusted, WatchWakes, WatchAsks, AskRaises, WriterCloses, Cleanup
<1>6. CASE Lose \/ Delete \/ Drop \/ Expire \/ Redeploy
  BY <1>1, <1>6 DEF Trusted, Lose, Delete, Drop, Expire, Redeploy
<1>7. CASE UNCHANGED vars
  BY <1>1, <1>7 DEF Trusted, vars
<1> QED
  BY <1>2, <1>3, <1>4, <1>5, <1>6, <1>7 DEF Next

\* Nothing but a name's own loss takes it from what the watcher's round remembers.
LEMMA RememberedStep == TypeOK /\ Remembered /\ [Next]_vars => Remembered'
<1> SUFFICES ASSUME TypeOK, Remembered, [Next]_vars
             PROVE  Remembered'
  OBVIOUS
<1> USE DEF config, wires, watchVars
<1>1. next \in 1 .. Len(Names) /\ Len(Names) \in Nat /\ kept \subseteq AllNames
  BY NamesFacts DEF TypeOK
<1>2. ASSUME UNCHANGED <<kept, listed, next, found>>, watch' = "asking" => watch = "asking"
      PROVE  Remembered'
  BY <1>2 DEF Remembered
<1>3. CASE Register
  BY <1>1, <1>3 DEF Remembered, Register, RegisterAgents
<1>4. CASE RegisterFails \/ Connect \/ ReceiveChallenge \/ ReceiveWelcome \/ WaitTimesOut \/ ConnectionLost \/ Wake
  BY <1>2, <1>4 DEF RegisterFails, Connect, ReceiveChallenge, ReceiveWelcome, WaitTimesOut, ConnectionLost, Wake
<1>5. CASE ReadHello \/ ReadProof \/ NoFrame \/ Attach \/ AttachRefused
  BY <1>2, <1>5 DEF ReadHello, ReadProof, NoFrame, Attach, AttachRefused
<1>6. CASE WatchWakes
  BY <1>6 DEF Remembered, WatchWakes
<1>7. CASE WatchAsks
  <2>1. UNCHANGED <<kept, listed>> /\ found' = (found \/ Names[next] \in listed)
    BY <1>7 DEF WatchAsks
  <2>2. ASSUME watch' = "asking", NEW i \in 1 .. next' - 1, Names[i] \in kept
        PROVE  found'
    <3>1. next' = next + 1 /\ watch = "asking"
      BY <1>7, <2>2 DEF WatchAsks, RoundEnds
    <3>2. CASE i = next
      BY <2>1, <2>2, <3>2 DEF Remembered
    <3>3. CASE i # next
      <4>1. i \in 1 .. next - 1
        BY <1>1, <2>2, <3>1, <3>3
      <4> QED
        BY <2>1, <2>2, <3>1, <4>1 DEF Remembered
    <3> QED
      BY <3>2, <3>3
  <2> QED
    BY <2>1, <2>2 DEF Remembered
<1>8. CASE AskRaises \/ WriterCloses \/ Cleanup \/ Drop \/ Expire \/ Redeploy
  BY <1>2, <1>8 DEF AskRaises, WriterCloses, Cleanup, Drop, Expire, Redeploy
<1>9. CASE Lose \/ Delete
  BY <1>9 DEF Remembered, Lose, Delete
<1>10. CASE UNCHANGED vars
  BY <1>2, <1>10 DEF vars
<1> QED
  BY <1>3, <1>4, <1>5, <1>6, <1>7, <1>8, <1>9, <1>10 DEF Next

\* The handshake's invariant is inductive.
LEMMA AttachStep == AttachInv /\ [Next]_vars => AttachInv'
  BY AttachTypeStep, DialogueStep, TrustedStep, RememberedStep DEF AttachInv

\* A client that serves on a live socket is attached through it.
THEOREM WelcomedIsAttached == Spec => []WelcomeMeansAttached
<1>1. AttachInv => WelcomeMeansAttached
  BY DEF AttachInv, Dialogue, WelcomeMeansAttached
<1> QED
  BY <1>1, AttachInit, AttachStep, PTL DEF Spec

\* A provider that pinned a souk is served by no other.
THEOREM OnlyThePinnedServes == Spec => []ServedByThePinned
<1>1. AttachInv => ServedByThePinned
  BY DEF AttachInv, Trusted, ServedByThePinned
<1> QED
  BY <1>1, AttachInit, AttachStep, PTL DEF Spec

\* The watcher queues a close only when no name stayed listed through its round.
THEOREM ListedKeepsItsSocket == Spec => ListedNameKeepsSocket
<1>1. ASSUME AttachInv, [Next]_vars, ~ closing, closing'
      PROVE  kept = {}
  <2>1. WatchAsks
    BY <1>1 DEF Next, vars, config, wires, watchVars, Register, RegisterFails, Connect, ReceiveChallenge,
         ReceiveWelcome, WaitTimesOut, ConnectionLost, Wake, ReadHello, ReadProof, NoFrame, Attach,
         AttachRefused, WatchWakes, AskRaises, WriterCloses, Cleanup, Lose, Delete, Drop, Expire, Redeploy
  <2>2. watch = "asking" /\ next = Len(Names) /\ ~ found /\ Names[next] \notin listed
    BY <1>1, <2>1 DEF WatchAsks, RoundEnds, AnyListed
  <2>3. ASSUME NEW n \in kept
        PROVE  FALSE
    <3>1. PICK i \in 1 .. Len(Names) : n = Names[i]
      BY <1>1, <2>3, NamesFacts DEF AttachInv, TypeOK, AllNames
    <3>2. CASE i = next
      BY <1>1, <2>2, <2>3, <3>1, <3>2 DEF AttachInv, Remembered
    <3>3. CASE i # next
      <4>1. i \in 1 .. next - 1
        BY <2>2, <3>3, NamesFacts
      <4> QED
        BY <1>1, <2>2, <2>3, <3>1, <4>1 DEF AttachInv, Remembered
    <3> QED
      BY <3>2, <3>3
  <2> QED
    BY <2>3
<1>2. AttachInv /\ [Next]_vars => [~ closing /\ closing' => kept = {}]_vars
  BY <1>1
<1> QED
  BY <1>2, AttachInit, AttachStep, PTL DEF Spec, ListedNameKeepsSocket

\* Neither end of the handshake, nor the watcher, leaves the states the code
\* gives it, whoever is connecting and whatever is lost.
THEOREM TypeCorrect == Spec => []TypeOK
<1>1. AttachInv => TypeOK
  BY DEF AttachInv
<1> QED
  BY <1>1, AttachInit, AttachStep, PTL DEF Spec

=============================================================================
