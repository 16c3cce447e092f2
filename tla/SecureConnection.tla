---------------------------- MODULE SecureConnection ----------------------------
(***************************************************************************)
(* One encrypted connection, from the first CONNECT to a proxy to the      *)
(* messages on it (ProxySocket, SecureSocket, TCPSocket, aes.cpp and the   *)
(* framing of IPCConnector).                                               *)
(*                                                                         *)
(* The connect thread of the initiator goes through the proxy, if there is *)
(* one, and through PerformSslVerify; the acceptor runs PerformSslVerify   *)
(* in its listen thread, in the constructor of the accepted socket.  Then  *)
(* the threads of each side send messages and one thread of each reads.    *)
(* Bytes of messages are kept apart, what a key or a cipher text holds is  *)
(* not.  The proxy is modelled by the answers it may give (external), and  *)
(* so is a peer that connects with a socket that exchanges no keys.        *)
(***************************************************************************)
EXTENDS Integers, Sequences, FiniteSets, SequencesExt

CONSTANTS Initiating, Accepting,  \* threads of each side that send messages
          Lengths,                \* lengths of messages
          AES_BLOCK_SIZE, MAX_BUFFER_LEN,
          MaxMessage              \* messages sent by each side, at most

Side == {"initiator", "acceptor"}

ASSUME SecureConnectionAssumption ==
  /\ AES_BLOCK_SIZE \in Nat \ {0} /\ MAX_BUFFER_LEN \in Nat \ {0}
  /\ MAX_BUFFER_LEN % AES_BLOCK_SIZE = 0
  /\ Lengths \subseteq Nat
  /\ Initiating \cap Accepting = {}
  /\ MaxMessage \in [Side -> Nat]

Peer == [initiator |-> "acceptor", acceptor |-> "initiator"]
Thread == Initiating \cup Accepting
SideOf(t) == IF t \in Initiating THEN "initiator" ELSE "acceptor"

Scheme == {"NTLM", "Negotiate", "Digest", "Basic"}

VARIABLES
  m_isUseProxy,  \* the initiator's user wants its TCP connections to go through the proxy
  pc,          \* where the initiator's connect thread is
  acc,         \* where the acceptor's listen thread is
  granted,     \* history: what is sent reaches the acceptor, not only a proxy
  m_bInit,     \* Send and Recv of a side encrypt
  wire,        \* what travels to a side
  up,          \* the connection is
  sending,     \* messages the threads are sending
  sends,       \* messages of a side so far
  m_recvdata,  \* bytes a side has decrypted and not yet handed out
  received,    \* messages a side has received, as the bytes it took for them
  mixed        \* history: frames of two messages to this side were interleaved

data == <<sending, sends, m_recvdata, received, mixed>>
vars == <<m_isUseProxy, pc, acc, granted, m_bInit, wire, up, data>>

(* Byte k of message m of side s; byte 0 is the length SendData puts before it *)
Bytes(s, m, len) == [k \in 1..(len + 1) |-> <<s, m, k - 1, len>>]
Idle == [left |-> <<>>, on |-> FALSE, part |-> FALSE]

Raw(kind) == [kind |-> kind]
Plain(bytes) == [kind |-> "plain", len |-> Len(bytes), bytes |-> bytes]
Sent(s, item) == wire' = [wire EXCEPT ![Peer[s]] = Append(@, item)]
Reads(s, kind) ==
  /\ up /\ wire[s] # <<>> /\ Head(wire[s]).kind = kind
  /\ wire' = [wire EXCEPT ![s] = Tail(@)]

-----------------------------------------------------------------------------
(* aes.cpp *)

(* GetEncriptedDataLen: the next multiple of the block size *)
GetEncriptedDataLen(datalen) ==
  LET rest == IF datalen % AES_BLOCK_SIZE # 0
              THEN (datalen \div AES_BLOCK_SIZE + 1) * AES_BLOCK_SIZE - datalen ELSE 0
  IN  datalen + rest

(* AESEncrypt: the length of the cipher text, negative when it refuses.  The output
   buffer of SecureSocket::Send has MAX_BUFFER_LEN bytes.                          *)
AESEncrypt(datalen) ==
  LET real == GetEncriptedDataLen(datalen)
  IN  CASE MAX_BUFFER_LEN < real -> -1
        [] real > MAX_BUFFER_LEN \/ real = 0 -> -2
        [] OTHER -> real

(* AESDecrypt of datalen bytes of cipher text into a buffer of len bytes *)
AESDecrypt(datalen, len) ==
  CASE len > datalen -> -1
    [] datalen > MAX_BUFFER_LEN \/ datalen % AES_BLOCK_SIZE # 0 -> -2
    [] OTHER -> len

-----------------------------------------------------------------------------
(* The way through the proxy *)

(* UseProxy and UseStandartConnections, for the connections to come: a ConnectThread has
   its own SocketFactory                                                                 *)
UseProxy(use) ==
  /\ pc = "start" /\ m_isUseProxy # use
  /\ m_isUseProxy' = use

ProxyCalls ==
  /\ \E use \in BOOLEAN : UseProxy(use)
  /\ UNCHANGED <<pc, acc, granted, m_bInit, wire, up, data>>

(* The SocketFactory that Connect of the client, and of a TCP tunnel, takes *)
Proxied == m_isUseProxy

Failed == pc' = "failed" /\ up' = FALSE

(* what the accepting constructors start: SecureTCPSocket(int), and SecureUDTSocket, which
   is also made of a UDP socket that is yet to be connected                              *)
SecureTCPSocket == acc' = "header"
SecureUDTSocket(isUdp) == acc' = IF isUdp THEN acc ELSE "header"

(* TCPSocket::Connect or UDTSocket::Connect fails *)
ConnectFails ==
  /\ pc = "start" /\ Failed
  /\ UNCHANGED <<m_isUseProxy, acc, granted, m_bInit, wire, data>>

(* SecureTCPSocket::Connect *)
ConnectTCP ==
  /\ ~Proxied
  /\ pc = "start" /\ pc' = "header"
  /\ SecureTCPSocket
  /\ granted' = TRUE /\ up' = TRUE
  /\ UNCHANGED <<m_isUseProxy, m_bInit, wire, data>>

(* SecureUDTSocket::Connect *)
ConnectUDT ==
  /\ pc = "start" /\ pc' = "header"
  /\ SecureUDTSocket(FALSE)
  /\ granted' = TRUE /\ up' = TRUE
  /\ UNCHANGED <<m_isUseProxy, m_bInit, wire, data>>

(* A peer with another kind of socket than the acceptor's: it sends its messages as they are,
   and may say EXPECTLS before them all the same                                          *)
ConnectClear ==
  /\ pc = "start" /\ pc' = "clear"
  /\ SecureTCPSocket
  /\ granted' = TRUE /\ up' = TRUE
  /\ \E said \in {<<>>, <<Raw("EXPECTLS")>>} : wire' = [wire EXCEPT !["acceptor"] = said]
  /\ UNCHANGED <<m_isUseProxy, m_bInit, data>>

(* SecureProxyTCPSocket::Connect: to the proxy, and the first CONNECT *)
ConnectProxy ==
  /\ Proxied
  /\ pc = "start" /\ pc' = "asked" /\ up' = TRUE
  /\ UNCHANGED <<m_isUseProxy, acc, granted, m_bInit, wire, data>>

(* SecureProxyTCPSocket::ReConnect: a new connection to the proxy *)
ReConnect == up' = TRUE

(* the CONNECT with credentials, and the next answer is awaited *)
Credentials(next) == pc' = next

(* getDigestAuthType of the qop of the offer *)
getDigestAuthType(qop) == IF qop = {} THEN {"unknown"} ELSE qop

(* performDigestProxyAuthentication, up to its CONNECT: a list of two qops is cut at its
   comma and its second half is no parameter; auth-int alone is not implemented        *)
Digest ==
  \E qop \in SUBSET {"auth", "auth-int"} :
    IF Cardinality(qop) = 2 \/ getDigestAuthType(qop) = {"auth-int"}
    THEN Failed ELSE ReConnect /\ Credentials("auth")

(* performBasicProxyAuthentication, up to its CONNECT *)
Basic == ReConnect /\ Credentials("auth")

(* performNtlmProxyAuthentication, up to its first CONNECT *)
Ntlm == ReConnect /\ Credentials("ntlm")

(* performProxyAuthtorization: ReConnect, then the first scheme the code looks for *)
Authenticate(offers) ==
  \/ Failed                        \* ReConnect or a Send fails, or no scheme is known
  \/ offers \cap {"NTLM", "Negotiate"} # {} /\ Ntlm
  \/ offers \cap {"NTLM", "Negotiate"} = {} /\ "Digest" \in offers /\ Digest
  \/ offers = {"Basic"} /\ Basic

(* recvProxyResponse of a code, 0 for one of no meaning, which granted only records: the
   proxy of the connection in use has opened the way with its last answer               *)
Answer(code) == granted' = (code = 200)

(* PerformProxyConnection: the answer to the first CONNECT *)
PerformProxyConnection ==
  /\ pc = "asked"
  /\ \/ Answer(200) /\ pc' = "header" /\ SecureTCPSocket /\ UNCHANGED up
     \/ Answer(407) /\ (\E offers \in SUBSET Scheme : Authenticate(offers)) /\ UNCHANGED acc
     \/ Answer(0) /\ Failed /\ UNCHANGED acc
  /\ UNCHANGED <<m_isUseProxy, m_bInit, wire, data>>

(* performNtlmProxyAuthentication, the first answer: whatever its code, a challenge that
   fits the buffer is answered on the same connection                                  *)
NtlmChallenge ==
  /\ pc = "ntlm"
  /\ \E code \in {200, 407, 0} : Answer(code)
  /\ (Credentials("auth") /\ UNCHANGED up) \/ Failed
  /\ UNCHANGED <<m_isUseProxy, acc, m_bInit, wire, data>>

(* the last answer in performBasic-, performDigest- and performNtlmProxyAuthentication *)
ProxyAnswer ==
  /\ pc = "auth"
  /\ \/ Answer(200) /\ pc' = "header" /\ SecureTCPSocket /\ UNCHANGED up
     \/ (\E code \in {407, 0} : Answer(code)) /\ Failed /\ UNCHANGED acc
  /\ UNCHANGED <<m_isUseProxy, m_bInit, wire, data>>

-----------------------------------------------------------------------------
(* SecureSocket::PerformSslVerify of the initiator (it says EXPECTLS) *)

SendHeader ==
  /\ pc = "header" /\ up
  /\ Sent("initiator", Raw("EXPECTLS"))
  /\ pc' = "peerHeader"
  /\ UNCHANGED <<m_isUseProxy, acc, granted, m_bInit, up, data>>

RecvStartTls ==
  /\ pc = "peerHeader"
  /\ Reads("initiator", "STARTTLS")
  /\ pc' = "rsa"
  /\ UNCHANGED <<m_isUseProxy, acc, granted, m_bInit, up, data>>

RecvRsaKey ==
  /\ pc = "rsa"
  /\ Reads("initiator", "rsa")
  /\ pc' = "aes"
  /\ UNCHANGED <<m_isUseProxy, acc, granted, m_bInit, up, data>>

(* the mutant of SendAesKey that sets m_bInit first, so that Send encrypts the key *)
SendAesKeyInit ==
  /\ pc = "aes" /\ up
  /\ Sent("initiator", [kind |-> "frame", len |-> 1, cipher |-> AESEncrypt(1), bytes |-> <<"key">>])
  /\ m_bInit' = [m_bInit EXCEPT !["initiator"] = TRUE]
  /\ pc' = "open"
  /\ UNCHANGED <<m_isUseProxy, acc, granted, up, data>>

(* the AES key goes out in clear, under the RSA key; only then m_bInit is set *)
SendAesKey ==
  /\ pc = "aes" /\ up
  /\ Sent("initiator", Raw("aes"))
  /\ m_bInit' = [m_bInit EXCEPT !["initiator"] = TRUE]
  /\ pc' = "open"
  /\ UNCHANGED <<m_isUseProxy, acc, granted, up, data>>

(* the mutant of VerifyFails whose caller goes on with the socket, as the acceptor's does *)
VerifyFailsIgnored ==
  /\ pc \in {"header", "peerHeader", "rsa", "aes"} /\ (~up \/ pc = "aes")
  /\ pc' = "open"
  /\ UNCHANGED <<m_isUseProxy, acc, granted, m_bInit, wire, up, data>>

(* a Send or a Recv has failed, or there is no AES key: ConnectThread deletes the socket *)
VerifyFails ==
  /\ pc \in {"header", "peerHeader", "rsa", "aes"} /\ (~up \/ pc = "aes")
  /\ Failed
  /\ UNCHANGED <<m_isUseProxy, acc, granted, m_bInit, wire, data>>

(* PerformSslVerify of the acceptor, in the constructor SecureTCPSocket(int) *)
AcceptHeader ==
  /\ acc = "header" /\ up
  /\ Sent("acceptor", Raw("STARTTLS"))
  /\ acc' = "peerHeader"
  /\ UNCHANGED <<m_isUseProxy, pc, granted, m_bInit, up, data>>

(* the mutant of RecvExpecTls that takes the acceptor for the side that gets the RSA key *)
RecvExpecTlsNoKey ==
  /\ acc = "peerHeader"
  /\ Reads("acceptor", "EXPECTLS")
  /\ acc' = "aes"
  /\ UNCHANGED <<m_isUseProxy, pc, granted, m_bInit, up, data>>

RecvExpecTls ==
  /\ acc = "peerHeader"
  /\ Reads("acceptor", "EXPECTLS")
  /\ acc' = "key"
  /\ UNCHANGED <<m_isUseProxy, pc, granted, m_bInit, up, data>>

SendRsaKey ==
  /\ acc = "key" /\ up
  /\ Sent("acceptor", Raw("rsa"))
  /\ acc' = "aes"
  /\ UNCHANGED <<m_isUseProxy, pc, granted, m_bInit, up, data>>

RecvAesKey ==
  /\ acc = "aes"
  /\ Reads("acceptor", "aes")
  /\ m_bInit' = [m_bInit EXCEPT !["acceptor"] = TRUE]
  /\ acc' = "done"
  /\ UNCHANGED <<m_isUseProxy, pc, granted, up, data>>

(* a Send or a Recv fails; the constructor ignores the result: a connector is made for the
   socket all the same                                                                    *)
AcceptFails ==
  /\ acc \in {"header", "peerHeader", "key", "aes"} /\ ~up
  /\ acc' = "done"
  /\ UNCHANGED <<m_isUseProxy, pc, granted, m_bInit, wire, up, data>>

(* what was read is no header, or does not decrypt to an AES key: the same on a connection
   that lasts.  The bytes that were taken for a header or a key are gone.                 *)
AcceptRefuses ==
  LET f == Head(wire["acceptor"])
      rest == Tail(wire["acceptor"])
  IN  /\ acc \in {"peerHeader", "aes"} /\ up
      /\ wire["acceptor"] # <<>> /\ f.kind = "plain"
      /\ \E n \in 1..f.len :
           wire' = [wire EXCEPT !["acceptor"] =
                      IF n = f.len THEN rest
                      ELSE <<Plain(SubSeq(f.bytes, n + 1, f.len))>> \o rest]
      /\ acc' = "done"
      /\ UNCHANGED <<m_isUseProxy, pc, granted, m_bInit, up, data>>

-----------------------------------------------------------------------------
(* Messages *)
Started(s) == IF s = "initiator" THEN pc \in {"open", "clear"} ELSE acc = "done"

(* IPCConnector::SendData: the length and the message, in one call of Send *)
SendData(t, len) ==
  LET s == SideOf(t) IN
  /\ Started(s) /\ ~sending[t].on
  /\ sends[s] < MaxMessage[s]
  /\ sends' = [sends EXCEPT ![s] = @ + 1]
  /\ sending' = [sending EXCEPT ![t] = [left |-> Bytes(s, sends[s] + 1, len), on |-> TRUE,
                                        part |-> FALSE]]
  /\ UNCHANGED <<m_isUseProxy, pc, acc, granted, m_bInit, wire, up, m_recvdata, received, mixed>>

(* the mutant of Chunk with an off-by-one: a chunk AESEncrypt refuses *)
ChunkOver(s, left) ==
  IF m_bInit[s] /\ Len(left) > MAX_BUFFER_LEN + 1 THEN MAX_BUFFER_LEN ELSE Len(left)

(* the bytes Send passes to one SendData of the socket: all of them when nothing is
   encrypted, MAX_BUFFER_LEN at most when it is                                    *)
Chunk(s, left) ==
  IF m_bInit[s] /\ Len(left) > MAX_BUFFER_LEN THEN MAX_BUFFER_LEN ELSE Len(left)

(* SecureSocket::Send of one chunk: the length in clear and the cipher text *)
Frame(bytes) ==
  [kind |-> "frame", len |-> Len(bytes), cipher |-> AESEncrypt(Len(bytes)), bytes |-> bytes]

(* Send of the socket: encrypted once m_bInit is set, the bytes as they are before *)
Send(s, bytes) ==
  IF m_bInit[s] THEN Frame(bytes) ELSE Plain(bytes)

(* SecureSocket::Send: one chunk; the lock is TCPSocket's and held for one frame only *)
SendFrame(t) ==
  LET s == SideOf(t)
      n == Chunk(s, sending[t].left)
      rest == SubSeq(sending[t].left, n + 1, Len(sending[t].left))
  IN  /\ sending[t].on
      /\ IF up /\ (m_bInit[s] => AESEncrypt(n) > 0)
         THEN /\ Sent(s, Send(s, SubSeq(sending[t].left, 1, n)))
              /\ sending' = [sending EXCEPT ![t] = IF rest = <<>> THEN Idle ELSE
                               [left |-> rest, on |-> TRUE, part |-> TRUE]]
              /\ mixed' = [mixed EXCEPT ![Peer[s]] =
                   @ \/ \E o \in Thread \ {t} : SideOf(o) = s /\ sending[o].part]
         ELSE sending' = [sending EXCEPT ![t] = Idle] /\ UNCHANGED <<wire, mixed>>
      /\ UNCHANGED <<m_isUseProxy, pc, acc, granted, m_bInit, up, sends, m_recvdata, received>>

(* SecureSocket::Recv: what AESDecrypt makes of a frame *)
Decrypted(f) == SubSeq(f.bytes, 1, AESDecrypt(GetEncriptedDataLen(f.len), f.len))

(* Recv of the socket: one frame is decrypted once m_bInit is set, bytes in clear before *)
Recv(s) ==
  LET kind == IF m_bInit[s] THEN "frame" ELSE "plain"
      f == Head(wire[s])
  IN  /\ Reads(s, kind)
      /\ m_recvdata' = [m_recvdata EXCEPT ![s] = @ \o (IF m_bInit[s] THEN Decrypted(f)
                                                        ELSE f.bytes)]

(* the reading thread takes what has come *)
RecvFrame(s) ==
  /\ Started(s) /\ Recv(s)
  /\ UNCHANGED <<m_isUseProxy, pc, acc, granted, m_bInit, up, sending, sends, received, mixed>>

(* the mutant of GetData that empties the buffer *)
GetDataAll(buffer, len) == <<>>

(* GetData: what is left when len bytes were handed out *)
GetData(buffer, len) == SubSeq(buffer, len + 1, Len(buffer))

(* IPCConnector::ThreadFunc with GetData: the length, then as many bytes.  What it takes
   for a length when the stream is out of step is any byte of a message: ThreadFunc ends
   or reads on.                                                                         *)
OnData(s) ==
  LET head == Head(m_recvdata[s]) IN
  /\ Started(s) /\ m_recvdata[s] # <<>> /\ up
  /\ \/ \E len \in IF head[3] = 0 THEN {head[4]} ELSE Lengths :
          /\ Len(m_recvdata[s]) > len
          /\ received' = [received EXCEPT ![s] = Append(@, SubSeq(m_recvdata[s], 1, len + 1))]
          /\ m_recvdata' = [m_recvdata EXCEPT ![s] = GetData(@, len + 1)]
          /\ UNCHANGED up
     \/ head[3] # 0 /\ up' = FALSE /\ UNCHANGED <<received, m_recvdata>>
  /\ UNCHANGED <<m_isUseProxy, pc, acc, granted, m_bInit, wire, sending, sends, mixed>>

(* either side closes, or the network does *)
Cut ==
  /\ pc # "start" /\ up
  /\ up' = FALSE
  /\ UNCHANGED <<m_isUseProxy, pc, acc, granted, m_bInit, wire, data>>

-----------------------------------------------------------------------------
Init ==
  /\ m_isUseProxy = FALSE
  /\ pc = "start" /\ acc = "accept"
  /\ granted = FALSE
  /\ m_bInit = [s \in Side |-> FALSE]
  /\ wire = [s \in Side |-> <<>>]
  /\ up = FALSE
  /\ sending = [t \in Thread |-> Idle]
  /\ sends = [s \in Side |-> 0]
  /\ m_recvdata = [s \in Side |-> <<>>]
  /\ received = [s \in Side |-> <<>>]
  /\ mixed = [s \in Side |-> FALSE]

ConnectStep ==
  \/ ConnectFails \/ ConnectTCP \/ ConnectUDT \/ ConnectClear
  \/ ConnectProxy \/ PerformProxyConnection \/ NtlmChallenge \/ ProxyAnswer
  \/ SendHeader \/ RecvStartTls \/ RecvRsaKey \/ SendAesKey \/ VerifyFails
AcceptStep ==
  AcceptHeader \/ RecvExpecTls \/ SendRsaKey \/ RecvAesKey \/ AcceptFails \/ AcceptRefuses

Next ==
  \/ ProxyCalls
  \/ ConnectStep \/ AcceptStep \/ Cut
  \/ \E t \in Thread : SendFrame(t) \/ \E len \in Lengths : SendData(t, len)
  \/ \E s \in Side : RecvFrame(s) \/ OnData(s)

Spec == Init /\ [][Next]_vars

(* the threads go on when they can; the proxy answers or closes *)
FairSpec ==
  /\ Spec /\ WF_vars(ConnectStep) /\ WF_vars(AcceptStep)
  /\ \A t \in Thread : WF_vars(SendFrame(t))
  /\ \A s \in Side : WF_vars(RecvFrame(s)) /\ WF_vars(OnData(s))

-----------------------------------------------------------------------------
(* Every variable holds a value of its type, and every frame has a cipher text. *)
TypeOK ==
  /\ pc \in {"start", "asked", "ntlm", "auth", "header", "peerHeader", "rsa", "aes", "open",
             "failed", "clear"}
  /\ acc \in {"accept", "header", "peerHeader", "key", "aes", "done"}
  /\ {m_isUseProxy, granted, up} \subseteq BOOLEAN
  /\ m_bInit \in [Side -> BOOLEAN] /\ mixed \in [Side -> BOOLEAN]
  /\ \A s \in Side : \A i \in ToSet(wire[s]) :
       \/ i.kind \in {"EXPECTLS", "STARTTLS", "rsa", "aes"}
       \/ i.kind = "frame" /\ i.len = Len(i.bytes) /\ i.cipher \in Nat
       \/ i.kind = "plain" /\ i.len = Len(i.bytes)
  /\ \A t \in Thread : sending[t].on \in BOOLEAN /\ sending[t].part \in BOOLEAN
  /\ \A s \in Side : sends[s] \in 0..MaxMessage[s]

(* The handshake with the acceptor, and any message, goes over a connection that leads to
   it: a direct one, or one on which the proxy's last answer was 200.                    *)
TunnelGranted ==
  pc \notin {"start", "asked", "ntlm", "auth", "failed"} => granted

(* What a side expects to read next *)
Expected(s) ==
  CASE s = "initiator" /\ pc \in {"header", "peerHeader"} -> "STARTTLS"
    [] s = "initiator" /\ pc = "rsa" -> "rsa"
    [] s = "acceptor" /\ acc \in {"header", "peerHeader"} -> "EXPECTLS"
    [] s = "acceptor" /\ acc \in {"key", "aes"} -> "aes"
    [] OTHER -> "frame"

(* The two sides switch to encryption at the same place of the stream: what a side reads
   next was written in the mode it reads in, by the step of the handshake it expects, when
   both are peers of the library.
   Nothing in the stream says which it is.  Through a proxy there is nothing to read before
   the tunnel was granted.  And the state is well typed.                                *)
ModesAgree ==
  /\ TypeOK /\ TunnelGranted
  /\ \A s \in Side : up /\ pc # "clear" /\ wire[s] # <<>> =>
       /\ Head(wire[s]).kind = Expected(s)
       /\ Head(wire[s]).kind = "frame" =>
            Head(wire[s]).cipher = GetEncriptedDataLen(Head(wire[s]).len)

(* An accepted connector may be left with m_bInit FALSE, but between two peers of the
   library no message ever reaches a side or leaves it in clear: the connection is down
   then.  With a peer that has exchanged no key all is in clear: nothing is encrypted that
   the peer could not read, nothing decrypted that it did not encrypt.                     *)
EncryptedOnly ==
  \A s \in Side :
    IF pc = "clear" THEN ~m_bInit[s] /\ \A i \in ToSet(wire[s]) : i.kind # "frame"
    ELSE /\ received[s] # <<>> => m_bInit[s] /\ m_bInit[Peer[s]]
         /\ \A i \in ToSet(wire[s]) : i.kind # "plain"

(* As long as no frame was put between two frames of one message, a side receives the
   messages of the other whole, each once: a message longer than MAX_BUFFER_LEN is sent
   under several locks, so two threads of a connection can tear each other's apart.  And
   of what came in clear the exchange has eaten the beginning.                             *)
MessagesWhole ==
  \A s \in Side : ~mixed[s] /\ pc # "clear" =>
    \A i \in 1..Len(received[s]) :
      LET b == received[s][i] IN
      /\ b = Bytes(Peer[s], b[1][2], b[1][4])
      /\ \A j \in 1..Len(received[s]) : received[s][j] = b => i = j

(* Neither side waits for ever for the other: while the connection stays up or is cut,
   the connect thread ends and the listen thread goes back to accept.  A peer that takes no
   part in the exchange may be silent for ever.                                            *)
HandshakeEnds ==
  (pc # "start") ~> (pc = "clear" \/ (pc \in {"open", "failed"} /\ acc \in {"accept", "done"}))

(* What is being sent is received or the connection ends; a torn stream ends too. *)
SentArrives ==
  \A s \in Side : (Len(received[s]) < sends[Peer[s]]) ~>
    \/ ~up \/ mixed[s] \/ pc = "clear" \/ Len(received[s]) = sends[Peer[s]]
=============================================================================
