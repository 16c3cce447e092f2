------------------------ MODULE SecureConnectionProofs ------------------------
(***************************************************************************)
(* Proofs about SecureConnection, for any threads, message lengths, block  *)
(* and buffer sizes.                                                       *)
(***************************************************************************)
EXTENDS SecureConnection, TLAPS

Before == {"start", "asked", "ntlm", "auth"}
InHandshake == {"header", "peerHeader", "rsa", "aes"}

(* The n-th item that ever travels to a side *)
Item(s, n) ==
  IF n = 1 THEN (IF s = "initiator" THEN "STARTTLS" ELSE "EXPECTLS")
  ELSE IF n = 2 THEN (IF s = "initiator" THEN "rsa" ELSE "aes")
  ELSE "frame"

(* How many of the first two items a side has read, and the other has sent it *)
ItemsRead(s) ==
  IF s = "initiator"
  THEN (IF pc \in {"header", "peerHeader"} THEN 0 ELSE IF pc = "rsa" THEN 1 ELSE 2)
  ELSE (IF acc \in {"header", "peerHeader"} THEN 0 ELSE IF acc \in {"key", "aes"} THEN 1 ELSE 2)
ItemsSent(s) ==
  IF s = "acceptor"
  THEN (IF pc = "header" THEN 0 ELSE IF pc \in {"peerHeader", "rsa", "aes"} THEN 1 ELSE 2)
  ELSE (IF acc = "header" THEN 0 ELSE IF acc \in {"peerHeader", "key"} THEN 1 ELSE 2)

Byte == Side \X Nat \X Nat \X Nat
WireItem == [kind : {"EXPECTLS", "STARTTLS", "rsa", "aes"}]
              \cup [kind : {"frame"}, len : Nat, cipher : Nat, bytes : Seq(Byte)]

SendingTyped ==
  /\ sending \in [Thread -> [left : Seq(Byte), on : BOOLEAN, part : BOOLEAN]]
  /\ sends \in [Side -> Nat] /\ \A s \in Side : sends[s] <= MaxMessage[s]

TypeInv ==
  /\ pc \in Before \cup InHandshake \cup {"open", "failed"}
  /\ acc \in {"accept", "header", "peerHeader", "key", "aes", "done"}
  /\ m_isUseProxy \in BOOLEAN /\ granted \in BOOLEAN /\ up \in BOOLEAN
  /\ m_bInit \in [Side -> BOOLEAN] /\ mixed \in [Side -> BOOLEAN]
  /\ wire \in [Side -> Seq(WireItem)]
  /\ SendingTyped
  /\ m_recvdata \in [Side -> Seq(Byte)] /\ received \in [Side -> Seq(Seq(Byte))]

(* A frame holds as many bytes as it says, and a cipher text of them *)
FrameOK(f) == f.len = Len(f.bytes) /\ f.cipher = GetEncriptedDataLen(f.len)
FramesOK ==
  \A s \in Side : \A i \in 1..Len(wire[s]) : wire[s][i].kind = "frame" => FrameOK(wire[s][i])

(* Nothing travels before the acceptor is reached, and nothing when the attempt failed *)
PhasesOK ==
  /\ pc \in Before => /\ acc = "accept" /\ m_bInit = [s \in Side |-> FALSE]
                       /\ \A s \in Side : wire[s] = <<>>
  /\ pc \in InHandshake \cup {"open"} => granted /\ acc # "accept"
  /\ pc = "failed" => ~up

(* A side that has a connector for a connection that is up encrypts; only such a side sends
   frames, and only what two such sides exchanged is handed out *)
InitKnown ==
  /\ pc = "open" => m_bInit["initiator"]
  /\ acc = "done" /\ up => m_bInit["acceptor"]
  /\ \A t \in Thread : sending[t].on => Started(SideOf(t))
  /\ \A s \in Side :
       /\ \A i \in 1..Len(wire[s]) : wire[s][i].kind = "frame" => m_bInit[Peer[s]]
       /\ m_recvdata[s] # <<>> \/ received[s] # <<>> => m_bInit[s] /\ m_bInit[Peer[s]]

(* While the connection is up, what travels to a side continues what it has read *)
InStep ==
  up /\ pc \notin Before =>
    \A s \in Side :
      /\ \A i \in 1..Len(wire[s]) : wire[s][i].kind = Item(s, ItemsRead(s) + i)
      /\ Len(wire[s]) + ItemsRead(s) >= ItemsSent(s)
      /\ ItemsSent(s) < 2 => Len(wire[s]) + ItemsRead(s) = ItemsSent(s)

(* Between two peers of the library *)
ModeInv == TypeInv /\ FramesOK /\ PhasesOK /\ InitKnown /\ InStep

ClearItem == [kind : {"EXPECTLS", "STARTTLS", "rsa"}]
               \cup [kind : {"plain"}, len : Nat, bytes : Seq(Byte)]

(* With a peer that exchanges no key: no side ever has one, and no item of the stream is a
   key or a frame *)
ClearInv ==
  /\ pc = "clear" /\ granted
  /\ acc \in {"header", "peerHeader", "key", "aes", "done"}
  /\ m_isUseProxy \in BOOLEAN /\ granted \in BOOLEAN /\ up \in BOOLEAN
  /\ m_bInit = [s \in Side |-> FALSE] /\ mixed \in [Side -> BOOLEAN]
  /\ wire \in [Side -> Seq(ClearItem)]
  /\ \A s \in Side : \A i \in 1..Len(wire[s]) :
       wire[s][i].kind = "plain" => wire[s][i].len = Len(wire[s][i].bytes)
  /\ SendingTyped

ConnectionInv == ModeInv \/ ClearInv

-----------------------------------------------------------------------------
LEMMA Sides ==
  /\ \A s \in Side : Peer[s] \in Side /\ Peer[s] # s /\ Peer[Peer[s]] = s
  /\ Peer["initiator"] = "acceptor" /\ Peer["acceptor"] = "initiator"
  /\ \A t \in Thread : SideOf(t) \in Side
  BY DEF Side, Peer, SideOf

(* What a Send leaves of the streams *)
LEMMA SentWire ==
  ASSUME TypeInv, NEW s \in Side, NEW item \in WireItem, Sent(s, item)
  PROVE  /\ wire' \in [Side -> Seq(WireItem)]
         /\ wire'[s] = wire[s]
         /\ Len(wire'[Peer[s]]) = Len(wire[Peer[s]]) + 1
         /\ wire'[Peer[s]][Len(wire[Peer[s]]) + 1] = item
         /\ \A i \in 1..Len(wire[Peer[s]]) : wire'[Peer[s]][i] = wire[Peer[s]][i]
<1>1. wire'[Peer[s]] = Append(wire[Peer[s]], item) /\ wire[Peer[s]] \in Seq(WireItem)
  BY Sides DEF Sent, TypeInv
<1>2. wire'[s] = wire[s] /\ wire' \in [Side -> Seq(WireItem)]
  BY Sides DEF Sent, TypeInv
<1> QED
  BY <1>1, <1>2

(* ... and a Recv *)
LEMMA ReadWire ==
  ASSUME TypeInv, NEW s \in Side, NEW kind, Reads(s, kind)
  PROVE  /\ up
         /\ wire' \in [Side -> Seq(WireItem)]
         /\ wire'[Peer[s]] = wire[Peer[s]]
         /\ 1 \in 1..Len(wire[s]) /\ wire[s][1].kind = kind
         /\ Len(wire'[s]) = Len(wire[s]) - 1
         /\ \A i \in 1..Len(wire'[s]) : i + 1 \in 1..Len(wire[s]) /\ wire'[s][i] = wire[s][i + 1]
<1>1. /\ wire[s] \in Seq(WireItem) /\ wire[s] # <<>> /\ Head(wire[s]).kind = kind
      /\ wire'[s] = Tail(wire[s])
  BY Sides DEF Reads, TypeInv
<1>2. wire' \in [Side -> Seq(WireItem)] /\ wire'[Peer[s]] = wire[Peer[s]] /\ up
  BY <1>1, Sides DEF Reads, TypeInv
<1> QED
  BY <1>1, <1>2

-----------------------------------------------------------------------------
(* The steps that send and read nothing: the way to the acceptor, and the failures *)
Way ==
  \/ ProxyCalls \/ ConnectFails \/ ConnectTCP \/ ConnectUDT \/ ConnectProxy
  \/ PerformProxyConnection \/ NtlmChallenge \/ ProxyAnswer \/ VerifyFails
  \/ AcceptFails \/ Cut

(* An attempt goes on or fails; the acceptor is reached; the exchange fails on either side;
   the connection is cut *)
WayShape ==
  \/ pc \in Before /\ pc' \in Before \cup {"failed"} /\ (pc' = "failed" => ~up') /\ acc' = acc
  \/ pc \in Before /\ pc' = "header" /\ acc' = "header" /\ granted'
  \/ pc \in InHandshake /\ pc' = "failed" /\ ~up' /\ acc' = acc /\ granted' = granted
  \/ ~up /\ acc \in {"header", "peerHeader", "key", "aes"} /\ acc' = "done"
     /\ UNCHANGED <<pc, granted, up>>
  \/ ~up' /\ UNCHANGED <<pc, acc, granted>>

LEMMA WayTaken ==
  ASSUME TypeInv, Way
  PROVE  /\ WayShape /\ UNCHANGED <<m_bInit, wire, data>>
         /\ m_isUseProxy' \in BOOLEAN /\ granted' \in BOOLEAN /\ up' \in BOOLEAN
<1> USE DEF TypeInv, WayShape, Before, InHandshake, Failed, data
<1>1. CASE ProxyCalls
  BY <1>1 DEF ProxyCalls, UseProxy
<1>2. CASE ConnectFails
  BY <1>2 DEF ConnectFails
<1>3. CASE ConnectTCP
  BY <1>3 DEF ConnectTCP, SecureTCPSocket
<1>4. CASE ConnectUDT
  BY <1>4 DEF ConnectUDT, SecureUDTSocket
<1>5. CASE ConnectProxy
  BY <1>5 DEF ConnectProxy
<1>6. CASE PerformProxyConnection
  <2>1. ASSUME NEW offers, Authenticate(offers)
        PROVE  pc' \in {"failed", "auth", "ntlm"} /\ (pc' = "failed" => ~up') /\ up' \in BOOLEAN
    BY <2>1 DEF Authenticate, Ntlm, Digest, Basic, ReConnect, Credentials
  <2>2. granted' \in BOOLEAN /\ pc = "asked" /\ UNCHANGED <<m_isUseProxy, m_bInit, wire, data>>
    BY <1>6 DEF PerformProxyConnection, Answer
  <2>3. CASE Answer(200) /\ pc' = "header" /\ SecureTCPSocket /\ UNCHANGED up
    BY <2>2, <2>3 DEF Answer, SecureTCPSocket
  <2>4. CASE (\E offers \in SUBSET Scheme : Authenticate(offers)) /\ UNCHANGED acc
    BY <2>1, <2>2, <2>4
  <2>5. CASE Failed /\ UNCHANGED acc
    BY <2>2, <2>5
  <2> QED
    BY <1>6, <2>3, <2>4, <2>5 DEF PerformProxyConnection
<1>7. CASE NtlmChallenge
  BY <1>7 DEF NtlmChallenge, Answer, Credentials
<1>8. CASE ProxyAnswer
  BY <1>8 DEF ProxyAnswer, Answer, SecureTCPSocket
<1>9. CASE VerifyFails
  BY <1>9 DEF VerifyFails
<1>10. CASE AcceptFails
  BY <1>10 DEF AcceptFails
<1>11. CASE Cut
  BY <1>11 DEF Cut
<1> QED
  BY <1>1, <1>2, <1>3, <1>4, <1>5, <1>6, <1>7, <1>8, <1>9, <1>10, <1>11 DEF Way

LEMMA WayStep ==
  ASSUME ModeInv, Way
  PROVE  ModeInv'
<1> USE DEF ModeInv, data
<1>0. /\ WayShape /\ UNCHANGED <<m_bInit, wire, data>>
      /\ m_isUseProxy' \in BOOLEAN /\ granted' \in BOOLEAN /\ up' \in BOOLEAN
  BY WayTaken
<1>1. TypeInv'
  BY <1>0 DEF TypeInv, SendingTyped, WayShape, Before, InHandshake
<1>2. FramesOK'
  BY <1>0 DEF FramesOK
<1>3. PhasesOK'
  BY <1>0 DEF PhasesOK, WayShape, Before, InHandshake
<1>4. InitKnown'
  <2>1. \A t \in Thread : ~sending[t].on \/ Started(SideOf(t))'
    BY <1>0 DEF InitKnown, PhasesOK, WayShape, Before, InHandshake, Started
  <2>2. (pc' = "open" => m_bInit["initiator"]) /\ (acc' = "done" /\ up' => m_bInit["acceptor"])
    BY <1>0 DEF InitKnown, PhasesOK, WayShape, Before, InHandshake
  <2> QED
    BY <1>0, <2>1, <2>2 DEF InitKnown
<1>5. InStep'
  <2>1. CASE pc \in Before /\ pc' = "header"
    <3>1. /\ \A s \in Side : wire'[s] = <<>> /\ Len(wire'[s]) = 0
          /\ pc' = "header" /\ acc' = "header"
      BY <1>0, <2>1 DEF PhasesOK, WayShape, Before, InHandshake
    <3> QED
      BY <3>1 DEF InStep, ItemsRead, ItemsSent
  <2>2. CASE up' /\ pc' \notin Before /\ pc' # "header"
    BY <1>0, <2>2 DEF WayShape, Before, InHandshake, PhasesOK
  <2>3. CASE up' /\ pc \notin Before /\ pc' = "header"
    BY <1>0, <2>3 DEF WayShape, Before, InHandshake, PhasesOK
  <2> QED
    BY <2>1, <2>2, <2>3 DEF InStep
<1> QED
  BY <1>1, <1>2, <1>3, <1>4, <1>5

(* The exchange: each side sends and reads the items in their order *)
LEMMA ExchangeSends ==
  ASSUME ModeInv, SendHeader \/ SendAesKey \/ AcceptHeader \/ SendRsaKey
  PROVE  ModeInv'
<1> USE DEF ModeInv, data
<1> DEFINE Sends(s, kind) ==
      /\ up /\ up' /\ Sent(s, Raw(kind)) /\ Raw(kind) \in WireItem /\ kind # "frame"
      /\ kind = Item(Peer[s], ItemsSent(Peer[s]) + 1) /\ ItemsSent(Peer[s]) < 2
      /\ ItemsSent(Peer[s])' = ItemsSent(Peer[s]) + 1 /\ ItemsSent(s)' = ItemsSent(s)
      /\ ItemsRead(s)' = ItemsRead(s) /\ ItemsRead(Peer[s])' = ItemsRead(Peer[s])
      /\ pc \notin Before /\ pc' \notin Before
<1>1. PICK s \in Side, kind \in {"EXPECTLS", "STARTTLS", "rsa", "aes"} : Sends(s, kind)
  <2> USE Sides DEF Side, ItemsRead, ItemsSent, Item, Raw, WireItem, Before
  <2>1. CASE SendHeader
    <3>1. Sends("initiator", "EXPECTLS")
      BY <2>1 DEF SendHeader
    <3> QED
      BY <3>1
  <2>2. CASE SendAesKey
    <3>1. Sends("initiator", "aes")
      BY <2>2 DEF SendAesKey
    <3> QED
      BY <3>1
  <2>3. CASE AcceptHeader
    <3>1. pc \notin Before
      BY <2>3 DEF AcceptHeader, PhasesOK
    <3>2. Sends("acceptor", "STARTTLS")
      BY <2>3, <3>1 DEF AcceptHeader
    <3> QED
      BY <3>2
  <2>4. CASE SendRsaKey
    <3>1. pc \notin Before
      BY <2>4 DEF SendRsaKey, PhasesOK
    <3>2. Sends("acceptor", "rsa")
      BY <2>4, <3>1 DEF SendRsaKey
    <3> QED
      BY <3>2
  <2> QED
    BY <2>1, <2>2, <2>3, <2>4
<1>2. /\ wire' \in [Side -> Seq(WireItem)]
      /\ wire'[s] = wire[s]
      /\ Len(wire'[Peer[s]]) = Len(wire[Peer[s]]) + 1
      /\ wire'[Peer[s]][Len(wire[Peer[s]]) + 1] = Raw(kind)
      /\ \A i \in 1..Len(wire[Peer[s]]) : wire'[Peer[s]][i] = wire[Peer[s]][i]
  BY <1>1, SentWire
<1>3. /\ \A i \in 1..Len(wire'[Peer[s]]) :
           i \in 1..Len(wire[Peer[s]]) \/ i = Len(wire[Peer[s]]) + 1
      /\ wire[s] \in Seq(WireItem) /\ wire[Peer[s]] \in Seq(WireItem)
      /\ \A r \in Side : r = s \/ r = Peer[s]
      /\ Peer[s] \in Side /\ s # Peer[s] /\ Raw(kind).kind # "frame" /\ Raw(kind).kind = kind
  <2>1. wire[s] \in Seq(WireItem) /\ wire[Peer[s]] \in Seq(WireItem) /\ Peer[s] \in Side
    BY <1>1, Sides DEF TypeInv
  <2>2. (\A r \in Side : r = s \/ r = Peer[s]) /\ s # Peer[s]
    BY <1>1, Sides DEF Side
  <2>3. Raw(kind).kind # "frame" /\ Raw(kind).kind = kind
    BY <1>1 DEF Raw
  <2>4. \A i \in 1..Len(wire'[Peer[s]]) :
          i \in 1..Len(wire[Peer[s]]) \/ i = Len(wire[Peer[s]]) + 1
    BY <1>2, <2>1
  <2> QED
    BY <2>1, <2>2, <2>3, <2>4
<1>4. TypeInv'
  <2>1. m_bInit' \in [Side -> BOOLEAN]
    BY DEF TypeInv, SendHeader, SendAesKey, AcceptHeader, SendRsaKey
  <2> QED
    BY <1>2, <2>1 DEF TypeInv, SendingTyped, SendHeader, SendAesKey, AcceptHeader, SendRsaKey,
                      InHandshake
<1>5. \A r \in Side : \A i \in 1..Len(wire'[r]) :
        wire'[r][i].kind = "frame" => i \in 1..Len(wire[r]) /\ wire'[r][i] = wire[r][i]
  <2> SUFFICES ASSUME NEW r \in Side, NEW i \in 1..Len(wire'[r]), wire'[r][i].kind = "frame"
               PROVE  i \in 1..Len(wire[r]) /\ wire'[r][i] = wire[r][i]
    OBVIOUS
  <2>1. CASE r = s
    BY <1>2, <2>1
  <2>2. CASE r = Peer[s]
    BY <1>2, <1>3, <2>2
  <2> QED
    BY <1>3, <2>1, <2>2
<1>9. FramesOK'
  BY <1>5 DEF FramesOK
<1>6. PhasesOK'
  BY <1>1 DEF PhasesOK, SendHeader, SendAesKey, AcceptHeader, SendRsaKey, InHandshake, Before
<1>7. InitKnown'
  <2>1. /\ \A r \in Side : m_bInit[r] => m_bInit'[r]
        /\ pc' = "open" => m_bInit'["initiator"]
        /\ acc' = "done" => acc = "done"
        /\ \A r \in Side : Started(r) => Started(r)'
    BY DEF SendHeader, SendAesKey, AcceptHeader, SendRsaKey, TypeInv, InitKnown, Side, Started
  <2>2. UNCHANGED <<sending, m_recvdata, received>>
    BY DEF SendHeader, SendAesKey, AcceptHeader, SendRsaKey
  <2>3. \A t \in Thread : sending'[t].on => Started(SideOf(t))'
    BY <2>1, <2>2, Sides DEF InitKnown
  <2>4. \A r \in Side : \A i \in 1..Len(wire'[r]) : wire'[r][i].kind = "frame" => m_bInit'[Peer[r]]
    BY <1>5, <2>1, Sides DEF InitKnown
  <2> QED
    BY <1>1, <2>1, <2>2, <2>3, <2>4, Sides DEF InitKnown, Side
<1>8. InStep'
  <2>1. \A i \in 1..Len(wire'[s]) : wire'[s][i].kind = Item(s, ItemsRead(s)' + i)
    BY <1>1, <1>2 DEF InStep
  <2>2. Len(wire[Peer[s]]) + ItemsRead(Peer[s]) = ItemsSent(Peer[s])
    BY <1>1, <1>3 DEF InStep
  <2>3. ItemsRead(Peer[s]) \in Nat /\ ItemsSent(Peer[s]) \in Nat /\ ItemsSent(s) \in Nat
    BY DEF ItemsRead, ItemsSent
  <2>4. \A i \in 1..Len(wire'[Peer[s]]) :
          wire'[Peer[s]][i].kind = Item(Peer[s], ItemsRead(Peer[s])' + i)
    <3>1. ASSUME NEW i \in 1..Len(wire[Peer[s]])
          PROVE  wire'[Peer[s]][i].kind = Item(Peer[s], ItemsRead(Peer[s])' + i)
      BY <1>1, <1>2, <1>3 DEF InStep
    <3>2. ItemsRead(Peer[s])' + (Len(wire[Peer[s]]) + 1) = ItemsSent(Peer[s]) + 1
      BY <1>1, <1>3, <2>2, <2>3
    <3> QED
      BY <1>1, <1>2, <1>3, <3>1, <3>2
  <2>5. /\ Len(wire'[Peer[s]]) + ItemsRead(Peer[s])' = ItemsSent(Peer[s])'
        /\ Len(wire'[s]) + ItemsRead(s)' >= ItemsSent(s)'
        /\ ItemsSent(s)' < 2 => Len(wire'[s]) + ItemsRead(s)' = ItemsSent(s)'
    BY <1>1, <1>2, <1>3, <2>2, <2>3 DEF InStep
  <2>6. ItemsSent(Peer[s])' \in Nat
    BY DEF ItemsSent
  <2> QED
    BY <1>3, <2>1, <2>4, <2>5, <2>6 DEF InStep
<1> QED
  BY <1>4, <1>9, <1>6, <1>7, <1>8

LEMMA ExchangeReads ==
  ASSUME ModeInv, RecvStartTls \/ RecvRsaKey \/ RecvExpecTls \/ RecvAesKey
  PROVE  ModeInv'
<1> USE DEF ModeInv, data
<1> DEFINE Takes(s, kind) ==
      /\ up' = up /\ Reads(s, kind) /\ ItemsRead(s) < 2
      /\ ItemsRead(s)' = ItemsRead(s) + 1 /\ ItemsRead(Peer[s])' = ItemsRead(Peer[s])
      /\ ItemsSent(s)' = ItemsSent(s) /\ ItemsSent(Peer[s])' = ItemsSent(Peer[s])
      /\ pc \notin Before /\ pc' \notin Before
<1>1. PICK s \in Side, kind \in {"STARTTLS", "rsa", "EXPECTLS", "aes"} : Takes(s, kind)
  <2> USE Sides DEF Side, ItemsRead, ItemsSent, Before
  <2>1. CASE RecvStartTls
    <3>1. Takes("initiator", "STARTTLS")
      BY <2>1 DEF RecvStartTls
    <3> QED
      BY <3>1
  <2>2. CASE RecvRsaKey
    <3>1. Takes("initiator", "rsa")
      BY <2>2 DEF RecvRsaKey
    <3> QED
      BY <3>1
  <2>3. CASE RecvExpecTls
    <3>1. pc \notin Before
      BY <2>3 DEF RecvExpecTls, PhasesOK
    <3>2. Takes("acceptor", "EXPECTLS")
      BY <2>3, <3>1 DEF RecvExpecTls
    <3> QED
      BY <3>2
  <2>4. CASE RecvAesKey
    <3>1. pc \notin Before
      BY <2>4 DEF RecvAesKey, PhasesOK
    <3>2. Takes("acceptor", "aes")
      BY <2>4, <3>1 DEF RecvAesKey
    <3> QED
      BY <3>2
  <2> QED
    BY <2>1, <2>2, <2>3, <2>4
<1>2. /\ up
      /\ wire' \in [Side -> Seq(WireItem)]
      /\ wire'[Peer[s]] = wire[Peer[s]]
      /\ 1 \in 1..Len(wire[s]) /\ wire[s][1].kind = kind
      /\ Len(wire'[s]) = Len(wire[s]) - 1
      /\ \A i \in 1..Len(wire'[s]) : i + 1 \in 1..Len(wire[s]) /\ wire'[s][i] = wire[s][i + 1]
  BY <1>1, ReadWire
<1>3. /\ \A r \in Side : r = s \/ r = Peer[s]
      /\ Peer[s] \in Side /\ wire[s] \in Seq(WireItem)
  BY <1>1, Sides DEF Side, TypeInv
<1>4. \A r \in Side : \A i \in 1..Len(wire'[r]) :
        \E j \in 1..Len(wire[r]) : wire'[r][i] = wire[r][j]
  BY <1>2, <1>3
<1>5. TypeInv'
  <2>1. m_bInit' \in [Side -> BOOLEAN]
    BY DEF TypeInv, RecvStartTls, RecvRsaKey, RecvExpecTls, RecvAesKey
  <2> QED
    BY <1>2, <2>1 DEF TypeInv, SendingTyped, RecvStartTls, RecvRsaKey, RecvExpecTls, RecvAesKey,
                      InHandshake
<1>6. FramesOK'
  BY <1>4 DEF FramesOK
<1>7. PhasesOK'
  BY <1>1 DEF PhasesOK, RecvStartTls, RecvRsaKey, RecvExpecTls, RecvAesKey, InHandshake, Before
<1>8. InitKnown'
  <2>1. /\ \A r \in Side : m_bInit[r] => m_bInit'[r]
        /\ pc' = "open" => pc = "open"
        /\ acc' = "done" => acc = "done" \/ m_bInit'["acceptor"]
        /\ \A r \in Side : Started(r) => Started(r)'
    BY DEF RecvStartTls, RecvRsaKey, RecvExpecTls, RecvAesKey, TypeInv, InitKnown, Side, Started
  <2>2. UNCHANGED <<sending, m_recvdata, received>>
    BY DEF RecvStartTls, RecvRsaKey, RecvExpecTls, RecvAesKey
  <2>3. \A t \in Thread : sending'[t].on => Started(SideOf(t))'
    BY <2>1, <2>2, Sides DEF InitKnown
  <2>4. \A r \in Side : \A i \in 1..Len(wire'[r]) : wire'[r][i].kind = "frame" => m_bInit'[Peer[r]]
    BY <1>4, <2>1, Sides DEF InitKnown
  <2> QED
    BY <1>1, <2>1, <2>2, <2>3, <2>4, Sides DEF InitKnown, Side
<1>9. InStep'
  <2>1. /\ ItemsRead(s) \in Nat /\ ItemsSent(s) \in Nat
        /\ ItemsRead(Peer[s]) \in Nat /\ ItemsSent(Peer[s]) \in Nat
    BY DEF ItemsRead, ItemsSent
  <2>2. /\ \A i \in 1..Len(wire[s]) : wire[s][i].kind = Item(s, ItemsRead(s) + i)
        /\ Len(wire[s]) + ItemsRead(s) >= ItemsSent(s)
        /\ ItemsSent(s) < 2 => Len(wire[s]) + ItemsRead(s) = ItemsSent(s)
    BY <1>1, <1>2 DEF InStep
  <2>3. ASSUME NEW i \in 1..Len(wire'[s])
        PROVE  wire'[s][i].kind = Item(s, ItemsRead(s)' + i)
    <3>1. ItemsRead(s)' + i = ItemsRead(s) + (i + 1)
      BY <1>1, <1>2, <1>3, <2>1
    <3> QED
      BY <1>2, <2>2, <3>1
  <2>4. /\ Len(wire'[s]) + ItemsRead(s)' >= ItemsSent(s)'
        /\ ItemsSent(s)' < 2 => Len(wire'[s]) + ItemsRead(s)' = ItemsSent(s)'
    BY <1>1, <1>2, <1>3, <2>1, <2>2
  <2>5. /\ \A i \in 1..Len(wire'[Peer[s]]) :
             wire'[Peer[s]][i].kind = Item(Peer[s], ItemsRead(Peer[s])' + i)
        /\ Len(wire'[Peer[s]]) + ItemsRead(Peer[s])' >= ItemsSent(Peer[s])'
        /\ ItemsSent(Peer[s])' < 2 =>
             Len(wire'[Peer[s]]) + ItemsRead(Peer[s])' = ItemsSent(Peer[s])'
    BY <1>1, <1>2, <1>3 DEF InStep
  <2> QED
    BY <1>3, <2>3, <2>4, <2>5 DEF InStep
<1> QED
  BY <1>5, <1>6, <1>7, <1>8, <1>9

-----------------------------------------------------------------------------
(* aes.cpp: a cipher text, where there is one, has the length GetEncriptedDataLen gives *)
LEMMA CipherLength ==
  ASSUME NEW n \in Nat, AESEncrypt(n) > 0
  PROVE  /\ AESEncrypt(n) = GetEncriptedDataLen(n) /\ AESEncrypt(n) \in Nat
         /\ n > 0
<1>1. GetEncriptedDataLen(n) \in Int
  <2>1. n % AES_BLOCK_SIZE \in Int /\ n \div AES_BLOCK_SIZE \in Int
    BY SecureConnectionAssumption
  <2>2. (n \div AES_BLOCK_SIZE + 1) * AES_BLOCK_SIZE \in Int
    BY <2>1, SecureConnectionAssumption
  <2> QED
    BY <2>2 DEF GetEncriptedDataLen
<1>2. AESEncrypt(n) = GetEncriptedDataLen(n)
  BY <1>1, SecureConnectionAssumption DEF AESEncrypt
<1>3. GetEncriptedDataLen(0) = 0
  <2>1. 0 % AES_BLOCK_SIZE = 0
    BY SecureConnectionAssumption
  <2> QED
    BY <2>1 DEF GetEncriptedDataLen
<1> QED
  BY <1>1, <1>2, <1>3

-----------------------------------------------------------------------------
(* A thread of a side that has its connector puts a message in hand *)
LEMMA SendDataTyped ==
  ASSUME SendingTyped, NEW t \in Thread, NEW len \in Lengths, SendData(t, len)
  PROVE  /\ SendingTyped'
         /\ \A r \in Thread : sending'[r].on => sending[r].on \/ Started(SideOf(r))
         /\ UNCHANGED <<m_isUseProxy, pc, acc, granted, m_bInit, wire, up, m_recvdata, received,
                        mixed>>
<1> DEFINE s == SideOf(t)
           b == Bytes(s, sends[s] + 1, len)
<1>1. /\ s \in Side /\ Started(s) /\ sends[s] < MaxMessage[s]
      /\ sends' = [sends EXCEPT ![s] = @ + 1]
      /\ sending' = [sending EXCEPT ![t] = [left |-> b, on |-> TRUE, part |-> FALSE]]
      /\ UNCHANGED <<m_isUseProxy, pc, acc, granted, m_bInit, wire, up, m_recvdata, received,
                     mixed>>
  BY Sides DEF SendData
<1>2. b \in Seq(Byte)
  <2>1. len \in Nat /\ sends[s] + 1 \in Nat
    BY <1>1, SecureConnectionAssumption DEF SendingTyped
  <2>2. \A k \in 1..(len + 1) : <<s, sends[s] + 1, k - 1, len>> \in Byte
    BY <1>1, <2>1 DEF Byte
  <2> QED
    BY <2>1, <2>2 DEF Bytes
<1>3. sending' \in [Thread -> [left : Seq(Byte), on : BOOLEAN, part : BOOLEAN]]
  <2> HIDE DEF b
  <2> QED
    BY <1>1, <1>2 DEF SendingTyped
<1>4. sends' \in [Side -> Nat] /\ \A r \in Side : sends'[r] <= MaxMessage[r]
  <2> HIDE DEF s
  <2>1. /\ sends \in [Side -> Nat] /\ (\A r \in Side : sends[r] <= MaxMessage[r])
        /\ MaxMessage[s] \in Nat /\ sends[s] \in Nat
    BY <1>1, SecureConnectionAssumption DEF SendingTyped
  <2>2. sends'[s] = sends[s] + 1 /\ \A r \in Side \ {s} : sends'[r] = sends[r]
    BY <1>1, <2>1
  <2>3. \A r \in Side : sends'[r] <= MaxMessage[r]
    BY <1>1, <2>1, <2>2
  <2> QED
    BY <1>1, <2>1, <2>3
<1>5. \A r \in Thread : sending'[r].on => sending[r].on \/ Started(SideOf(r))
  <2> HIDE DEF b
  <2> QED
    BY <1>1 DEF SendingTyped
<1> QED
  BY <1>1, <1>3, <1>4, <1>5 DEF SendingTyped

LEMMA SendDataStep ==
  ASSUME ModeInv, NEW t \in Thread, NEW len \in Lengths, SendData(t, len)
  PROVE  ModeInv'
<1>1. /\ SendingTyped'
      /\ \A r \in Thread : sending'[r].on => sending[r].on \/ Started(SideOf(r))
      /\ UNCHANGED <<m_isUseProxy, pc, acc, granted, m_bInit, wire, up, m_recvdata, received,
                     mixed>>
  BY SendDataTyped DEF ModeInv, TypeInv
<1>5. TypeInv'
  BY <1>1 DEF ModeInv, TypeInv
<1>6. FramesOK' /\ PhasesOK' /\ InStep'
  BY <1>1 DEF ModeInv, FramesOK, PhasesOK, InStep, ItemsRead, ItemsSent
<1>7. InitKnown'
  <2>1. \A r \in Thread : sending'[r].on => Started(SideOf(r))'
    BY <1>1 DEF ModeInv, InitKnown, Started
  <2> QED
    BY <1>1, <2>1 DEF ModeInv, InitKnown
<1> QED
  BY <1>5, <1>6, <1>7 DEF ModeInv

(* A thread has sent a chunk of its message, or given it up *)
LEMMA SendFrameTyped ==
  ASSUME SendingTyped, NEW t \in Thread, SendFrame(t)
  PROVE  LET left == sending[t].left
             n == Chunk(SideOf(t), left)
             bytes == SubSeq(left, 1, n)
         IN  /\ bytes \in Seq(Byte) /\ Len(bytes) = n /\ n \in Nat
             /\ SendingTyped'
             /\ \A r \in Thread : sending'[r].on => sending[r].on
             /\ sending[t].on
             /\ mixed \in [Side -> BOOLEAN] => mixed' \in [Side -> BOOLEAN]
             /\ UNCHANGED <<m_isUseProxy, pc, acc, granted, m_bInit, up, sends, m_recvdata,
                            received>>
<1> DEFINE s == SideOf(t)
           left == sending[t].left
           n == Chunk(s, left)
           rest == SubSeq(left, n + 1, Len(left))
           bytes == SubSeq(left, 1, n)
<1>1. /\ s \in Side /\ Peer[s] \in Side /\ sending[t].on
      /\ UNCHANGED <<m_isUseProxy, pc, acc, granted, m_bInit, up, sends, m_recvdata, received>>
  BY Sides DEF SendFrame
<1>2. /\ left \in Seq(Byte) /\ n \in Nat /\ n <= Len(left)
      /\ bytes \in Seq(Byte) /\ Len(bytes) = n /\ rest \in Seq(Byte)
  <2>1. left \in Seq(Byte)
    BY DEF SendingTyped
  <2>2. n \in Nat /\ n <= Len(left)
    <3> HIDE DEF left
    <3> QED
      BY <2>1, SecureConnectionAssumption DEF Chunk
  <2> HIDE DEF left, n
  <2> QED
    BY <2>1, <2>2
<1>3. /\ sending' \in [Thread -> [left : Seq(Byte), on : BOOLEAN, part : BOOLEAN]]
      /\ \A r \in Thread : sending'[r].on => sending[r].on
  <2>1. /\ Idle \in [left : Seq(Byte), on : BOOLEAN, part : BOOLEAN] /\ Idle.on = FALSE
        /\ [left |-> rest, on |-> TRUE, part |-> TRUE]
             \in [left : Seq(Byte), on : BOOLEAN, part : BOOLEAN]
    BY <1>2 DEF Idle
  <2>2. \/ sending' = [sending EXCEPT ![t] = Idle]
        \/ sending' = [sending EXCEPT ![t] = [left |-> rest, on |-> TRUE, part |-> TRUE]]
    BY DEF SendFrame
  <2> HIDE DEF rest
  <2> QED
    BY <1>1, <2>1, <2>2 DEF SendingTyped
<1>4. ASSUME mixed \in [Side -> BOOLEAN] PROVE mixed' \in [Side -> BOOLEAN]
  <2> DEFINE p == Peer[s]
  <2>1. (mixed[p] \/ \E o \in Thread \ {t} : SideOf(o) = s /\ sending[o].part) \in BOOLEAN
    OBVIOUS
  <2>2. \/ mixed' = [mixed EXCEPT ![p] =
                       mixed[p] \/ \E o \in Thread \ {t} : SideOf(o) = s /\ sending[o].part]
        \/ mixed' = mixed
    BY DEF SendFrame
  <2> HIDE DEF p
  <2> QED
    BY <1>4, <2>1, <2>2
<1> QED
  BY <1>1, <1>2, <1>3, <1>4 DEF SendingTyped

(* A frame leaves a side that encrypts, after all it had to say of the exchange *)
LEMMA SendFrameStep ==
  ASSUME ModeInv, NEW t \in Thread, SendFrame(t)
  PROVE  ModeInv'
<1> DEFINE s == SideOf(t)
           left == sending[t].left
           n == Chunk(s, left)
           bytes == SubSeq(left, 1, n)
<1>2. /\ bytes \in Seq(Byte) /\ Len(bytes) = n /\ n \in Nat
      /\ SendingTyped' /\ mixed' \in [Side -> BOOLEAN]
      /\ \A r \in Thread : sending'[r].on => sending[r].on
  BY SendFrameTyped DEF ModeInv, TypeInv
<1>1. /\ s \in Side /\ Peer[s] \in Side /\ Started(s) /\ sending[t].on
      /\ UNCHANGED <<m_isUseProxy, pc, acc, granted, m_bInit, up, sends, m_recvdata, received>>
  BY Sides, SendFrameTyped DEF ModeInv, TypeInv, InitKnown
<1>3. up => m_bInit[s]
  BY <1>1 DEF ModeInv, TypeInv, InitKnown, Started, Side, Before, InHandshake
<1>4. /\ PhasesOK => pc \notin Before
      /\ \A r \in Thread : sending'[r].on => Started(SideOf(r))'
  BY <1>1, <1>2 DEF ModeInv, TypeInv, InHandshake, InitKnown, Started, PhasesOK, Before
<1>5. CASE ~(up /\ AESEncrypt(n) > 0)
  <2>1. UNCHANGED <<wire, mixed>>
    BY <1>3, <1>5 DEF SendFrame
  <2>2. TypeInv'
    BY <1>1, <1>2, <2>1 DEF ModeInv, TypeInv
  <2>3. FramesOK' /\ PhasesOK'
    BY <1>1, <2>1 DEF ModeInv, FramesOK, PhasesOK
  <2>5. InStep'
    BY <1>1, <2>1 DEF ModeInv, InStep, ItemsRead, ItemsSent
  <2>4. InitKnown'
    BY <1>1, <1>4, <2>1 DEF ModeInv, InitKnown
  <2> QED
    BY <2>2, <2>3, <2>4, <2>5 DEF ModeInv
<1>6. CASE up /\ AESEncrypt(n) > 0
  <2> DEFINE f == Frame(bytes)
             p == Peer[s]
  <2>1. m_bInit[s]
    BY <1>3, <1>6
  <2>2. Sent(s, f)
    BY <1>6, <2>1 DEF SendFrame, Send
  <2>4. f \in WireItem /\ f.kind = "frame" /\ FrameOK(f)
    <3> HIDE DEF bytes, n
    <3> QED
      BY <1>2, <1>6, CipherLength DEF Frame, FrameOK, WireItem
  <2> HIDE DEF f
  <2>5. /\ wire' \in [Side -> Seq(WireItem)]
        /\ wire'[s] = wire[s]
        /\ Len(wire'[p]) = Len(wire[p]) + 1
        /\ wire'[p][Len(wire[p]) + 1] = f
        /\ \A i \in 1..Len(wire[p]) : wire'[p][i] = wire[p][i]
        /\ wire[p] \in Seq(WireItem)
    BY <1>1, <2>2, <2>4, SentWire DEF ModeInv, TypeInv, SendingTyped
  <2>6. /\ \A i \in 1..Len(wire'[p]) : i \in 1..Len(wire[p]) \/ i = Len(wire[p]) + 1
        /\ \A r \in Side : r = s \/ r = p
        /\ p \in Side /\ Peer[p] = s
    BY <1>1, <2>5, Sides DEF Side
  <2> HIDE DEF p, s
  <2>7. \A r \in Side : \A i \in 1..Len(wire'[r]) :
          \/ i \in 1..Len(wire[r]) /\ wire'[r][i] = wire[r][i]
          \/ r = p /\ i = Len(wire[r]) + 1 /\ wire'[r][i] = f
    BY <2>5, <2>6
  <2>8. TypeInv'
    BY <1>1, <1>2, <2>5 DEF ModeInv, TypeInv
  <2>9. FramesOK'
    BY <2>4, <2>7 DEF ModeInv, FramesOK
  <2>10. PhasesOK'
    BY <1>1, <1>4 DEF ModeInv, PhasesOK
  <2>11. InitKnown'
    <3>1. \A r \in Side : \A i \in 1..Len(wire'[r]) :
            wire'[r][i].kind = "frame" => m_bInit'[Peer[r]]
      BY <1>1, <2>1, <2>6, <2>7 DEF ModeInv, InitKnown
    <3> QED
      BY <1>1, <1>4, <3>1 DEF ModeInv, InitKnown
  <2>12. InStep'
    <3>1. ItemsSent(p) = 2 /\ \A r \in Side : ItemsRead(r) \in Nat /\ ItemsSent(r) \in Nat
      BY <1>1, Sides DEF ItemsSent, ItemsRead, Started, Side, p, s
    <3>2. \A r \in Side : ItemsRead(r)' = ItemsRead(r) /\ ItemsSent(r)' = ItemsSent(r)
      BY <1>1 DEF ItemsSent, ItemsRead
    <3>3. \A r \in Side :
            /\ \A i \in 1..Len(wire[r]) : wire[r][i].kind = Item(r, ItemsRead(r) + i)
            /\ Len(wire[r]) + ItemsRead(r) >= ItemsSent(r)
            /\ ItemsSent(r) < 2 => Len(wire[r]) + ItemsRead(r) = ItemsSent(r)
      BY <1>4, <1>6 DEF ModeInv, InStep
    <3>4. Item(p, ItemsRead(p) + (Len(wire[p]) + 1)) = "frame"
      BY <2>5, <2>6, <3>1, <3>3 DEF Item
    <3>5. ASSUME NEW r \in Side, NEW i \in 1..Len(wire'[r])
          PROVE  wire'[r][i].kind = Item(r, ItemsRead(r)' + i)
      BY <2>4, <2>7, <3>2, <3>3, <3>4
    <3>6. /\ Len(wire'[p]) + ItemsRead(p)' >= ItemsSent(p)'
          /\ ItemsSent(p)' = 2
      BY <2>5, <2>6, <3>1, <3>2, <3>3
    <3>7. /\ Len(wire'[s]) + ItemsRead(s)' >= ItemsSent(s)'
          /\ ItemsSent(s)' < 2 => Len(wire'[s]) + ItemsRead(s)' = ItemsSent(s)'
      BY <1>1, <2>5, <3>2, <3>3
    <3> QED
      BY <2>6, <3>5, <3>6, <3>7 DEF InStep
  <2> QED
    BY <2>8, <2>9, <2>10, <2>11, <2>12 DEF ModeInv
<1> QED
  BY <1>5, <1>6

(* A side that has its connector reads nothing but frames *)
LEMMA RecvFrameStep ==
  ASSUME ModeInv, NEW s \in Side, RecvFrame(s)
  PROVE  ModeInv'
<1>1. /\ Started(s) /\ up /\ m_bInit[s]
      /\ UNCHANGED <<m_isUseProxy, pc, acc, granted, m_bInit, up, sending, sends, received, mixed>>
  BY DEF RecvFrame, Recv, Reads, ModeInv, TypeInv, InHandshake, Before, InitKnown, Started, Side
<1>2. Reads(s, "frame")
  BY <1>1 DEF RecvFrame, Recv
<1>3. /\ wire' \in [Side -> Seq(WireItem)]
      /\ wire'[Peer[s]] = wire[Peer[s]]
      /\ 1 \in 1..Len(wire[s]) /\ wire[s][1].kind = "frame"
      /\ Len(wire'[s]) = Len(wire[s]) - 1
      /\ \A i \in 1..Len(wire'[s]) : i + 1 \in 1..Len(wire[s]) /\ wire'[s][i] = wire[s][i + 1]
      /\ wire[s] \in Seq(WireItem)
  BY <1>2, ReadWire DEF ModeInv, TypeInv, SendingTyped
<1>4. /\ \A r \in Side : r = s \/ r = Peer[s]
      /\ Peer[s] \in Side /\ pc \notin Before
  BY <1>1, Sides DEF Side, ModeInv, TypeInv, InHandshake, PhasesOK, Started, Before
<1>5. \A r \in Side : \A i \in 1..Len(wire'[r]) :
        \E j \in 1..Len(wire[r]) : wire'[r][i] = wire[r][j]
  BY <1>3, <1>4
<1>10. m_recvdata' \in [Side -> Seq(Byte)]
  <2> DEFINE f == wire[s][1]
  <2>4. f = Head(wire[s]) /\ f \in WireItem
    BY <1>3
  <2>1. m_recvdata' = [m_recvdata EXCEPT ![s] = m_recvdata[s] \o Decrypted(f)]
    BY <1>1, <2>4 DEF RecvFrame, Recv
  <2>2. f.bytes \in Seq(Byte) /\ f.len = Len(f.bytes)
    BY <1>3, <2>4 DEF WireItem, ModeInv, FramesOK, FrameOK
  <2> HIDE DEF f
  <2>3. Decrypted(f) \in Seq(Byte)
    <3>1. AESDecrypt(GetEncriptedDataLen(f.len), f.len) \in {-1, -2, f.len}
      BY DEF AESDecrypt
    <3> QED
      BY <2>2, <3>1 DEF Decrypted
  <2> QED
    BY <2>1, <2>3 DEF ModeInv, TypeInv, SendingTyped
<1>6. TypeInv' /\ PhasesOK'
  BY <1>1, <1>3, <1>4, <1>10 DEF ModeInv, TypeInv, SendingTyped, PhasesOK
<1>7. FramesOK'
  BY <1>5 DEF ModeInv, FramesOK
<1>8. InitKnown'
  <2>1. \A r \in Side : \A i \in 1..Len(wire'[r]) : wire'[r][i].kind = "frame" => m_bInit'[Peer[r]]
    BY <1>1, <1>5 DEF ModeInv, InitKnown
  <2>2. m_bInit[Peer[s]]
    BY <1>3 DEF ModeInv, InitKnown
  <2>3. ASSUME NEW r \in Side, m_recvdata'[r] # <<>> \/ received'[r] # <<>>
        PROVE  m_bInit'[r] /\ m_bInit'[Peer[r]]
    <3>1. CASE r = s
      BY <1>1, <2>2, <3>1
    <3>2. CASE r # s
      BY <1>1, <2>3, <3>2 DEF RecvFrame, Recv, ModeInv, TypeInv, InitKnown
    <3> QED
      BY <3>1, <3>2
  <2>4. \A t \in Thread : sending'[t].on => Started(SideOf(t))'
    BY <1>1 DEF ModeInv, InitKnown, Started
  <2> QED
    BY <1>1, <2>1, <2>3, <2>4 DEF ModeInv, InitKnown
<1>9. InStep'
  <2>1. ItemsRead(s) = 2 /\ \A r \in Side : ItemsRead(r) \in Nat /\ ItemsSent(r) \in 0..2
    BY <1>1 DEF ItemsSent, ItemsRead, Started, Side
  <2>2. \A r \in Side : ItemsRead(r)' = ItemsRead(r) /\ ItemsSent(r)' = ItemsSent(r)
    BY <1>1 DEF ItemsSent, ItemsRead
  <2>3. \A r \in Side :
          /\ \A i \in 1..Len(wire[r]) : wire[r][i].kind = Item(r, ItemsRead(r) + i)
          /\ Len(wire[r]) + ItemsRead(r) >= ItemsSent(r)
          /\ ItemsSent(r) < 2 => Len(wire[r]) + ItemsRead(r) = ItemsSent(r)
    BY <1>1, <1>4 DEF ModeInv, InStep
  <2>4. /\ ItemsSent(s) = 2
        /\ Len(wire'[s]) + ItemsRead(s)' >= ItemsSent(s)'
    <3>1. Len(wire[s]) >= 1 /\ Len(wire[s]) \in Nat /\ ItemsSent(s) \in 0..2
      BY <1>3, <2>1
    <3>2. ItemsSent(s) < 2 => Len(wire[s]) + 2 = ItemsSent(s)
      BY <2>1, <2>3
    <3>3. ItemsSent(s) = 2
      BY <3>1, <3>2
    <3> QED
      BY <1>3, <2>1, <2>2, <3>1, <3>3
  <2>5. \A i \in 1..Len(wire'[s]) : wire'[s][i].kind = Item(s, ItemsRead(s)' + i)
    <3>1. \A i \in 1..Len(wire'[s]) : Item(s, ItemsRead(s) + (i + 1)) = "frame"
                                       /\ Item(s, ItemsRead(s) + i) = "frame"
      BY <1>3, <2>1 DEF Item
    <3> QED
      BY <1>3, <2>2, <2>3, <3>1
  <2>6. /\ \A i \in 1..Len(wire'[Peer[s]]) :
             wire'[Peer[s]][i].kind = Item(Peer[s], ItemsRead(Peer[s])' + i)
        /\ Len(wire'[Peer[s]]) + ItemsRead(Peer[s])' >= ItemsSent(Peer[s])'
        /\ ItemsSent(Peer[s])' < 2 =>
             Len(wire'[Peer[s]]) + ItemsRead(Peer[s])' = ItemsSent(Peer[s])'
    BY <1>3, <1>4, <2>2, <2>3
  <2>7. ItemsSent(s)' = 2
    BY <2>2, <2>4
  <2> QED
    BY <1>4, <2>4, <2>5, <2>6, <2>7 DEF InStep
<1> QED
  BY <1>6, <1>7, <1>8, <1>9 DEF ModeInv

(* A message is handed out of bytes that were decrypted *)
LEMMA OnDataStep ==
  ASSUME ModeInv, NEW s \in Side, OnData(s)
  PROVE  ModeInv'
<1>1. /\ up /\ m_recvdata[s] # <<>>
      /\ up' \in BOOLEAN
      /\ UNCHANGED <<m_isUseProxy, pc, acc, granted, m_bInit, wire, sending, sends, mixed>>
  BY DEF OnData, ModeInv, TypeInv
<1>6. PICK taken \in Seq(Byte), kept \in Seq(Byte) :
        \/ /\ received' = [received EXCEPT ![s] = Append(received[s], taken)]
           /\ m_recvdata' = [m_recvdata EXCEPT ![s] = kept]
        \/ UNCHANGED <<received, m_recvdata>>
  <2>1. CASE UNCHANGED <<received, m_recvdata>>
    <3>1. <<>> \in Seq(Byte)
      OBVIOUS
    <3> QED
      BY <2>1, <3>1
  <2>2. CASE ~UNCHANGED <<received, m_recvdata>>
    <3> DEFINE d == m_recvdata[s]
    <3>1. PICK len \in (IF Head(d)[3] = 0 THEN {Head(d)[4]} ELSE Lengths) :
            /\ Len(d) > len
            /\ received' = [received EXCEPT ![s] = Append(received[s], SubSeq(d, 1, len + 1))]
            /\ m_recvdata' = [m_recvdata EXCEPT ![s] = GetData(d, len + 1)]
      BY <2>2 DEF OnData
    <3>2. d \in Seq(Byte) /\ Head(d) \in Byte
      BY <1>1 DEF ModeInv, TypeInv, SendingTyped
    <3>3. len \in Nat
      BY <3>2, SecureConnectionAssumption DEF Byte
    <3> HIDE DEF d
    <3>4. SubSeq(d, 1, len + 1) \in Seq(Byte) /\ GetData(d, len + 1) \in Seq(Byte)
      BY <3>1, <3>2, <3>3 DEF GetData
    <3> QED
      BY <3>1, <3>4
  <2> QED
    BY <2>1, <2>2
<1>7. /\ m_recvdata' \in [Side -> Seq(Byte)] /\ received' \in [Side -> Seq(Seq(Byte))]
      /\ \A r \in Side \ {s} : m_recvdata'[r] = m_recvdata[r] /\ received'[r] = received[r]
  <2>1. m_recvdata \in [Side -> Seq(Byte)] /\ received \in [Side -> Seq(Seq(Byte))]
    BY DEF ModeInv, TypeInv, SendingTyped
  <2>2. Append(received[s], taken) \in Seq(Seq(Byte))
    BY <2>1
  <2> QED
    BY <1>6, <2>1, <2>2
<1>2. TypeInv'
  BY <1>1, <1>7 DEF ModeInv, TypeInv, SendingTyped
<1>3. FramesOK' /\ PhasesOK'
  BY <1>1 DEF ModeInv, FramesOK, PhasesOK
<1>4. InStep'
  BY <1>1 DEF ModeInv, InStep, ItemsRead, ItemsSent
<1>5. InitKnown'
  <2>1. m_bInit[s] /\ m_bInit[Peer[s]]
    BY <1>1 DEF ModeInv, InitKnown
  <2>2. \A r \in Side : m_recvdata'[r] # <<>> \/ received'[r] # <<>> =>
                          m_bInit'[r] /\ m_bInit'[Peer[r]]
    BY <1>1, <1>7, <2>1 DEF ModeInv, InitKnown
  <2>3. \A t \in Thread : sending'[t].on => Started(SideOf(t))'
    BY <1>1 DEF ModeInv, InitKnown, Started
  <2> QED
    BY <1>1, <2>2, <2>3 DEF ModeInv, InitKnown
<1> QED
  BY <1>2, <1>3, <1>4, <1>5 DEF ModeInv

-----------------------------------------------------------------------------
LEMMA ModeInit == Init => ModeInv
<1> SUFFICES ASSUME Init PROVE ModeInv
  OBVIOUS
<1>1. TypeInv
  <2>1. sending \in [Thread -> [left : Seq(Byte), on : BOOLEAN, part : BOOLEAN]]
    BY DEF Init, Idle
  <2>2. wire \in [Side -> Seq(WireItem)]
    BY DEF Init
  <2>3. m_recvdata \in [Side -> Seq(Byte)] /\ received \in [Side -> Seq(Seq(Byte))]
    BY DEF Init
  <2>4. sends \in [Side -> Nat] /\ \A s \in Side : sends[s] <= MaxMessage[s]
    BY SecureConnectionAssumption DEF Init
  <2>5. m_bInit \in [Side -> BOOLEAN] /\ mixed \in [Side -> BOOLEAN]
    BY DEF Init
  <2> QED
    BY <2>1, <2>2, <2>3, <2>4, <2>5 DEF Init, TypeInv, SendingTyped, Before
<1>2. FramesOK /\ PhasesOK /\ InStep
  BY DEF Init, FramesOK, PhasesOK, InStep, Before, InHandshake
<1>3. InitKnown
  BY DEF Init, InitKnown, Idle
<1> QED
  BY <1>1, <1>2, <1>3 DEF ModeInv

LEMMA ModeStep ==
  ASSUME ModeInv, [Next]_vars, ~ConnectClear
  PROVE  ModeInv'
<1>1. CASE Next
  <2>1. ~AcceptRefuses
    <3>1. wire["acceptor"] \in Seq(WireItem)
      BY DEF ModeInv, TypeInv, Side
    <3> QED
      BY <3>1 DEF AcceptRefuses, WireItem
  <2> QED
    BY <1>1, <2>1, WayStep, ExchangeSends, ExchangeReads, SendDataStep, SendFrameStep,
       RecvFrameStep, OnDataStep DEF Next, ConnectStep, AcceptStep, Way
<1>2. CASE UNCHANGED vars
  <2>1. TypeInv' /\ FramesOK' /\ PhasesOK'
    BY <1>2 DEF ModeInv, TypeInv, SendingTyped, FramesOK, PhasesOK, vars, data
  <2>2. InitKnown'
    BY <1>2 DEF ModeInv, InitKnown, Started, vars, data
  <2>3. InStep'
    BY <1>2 DEF ModeInv, InStep, ItemsRead, ItemsSent, vars, data
  <2> QED
    BY <2>1, <2>2, <2>3 DEF ModeInv
<1> QED
  BY <1>1, <1>2

-----------------------------------------------------------------------------
(* A peer that exchanges no key *)
LEMMA ClearConnects ==
  ASSUME ModeInv, ConnectClear
  PROVE  ClearInv'
<1>1. /\ pc' = "clear" /\ acc' = "header" /\ granted' = TRUE /\ up' = TRUE
      /\ UNCHANGED <<m_isUseProxy, m_bInit, sending, sends, mixed>>
  BY DEF ConnectClear, SecureTCPSocket, data
<1>2. m_bInit' = [s \in Side |-> FALSE]
  BY <1>1 DEF ConnectClear, ModeInv, PhasesOK, Before
<1>3. PICK said \in {<<>>, <<Raw("EXPECTLS")>>} : wire' = [wire EXCEPT !["acceptor"] = said]
  BY DEF ConnectClear
<1>4. said \in Seq(ClearItem) /\ \A i \in 1..Len(said) : said[i].kind # "plain"
  <2>1. ASSUME said = <<Raw("EXPECTLS")>>
        PROVE  said \in Seq(ClearItem) /\ \A i \in 1..Len(said) : said[i].kind # "plain"
    <3> DEFINE e == Raw("EXPECTLS")
    <3>1. e \in ClearItem /\ e.kind # "plain"
      BY DEF Raw, ClearItem
    <3>2. said = <<e>>
      BY <2>1
    <3> HIDE DEF e
    <3> QED
      BY <3>1, <3>2
  <2>2. CASE said = <<>>
    BY <2>2
  <2> QED
    BY <2>1, <2>2
<1>5. /\ wire' \in [Side -> Seq(ClearItem)]
      /\ \A s \in Side : \A i \in 1..Len(wire'[s]) : wire'[s][i].kind # "plain"
  <2>1. wire \in [Side -> Seq(WireItem)] /\ \A s \in Side : wire[s] = <<>>
    BY DEF ConnectClear, ModeInv, TypeInv, PhasesOK, Before
  <2>2. wire'["acceptor"] = said /\ wire'["initiator"] = <<>> /\ DOMAIN wire' = Side
    BY <1>3, <2>1 DEF Side
  <2>3. wire' = [s \in Side |-> IF s = "acceptor" THEN said ELSE <<>>]
    BY <1>3, <2>1
  <2> QED
    BY <1>4, <2>3
<1> QED
  BY <1>1, <1>2, <1>5 DEF ClearInv, ModeInv, TypeInv, SendingTyped

(* What a Send of an item in clear leaves of the streams *)
LEMMA ClearSent ==
  ASSUME ClearInv, NEW s \in Side, NEW item \in ClearItem, Sent(s, item),
         item.kind = "plain" => item.len = Len(item.bytes)
  PROVE  /\ wire' \in [Side -> Seq(ClearItem)]
         /\ \A r \in Side : \A i \in 1..Len(wire'[r]) :
              wire'[r][i].kind = "plain" => wire'[r][i].len = Len(wire'[r][i].bytes)
<1>1. /\ Peer[s] \in Side /\ wire[Peer[s]] \in Seq(ClearItem)
      /\ wire' = [wire EXCEPT ![Peer[s]] = Append(wire[Peer[s]], item)]
      /\ wire \in [Side -> Seq(ClearItem)]
  BY Sides DEF Sent, ClearInv
<1>2. Append(wire[Peer[s]], item) \in Seq(ClearItem)
  BY <1>1
<1>3. wire' \in [Side -> Seq(ClearItem)]
  BY <1>1, <1>2
<1>4. ASSUME NEW r \in Side, NEW i \in 1..Len(wire'[r]), wire'[r][i].kind = "plain"
      PROVE  wire'[r][i].len = Len(wire'[r][i].bytes)
  <2>1. CASE r = Peer[s]
    <3>1. wire'[r] = Append(wire[r], item) /\ wire[r] \in Seq(ClearItem)
      BY <1>1, <2>1
    <3>2. \/ i \in 1..Len(wire[r]) /\ wire'[r][i] = wire[r][i]
          \/ wire'[r][i] = item
      BY <1>4, <3>1
    <3> QED
      BY <1>4, <3>2 DEF ClearInv
  <2>2. CASE r # Peer[s]
    BY <1>1, <1>4, <2>2 DEF ClearInv
  <2> QED
    BY <2>1, <2>2
<1> QED
  BY <1>3, <1>4

(* ... and a Recv, or one that leaves the end of what it read *)
LEMMA ClearRead ==
  ASSUME ClearInv, NEW s \in Side, wire[s] # <<>>, NEW first \in Seq(ClearItem),
         \A i \in 1..Len(first) : first[i].kind = "plain" => first[i].len = Len(first[i].bytes),
         wire' = [wire EXCEPT ![s] = first \o Tail(wire[s])]
  PROVE  /\ wire' \in [Side -> Seq(ClearItem)]
         /\ \A r \in Side : \A i \in 1..Len(wire'[r]) :
              wire'[r][i].kind = "plain" => wire'[r][i].len = Len(wire'[r][i].bytes)
<1>1. wire \in [Side -> Seq(ClearItem)] /\ wire[s] \in Seq(ClearItem)
  BY DEF ClearInv
<1>2. /\ Tail(wire[s]) \in Seq(ClearItem)
      /\ \A i \in 1..Len(Tail(wire[s])) :
           i + 1 \in 1..Len(wire[s]) /\ Tail(wire[s])[i] = wire[s][i + 1]
  BY <1>1
<1> DEFINE new == first \o Tail(wire[s])
<1>3. /\ new \in Seq(ClearItem)
      /\ \A i \in 1..Len(new) :
           \/ i \in 1..Len(first) /\ new[i] = first[i]
           \/ i - Len(first) \in 1..Len(Tail(wire[s])) /\ new[i] = Tail(wire[s])[i - Len(first)]
  BY <1>2
<1>4. wire' = [wire EXCEPT ![s] = new]
  OBVIOUS
<1> HIDE DEF new
<1>5. wire' \in [Side -> Seq(ClearItem)]
  BY <1>1, <1>3, <1>4
<1>6. ASSUME NEW r \in Side, NEW i \in 1..Len(wire'[r]), wire'[r][i].kind = "plain"
      PROVE  wire'[r][i].len = Len(wire'[r][i].bytes)
  <2>1. CASE r = s
    <3>1. wire'[r] = new
      BY <1>1, <1>4, <2>1
    <3>2. CASE i \in 1..Len(first) /\ new[i] = first[i]
      BY <1>6, <3>1, <3>2
    <3>3. CASE /\ i - Len(first) \in 1..Len(Tail(wire[s]))
               /\ new[i] = Tail(wire[s])[i - Len(first)]
      <4>1. PICK j \in 1..Len(wire[s]) : new[i] = wire[s][j]
        BY <1>2, <3>3
      <4> QED
        BY <1>6, <3>1, <4>1 DEF ClearInv
    <3> QED
      BY <1>3, <1>6, <3>1, <3>2, <3>3
  <2>2. CASE r # s
    <3>1. wire'[r] = wire[r]
      BY <1>1, <1>4, <2>2
    <3> QED
      BY <1>6, <3>1 DEF ClearInv
  <2> QED
    BY <2>1, <2>2
<1> QED
  BY <1>5, <1>6

LEMMA ClearTaken ==
  ASSUME ClearInv, NEW s \in Side, wire[s] # <<>>, wire' = [wire EXCEPT ![s] = Tail(wire[s])]
  PROVE  /\ wire' \in [Side -> Seq(ClearItem)]
         /\ \A r \in Side : \A i \in 1..Len(wire'[r]) :
              wire'[r][i].kind = "plain" => wire'[r][i].len = Len(wire'[r][i].bytes)
<1> DEFINE none == SubSeq(wire[s], 2, 1)
<1>1. wire[s] \in Seq(ClearItem)
  BY DEF ClearInv
<1>2. none \in Seq(ClearItem) /\ Len(none) = 0 /\ none \o Tail(wire[s]) = Tail(wire[s])
  BY <1>1
<1> HIDE DEF none
<1>3. \A i \in 1..Len(none) : none[i].kind = "plain" => none[i].len = Len(none[i].bytes)
  BY <1>2
<1>4. wire' = [wire EXCEPT ![s] = none \o Tail(wire[s])]
  BY <1>2
<1> QED
  BY <1>2, <1>3, <1>4, ClearRead

(* The acceptor's part of the exchange with it *)
LEMMA ClearAccepts ==
  ASSUME ClearInv, AcceptStep
  PROVE  ClearInv'
<1>1. CASE AcceptHeader \/ SendRsaKey
  <2>1. PICK kind \in {"STARTTLS", "rsa"} : Sent("acceptor", Raw(kind))
    BY <1>1 DEF AcceptHeader, SendRsaKey
  <2>2. Raw(kind) \in ClearItem /\ Raw(kind).kind # "plain" /\ "acceptor" \in Side
    BY DEF Raw, ClearItem, Side
  <2>3. /\ wire' \in [Side -> Seq(ClearItem)]
        /\ \A r \in Side : \A i \in 1..Len(wire'[r]) :
             wire'[r][i].kind = "plain" => wire'[r][i].len = Len(wire'[r][i].bytes)
    BY <2>1, <2>2, ClearSent
  <2> QED
    BY <1>1, <2>3 DEF AcceptHeader, SendRsaKey, ClearInv, SendingTyped, data
<1>2. CASE RecvExpecTls
  <2>1. /\ "acceptor" \in Side /\ wire["acceptor"] # <<>> /\ wire["acceptor"] \in Seq(ClearItem)
        /\ wire' = [wire EXCEPT !["acceptor"] = Tail(wire["acceptor"])]
    BY <1>2 DEF RecvExpecTls, Reads, Side, ClearInv
  <2>4. /\ wire' \in [Side -> Seq(ClearItem)]
        /\ \A r \in Side : \A i \in 1..Len(wire'[r]) :
             wire'[r][i].kind = "plain" => wire'[r][i].len = Len(wire'[r][i].bytes)
    BY <2>1, ClearTaken
  <2> QED
    BY <1>2, <2>4 DEF RecvExpecTls, ClearInv, SendingTyped, data
<1>3. CASE RecvAesKey
  <2>1. wire["acceptor"] \in Seq(ClearItem)
    BY DEF ClearInv, Side
  <2>2. Head(wire["acceptor"]) \in ClearItem
    BY <1>3, <2>1 DEF RecvAesKey, Reads
  <2> QED
    BY <1>3, <2>2 DEF RecvAesKey, Reads, ClearItem
<1>4. CASE AcceptFails
  BY <1>4 DEF AcceptFails, ClearInv, SendingTyped, data
<1>5. CASE AcceptRefuses
  <2> DEFINE w == wire["acceptor"]
             f == Head(w)
  <2>1. "acceptor" \in Side /\ w # <<>> /\ w \in Seq(ClearItem) /\ f.kind = "plain"
    BY <1>5 DEF AcceptRefuses, ClearInv, Side
  <2>2. f = w[1] /\ 1 \in 1..Len(w) /\ f \in ClearItem
    BY <2>1
  <2>3. f.len = Len(f.bytes) /\ f.bytes \in Seq(Byte) /\ f.len \in Nat
    BY <2>1, <2>2 DEF ClearInv, ClearItem
  <2>4. PICK n \in 1..f.len :
          wire' = [wire EXCEPT !["acceptor"] =
                     IF n = f.len THEN Tail(w)
                     ELSE <<Plain(SubSeq(f.bytes, n + 1, f.len))>> \o Tail(w)]
    BY <1>5 DEF AcceptRefuses
  <2> DEFINE first == IF n = f.len THEN <<>> ELSE <<Plain(SubSeq(f.bytes, n + 1, f.len))>>
  <2>5. SubSeq(f.bytes, n + 1, f.len) \in Seq(Byte)
    <3> HIDE DEF f
    <3> QED
      BY <2>3
  <2>6. /\ first \in Seq(ClearItem)
        /\ \A i \in 1..Len(first) : first[i].kind = "plain" => first[i].len = Len(first[i].bytes)
    <3> DEFINE b == SubSeq(f.bytes, n + 1, f.len)
    <3> HIDE DEF b
    <3>1. Plain(b) \in ClearItem /\ Plain(b).len = Len(Plain(b).bytes)
      BY <2>5 DEF Plain, ClearItem, b
    <3>2. first = <<>> \/ first = <<Plain(b)>>
      BY DEF b
    <3> HIDE DEF first
    <3>3. CASE first = <<>>
      BY <3>3
    <3>4. CASE first = <<Plain(b)>>
      <4> DEFINE item == Plain(b)
      <4>1. item \in ClearItem /\ item.len = Len(item.bytes) /\ first = <<item>>
        BY <3>1, <3>4
      <4> HIDE DEF item
      <4> QED
        BY <4>1
    <3> QED
      BY <3>2, <3>3, <3>4
  <2>7. wire' = [wire EXCEPT !["acceptor"] = first \o Tail(w)]
    <3>1. Tail(w) \in Seq(ClearItem)
      BY <2>1
    <3>2. <<>> \o Tail(w) = Tail(w)
      BY <3>1
    <3> QED
      BY <2>4, <3>2
  <2> HIDE DEF first
  <2>8. /\ wire' \in [Side -> Seq(ClearItem)]
        /\ \A r \in Side : \A i \in 1..Len(wire'[r]) :
             wire'[r][i].kind = "plain" => wire'[r][i].len = Len(wire'[r][i].bytes)
    BY <2>1, <2>6, <2>7, ClearRead
  <2> QED
    BY <1>5, <2>8 DEF AcceptRefuses, ClearInv, SendingTyped, data
<1> QED
  BY <1>1, <1>2, <1>3, <1>4, <1>5 DEF AcceptStep

(* The messages sent and read in clear *)
LEMMA ClearMessages ==
  ASSUME ClearInv, NEW t \in Thread, SendFrame(t)
  PROVE  ClearInv'
<1> DEFINE s == SideOf(t)
           left == sending[t].left
           n == Chunk(s, left)
           bytes == SubSeq(left, 1, n)
<1>1. /\ bytes \in Seq(Byte) /\ SendingTyped' /\ mixed' \in [Side -> BOOLEAN]
      /\ UNCHANGED <<m_isUseProxy, pc, acc, granted, m_bInit, up>>
  BY SendFrameTyped DEF ClearInv
<1>2. s \in Side /\ m_bInit[s] = FALSE
  BY Sides DEF ClearInv
<1>3. CASE up
  <2>1. Sent(s, Plain(bytes))
    BY <1>2, <1>3 DEF SendFrame, Send
  <2>2. Plain(bytes) \in ClearItem /\ Plain(bytes).len = Len(Plain(bytes).bytes)
    <3> HIDE DEF bytes
    <3> QED
      BY <1>1 DEF Plain, ClearItem
  <2> HIDE DEF s, bytes
  <2>3. /\ wire' \in [Side -> Seq(ClearItem)]
        /\ \A r \in Side : \A i \in 1..Len(wire'[r]) :
             wire'[r][i].kind = "plain" => wire'[r][i].len = Len(wire'[r][i].bytes)
    BY <1>2, <2>1, <2>2, ClearSent
  <2> QED
    BY <1>1, <2>3 DEF ClearInv
<1>4. CASE ~up
  <2>1. wire' = wire
    BY <1>4 DEF SendFrame
  <2> QED
    BY <1>1, <2>1 DEF ClearInv
<1> QED
  BY <1>3, <1>4

LEMMA ClearReads ==
  ASSUME ClearInv, NEW s \in Side, RecvFrame(s)
  PROVE  ClearInv'
<1>1. /\ wire[s] # <<>> /\ wire[s] \in Seq(ClearItem)
      /\ wire' = [wire EXCEPT ![s] = Tail(wire[s])]
      /\ UNCHANGED <<m_isUseProxy, pc, acc, granted, m_bInit, up, sending, sends, mixed>>
  BY DEF RecvFrame, Recv, Reads, ClearInv
<1>3. /\ wire' \in [Side -> Seq(ClearItem)]
      /\ \A r \in Side : \A i \in 1..Len(wire'[r]) :
           wire'[r][i].kind = "plain" => wire'[r][i].len = Len(wire'[r][i].bytes)
  BY <1>1, ClearTaken
<1> QED
  BY <1>1, <1>3 DEF ClearInv, SendingTyped

LEMMA ClearStep ==
  ASSUME ClearInv, [Next]_vars
  PROVE  ClearInv'
<1>1. CASE ProxyCalls \/ ConnectStep
  BY <1>1 DEF ProxyCalls, UseProxy, ConnectStep, ConnectFails, ConnectTCP, ConnectUDT,
              ConnectClear, ConnectProxy, PerformProxyConnection, NtlmChallenge, ProxyAnswer,
              SendHeader, RecvStartTls, RecvRsaKey, SendAesKey, VerifyFails, ClearInv
<1>2. CASE Cut
  BY <1>2 DEF Cut, data, ClearInv, SendingTyped
<1>3. ASSUME NEW t \in Thread, NEW len \in Lengths, SendData(t, len)
      PROVE  ClearInv'
  <2>1. /\ SendingTyped'
        /\ UNCHANGED <<m_isUseProxy, pc, acc, granted, m_bInit, wire, up, mixed>>
    BY <1>3, SendDataTyped DEF ClearInv
  <2> QED
    BY <2>1 DEF ClearInv
<1>4. ASSUME NEW s \in Side, OnData(s)
      PROVE  ClearInv'
  <2>1. /\ up' \in BOOLEAN
        /\ UNCHANGED <<m_isUseProxy, pc, acc, granted, m_bInit, wire, sending, sends, mixed>>
    BY <1>4 DEF OnData, ClearInv
  <2> QED
    BY <2>1 DEF ClearInv, SendingTyped
<1>5. CASE UNCHANGED vars
  BY <1>5 DEF vars, data, ClearInv, SendingTyped
<1> QED
  BY <1>1, <1>2, <1>3, <1>4, <1>5, ClearAccepts, ClearMessages, ClearReads DEF Next

-----------------------------------------------------------------------------
LEMMA ConnectionAlways == Spec => []ConnectionInv
<1>1. Init => ConnectionInv
  BY ModeInit DEF ConnectionInv
<1>2. ConnectionInv /\ [Next]_vars => ConnectionInv'
  BY ModeStep, ClearConnects, ClearStep DEF ConnectionInv
<1> QED
  BY <1>1, <1>2, PTL DEF Spec

-----------------------------------------------------------------------------
(* What travels to a side is one of the items of its stream *)
LEMMA OnTheWire ==
  ASSUME ModeInv, NEW s \in Side, NEW f \in ToSet(wire[s])
  PROVE  /\ f \in WireItem
         /\ f.kind = "frame" => FrameOK(f)
<1>1. wire[s] \in Seq(WireItem)
  BY DEF ModeInv, TypeInv, SendingTyped
<1>2. PICK i \in 1..Len(wire[s]) : f = wire[s][i]
  BY <1>1 DEF ToSet
<1> QED
  BY <1>1, <1>2 DEF ModeInv, FramesOK

LEMMA ModesKnown ==
  ASSUME ModeInv
  PROVE  ModesAgree
<1>1. TypeOK
  <2>1. ASSUME NEW s \in Side, NEW i \in ToSet(wire[s])
        PROVE  \/ i.kind \in {"EXPECTLS", "STARTTLS", "rsa", "aes"}
               \/ i.kind = "frame" /\ i.len = Len(i.bytes) /\ i.cipher \in Nat
    <3>1. i \in WireItem /\ (i.kind = "frame" => FrameOK(i))
      BY <2>1, OnTheWire
    <3> QED
      BY <3>1 DEF WireItem, FrameOK
  <2>2. \A t \in Thread : sending[t].on \in BOOLEAN /\ sending[t].part \in BOOLEAN
    BY DEF ModeInv, TypeInv, SendingTyped
  <2>3. \A s \in Side : sends[s] \in 0..MaxMessage[s]
    BY SecureConnectionAssumption DEF ModeInv, TypeInv, SendingTyped
  <2>4. {m_isUseProxy, granted, up} \subseteq BOOLEAN
    BY DEF ModeInv, TypeInv, SendingTyped
  <2>5. pc \in {"start", "asked", "ntlm", "auth", "header", "peerHeader", "rsa", "aes", "open",
                "failed"}
    BY DEF ModeInv, TypeInv, Before, InHandshake
  <2> QED
    BY <2>1, <2>2, <2>3, <2>4, <2>5 DEF TypeOK, ModeInv, TypeInv
<1>2. TunnelGranted
  BY DEF ModeInv, TypeInv, PhasesOK, TunnelGranted, Before, InHandshake
<1>3. ASSUME NEW s \in Side, up, wire[s] # <<>>
      PROVE  /\ Head(wire[s]).kind = Expected(s)
             /\ Head(wire[s]).kind = "frame" =>
                  Head(wire[s]).cipher = GetEncriptedDataLen(Head(wire[s]).len)
  <2>1. /\ wire[s] \in Seq(WireItem) /\ Head(wire[s]) = wire[s][1] /\ 1 \in 1..Len(wire[s])
    BY <1>3 DEF ModeInv, TypeInv, SendingTyped
  <2>2. pc \notin Before /\ pc # "failed"
    BY <1>3 DEF ModeInv, PhasesOK
  <2>3. wire[s][1].kind = Item(s, ItemsRead(s) + 1)
    BY <1>3, <2>1, <2>2 DEF ModeInv, InStep
  <2>4. acc # "accept"
    BY <2>2 DEF ModeInv, PhasesOK, TypeInv
  <2>5. Item(s, ItemsRead(s) + 1) = Expected(s)
    BY <2>2, <2>4 DEF Item, ItemsRead, Expected, Side, ModeInv, TypeInv, Before, InHandshake
  <2>6. wire[s][1].kind = "frame" => FrameOK(wire[s][1])
    BY <2>1 DEF ModeInv, FramesOK
  <2> QED
    BY <2>1, <2>3, <2>5, <2>6 DEF FrameOK
<1> QED
  BY <1>1, <1>2, <1>3 DEF ModesAgree

(* ... and with a peer that exchanges no key *)
LEMMA ClearOnTheWire ==
  ASSUME ClearInv, NEW s \in Side, NEW f \in ToSet(wire[s])
  PROVE  f \in ClearItem /\ (f.kind = "plain" => f.len = Len(f.bytes))
<1>1. wire[s] \in Seq(ClearItem)
  BY DEF ClearInv
<1>2. PICK i \in 1..Len(wire[s]) : f = wire[s][i]
  BY <1>1 DEF ToSet
<1>3. f \in ClearItem
  <2> DEFINE w == wire[s]
  <2>1. w \in Seq(ClearItem) /\ i \in 1..Len(w) /\ f = w[i]
    BY <1>1, <1>2
  <2> HIDE DEF w
  <2> QED BY <2>1
<1>4. f.kind = "plain" => f.len = Len(f.bytes)
  <2>1. \A j \in 1..Len(wire[s]) :
          wire[s][j].kind = "plain" => wire[s][j].len = Len(wire[s][j].bytes)
    BY DEF ClearInv
  <2> QED BY <1>2, <2>1
<1> QED BY <1>3, <1>4

LEMMA ClearModes ==
  ASSUME ClearInv
  PROVE  ModesAgree
<1>1. ASSUME NEW s \in Side, NEW i \in ToSet(wire[s])
      PROVE  \/ i.kind \in {"EXPECTLS", "STARTTLS", "rsa", "aes"}
             \/ i.kind = "plain" /\ i.len = Len(i.bytes)
  <2>1. i \in ClearItem /\ (i.kind = "plain" => i.len = Len(i.bytes))
    BY <1>1, ClearOnTheWire
  <2> QED
    BY <2>1 DEF ClearItem
<1>2. \A t \in Thread : sending[t].on \in BOOLEAN /\ sending[t].part \in BOOLEAN
  BY DEF ClearInv, SendingTyped
<1>3. \A s \in Side : sends[s] \in 0..MaxMessage[s]
  BY SecureConnectionAssumption DEF ClearInv, SendingTyped
<1>4. m_bInit \in [Side -> BOOLEAN] /\ {m_isUseProxy, granted, up} \subseteq BOOLEAN
  BY DEF ClearInv
<1>5. TypeOK
  BY <1>1, <1>2, <1>3, <1>4 DEF TypeOK, ClearInv
<1> QED
  BY <1>5 DEF ClearInv, ModesAgree, TunnelGranted

(* PerformSslVerify: the two sides switch to encryption at the same place of the stream;
   what a side reads next is what its step of the exchange expects, and a frame it decrypts
   has the cipher text of its length, when both are peers of the library.  Whatever the proxy
   answers, whenever the connection is cut, and for any sizes of block and buffer. *)
THEOREM ModesAgreed == Spec => []ModesAgree
<1>1. ConnectionInv => ModesAgree
  BY ModesKnown, ClearModes DEF ConnectionInv
<1> QED
  BY <1>1, ConnectionAlways, PTL

(* SecureSocket::Send and Recv: between two peers of the library no message leaves a side or
   is handed out in clear, although the acceptor's constructor keeps a connection whose
   exchange failed; with a peer that exchanges no key, no side ever encrypts or decrypts. *)
THEOREM OnlyEncrypted == Spec => []EncryptedOnly
<1>1. ASSUME ModeInv PROVE EncryptedOnly
  <2>1. pc # "clear"
    BY <1>1 DEF ModeInv, TypeInv, Before, InHandshake
  <2>2. ASSUME NEW s \in Side
        PROVE  /\ received[s] # <<>> => m_bInit[s] /\ m_bInit[Peer[s]]
               /\ \A i \in ToSet(wire[s]) : i.kind # "plain"
    <3>1. \A i \in ToSet(wire[s]) : i \in WireItem
      BY <1>1, OnTheWire
    <3>2. \A i \in ToSet(wire[s]) : i.kind # "plain"
      BY <3>1 DEF WireItem
    <3> QED
      BY <1>1, <3>2 DEF ModeInv, InitKnown
  <2> QED
    BY <2>1, <2>2 DEF EncryptedOnly
<1>2. ASSUME ClearInv PROVE EncryptedOnly
  <2>1. ASSUME NEW s \in Side
        PROVE  ~m_bInit[s] /\ \A i \in ToSet(wire[s]) : i.kind # "frame"
    <3>1. \A i \in ToSet(wire[s]) : i \in ClearItem
      BY <1>2, ClearOnTheWire
    <3> QED
      BY <1>2, <3>1 DEF ClearInv, ClearItem
  <2> QED
    BY <1>2, <2>1 DEF EncryptedOnly, ClearInv
<1> QED
  BY <1>1, <1>2, ConnectionAlways, PTL DEF ConnectionInv
=============================================================================
