---------------------- MODULE ConnectionManagerProofs ----------------------
(***************************************************************************)
(* Proofs about ConnectionManager, for any number of clients and any length*)
(* of their sessions.  The first part needs nothing of the clients; that   *)
(* the engine executes what was sent is proved for clients that wait for   *)
(* each answer, of those that put no semicolon into a literal.             *)
(***************************************************************************)
EXTENDS ConnectionManager, SequenceTheorems, WellFoundedInduction, TLAPS

\* The server between two clients, and between two statements.
Session ==
  /\ serving = None => stmt = <<>> /\ request = None
  /\ answer # None => request # None /\ replies[serving] < Len(done[serving])

TypeInv == TypeOK /\ Session

-----------------------------------------------------------------------------
(* Bytes and texts.                                                         *)

LEMMA TextTypes ==
  /\ Semicolon \in Byte
  /\ Plain \subseteq Seq(Byte \ {Semicolon})
  /\ Plain \cup Quoted \subseteq Seq(Byte)
<1>1. \A s \in Statement, p \in {1, 2} : [of |-> s, piece |-> p] \in Byte \ {Semicolon}
  <2> SUFFICES ASSUME NEW s \in Statement, NEW p \in {1, 2}
               PROVE  [of |-> s, piece |-> p] \in Byte \ {Semicolon}
    OBVIOUS
  <2> DEFINE b == [of |-> s, piece |-> p]
  <2>1. b \in [of : Statement, piece : {1, 2}]
    OBVIOUS
  <2>2. b.piece # 0 /\ Semicolon.piece = 0
    BY DEF Semicolon
  <2> HIDE DEF b
  <2>3. b \in Byte \ {Semicolon}
    BY <2>1, <2>2 DEF Byte
  <2> QED
    BY <2>3 DEF b
<1>2. ASSUME NEW s \in Statement
      PROVE  Text(s) \in Seq(Byte \ {Semicolon}) /\ <<Text(s)[1], Semicolon, Text(s)[2]>> \in Seq(Byte)
  <2> DEFINE a == [of |-> s, piece |-> 1]
             b == [of |-> s, piece |-> 2]
  <2>1. a \in Byte \ {Semicolon} /\ b \in Byte \ {Semicolon}
    BY <1>1
  <2> HIDE DEF a, b
  <2>2. <<a, b>> \in Seq(Byte \ {Semicolon}) /\ <<a, b>>[1] = a /\ <<a, b>>[2] = b
    BY <2>1
  <2>3. Semicolon \in Byte
    BY DEF Byte
  <2>4. <<a, Semicolon, b>> \in Seq(Byte)
    BY <2>1, <2>3
  <2>5. Text(s) = <<a, b>>
    BY DEF Text, a, b
  <2> QED
    BY <2>2, <2>4, <2>5
<1>3. <<>> \in Seq(Byte \ {Semicolon})
  OBVIOUS
<1>4. Semicolon \in Byte
  BY DEF Byte
<1>5. Plain \subseteq Seq(Byte \ {Semicolon})
  BY <1>2, <1>3 DEF Plain
<1>6. Plain \subseteq Seq(Byte)
  BY <1>5, SeqMonotonic
<1>7. Quoted \subseteq Seq(Byte)
  BY <1>2 DEF Quoted
<1> QED
  BY <1>4, <1>5, <1>6, <1>7

\* What a client may send, and leave of it.
LEMMA BeginningType ==
  ASSUME NEW S, NEW t \in Seq(S), NEW n \in 0 .. Len(t)
  PROVE  SubSeq(t, 1, n) \in Seq(S)
<1>1. \A i \in 1 .. n : t[i] \in S
  OBVIOUS
<1> QED
  BY <1>1, SubSeqProperties

\* A sequence with a semicolon has a first one.
LEMMA FirstSemicolon ==
  ASSUME NEW bytes \in Seq(Byte), Contains(bytes, Semicolon)
  PROVE  \E i \in DOMAIN bytes : bytes[i] = Semicolon /\ \A j \in 1 .. i - 1 : bytes[j] # Semicolon
<1> DEFINE T == {i \in 1 .. Len(bytes) : bytes[i] = Semicolon}
<1>1. T \subseteq Nat /\ T # {}
  BY DEF Contains
<1>2. PICK x \in T : \A y \in T : ~ (<<y, x>> \in OpToRel(<, Nat))
  BY <1>1, NatLessThanWellFounded, WFMin
<1>3. \A y \in T : ~ (y < x)
  BY <1>1, <1>2 DEF OpToRel
<1>4. x \in DOMAIN bytes /\ bytes[x] = Semicolon
  BY <1>2, LenProperties
<1>5. \A j \in 1 .. x - 1 : bytes[j] # Semicolon
  BY <1>3, <1>4
<1> QED
  BY <1>4, <1>5

LEMMA TextBeforeType ==
  ASSUME NEW bytes \in Seq(Byte), Contains(bytes, Semicolon)
  PROVE  TextBefore(bytes) \in Seq(Byte \ {Semicolon})
<1> DEFINE at == CHOOSE i \in DOMAIN bytes :
                   bytes[i] = Semicolon /\ \A j \in 1 .. i - 1 : bytes[j] # Semicolon
<1>1. at \in 1 .. Len(bytes) /\ \A j \in 1 .. at - 1 : bytes[j] # Semicolon
  BY FirstSemicolon
<1> HIDE DEF at
<1>2. \A j \in 1 .. at - 1 : bytes[j] \in Byte \ {Semicolon}
  BY <1>1
<1>3. SubSeq(bytes, 1, at - 1) \in Seq(Byte \ {Semicolon})
  BY <1>1, <1>2, SubSeqProperties
<1> QED
  BY <1>3 DEF at, TextBefore

LEMMA NoSemicolonType ==
  ASSUME NEW bytes \in Seq(Byte), ~Contains(bytes, Semicolon)
  PROVE  bytes \in Seq(Byte \ {Semicolon})
<1>1. \A i \in 1 .. Len(bytes) : bytes[i] \in Byte \ {Semicolon}
  BY DEF Contains
<1>2. SubSeq(bytes, 1, Len(bytes)) \in Seq(Byte \ {Semicolon})
  BY <1>1, SubSeqProperties
<1> QED
  BY <1>2, SubSeqFull

\* What a read() finds and what it leaves.
LEMMA ReadTypes ==
  ASSUME TypeOK, serving \in Client, NEW n \in 1 .. Len(net[serving])
  PROVE  /\ stmt \o SubSeq(net[serving], 1, n) \in Seq(Byte)
         /\ SubSeq(net[serving], n + 1, Len(net[serving])) \in Seq(Byte)
<1>1. net[serving] \in Seq(Byte) /\ stmt \in Seq(Byte)
  BY SeqMonotonic DEF TypeOK
<1>2. /\ SubSeq(net[serving], 1, n) \in Seq(Byte)
      /\ SubSeq(net[serving], n + 1, Len(net[serving])) \in Seq(Byte)
  BY <1>1, SubSeqProperties
<1> QED
  BY <1>1, <1>2

-----------------------------------------------------------------------------
(* The types, action by action.                                             *)

LEMMA InitType == Init => TypeInv
<1> SUFFICES ASSUME Init
             PROVE  TypeInv
  OBVIOUS
<1>1. \A S : <<>> \in Seq(S)
  OBVIOUS
<1> QED
  BY <1>1, EmptySeq DEF Init, TypeInv, TypeOK, Session

LEMMA ClientKeepsType ==
  ASSUME TypeInv, NEW c \in Client, Connect(c) \/ Leave(c) \/ \E t \in TextsOf(c) : Send(c, t)
  PROVE  TypeInv'
<1> USE DEF TypeInv
<1>1. CASE Connect(c)
  <2>1. conn' \in [Client -> {"new", "open", "left", "closed"}] /\ backlog' \in Seq(Client)
    BY <1>1 DEF Connect, TypeOK
  <2>2. UNCHANGED <<net, sent, serving, stmt, request, answer, currentTx, up, done, replies>>
    BY <1>1 DEF Connect
  <2> QED
    BY <2>1, <2>2 DEF TypeOK, Session
<1>2. CASE Leave(c)
  <2>1. net' \in [Client -> Seq(Byte)]
    <3>1. PICK t \in TextsOf(c) :
            \E n \in 0 .. Len(t) : net' = [net EXCEPT ![c] = @ \o SubSeq(t, 1, n)]
      BY <1>2 DEF Leave
    <3>4. PICK n \in 0 .. Len(t) : net' = [net EXCEPT ![c] = @ \o SubSeq(t, 1, n)]
      BY <3>1
    <3>2. t \in Seq(Byte)
      BY TextTypes DEF TextsOf
    <3>3. SubSeq(t, 1, n) \in Seq(Byte)
      BY <3>2, BeginningType
    <3> QED
      BY <3>3, <3>4 DEF TypeOK
  <2>2. conn' \in [Client -> {"new", "open", "left", "closed"}]
    BY <1>2 DEF Leave, TypeOK
  <2>3. UNCHANGED <<backlog, sent, serving, stmt, request, answer, currentTx, up, done, replies>>
    BY <1>2 DEF Leave
  <2> QED
    BY <2>1, <2>2, <2>3 DEF TypeOK, Session
<1>3. ASSUME NEW t \in TextsOf(c), Send(c, t)
      PROVE  TypeInv'
  <2>1. t \in Seq(Byte) /\ t \in Plain \cup Quoted /\ <<Semicolon>> \in Seq(Byte)
    BY TextTypes DEF TextsOf
  <2>2. net' \in [Client -> Seq(Byte)]
    BY <1>3, <2>1 DEF Send, TypeOK
  <2>3. sent' \in [Client -> Seq(Plain \cup Quoted)]
    BY <1>3, <2>1 DEF Send, TypeOK
  <2>4. UNCHANGED <<conn, backlog, serving, stmt, request, answer, currentTx, up, done, replies>>
    BY <1>3 DEF Send
  <2> QED
    BY <2>2, <2>3, <2>4 DEF TypeOK, Session
<1> QED
  BY <1>1, <1>2, <1>3

LEMMA AcceptKeepsType ==
  ASSUME TypeInv, Accept
  PROVE  TypeInv'
<1>1. Head(backlog) \in Client /\ Tail(backlog) \in Seq(Client)
  BY HeadTailProperties DEF Accept, TypeInv, TypeOK
<1>2. request = None /\ answer = None
  BY DEF Accept, TypeInv, Session
<1> QED
  BY <1>1, <1>2, ConnectionAssumption DEF Accept, TypeInv, TypeOK, Session

LEMMA EndSessionKeepsType ==
  ASSUME TypeInv, Reading, EndSession,
         UNCHANGED <<backlog, sent, answer, currentTx, up, done, replies>>
  PROVE  TypeInv'
<1>1. serving \in Client /\ request = None /\ answer = None
  BY DEF Reading, TypeInv, TypeOK, Session
<1>2. conn' \in [Client -> {"new", "open", "left", "closed"}] /\ net' \in [Client -> Seq(Byte)]
  BY <1>1 DEF EndSession, TypeInv, TypeOK
<1>3. stmt' = <<>> /\ stmt' \in Seq(Byte \ {Semicolon}) /\ serving' = None /\ request' = None
  BY <1>1 DEF EndSession
<1> QED
  BY <1>1, <1>2, <1>3 DEF TypeInv, TypeOK, Session

LEMMA ReadKeepsType ==
  ASSUME TypeInv, Read
  PROVE  TypeInv'
<1>1. /\ Reading
      /\ UNCHANGED <<backlog, sent, answer, currentTx, up, done, replies>>
  BY DEF Read
<1>2. serving \in Client /\ request = None /\ answer = None
  BY <1>1 DEF Reading, TypeInv, TypeOK, Session
<1>3. PICK n \in 1 .. Len(net[serving]) :
        LET bytes == stmt \o SubSeq(net[serving], 1, n)
            rest  == SubSeq(net[serving], n + 1, Len(net[serving]))
        IN  IF Contains(bytes, Semicolon)
            THEN IF TextBefore(bytes) = <<>> THEN EndSession
                 ELSE /\ request' = TextBefore(bytes)
                      /\ stmt' = <<>>
                      /\ net' = [net EXCEPT ![serving] = rest]
                      /\ UNCHANGED <<conn, serving>>
            ELSE /\ stmt' = bytes
                 /\ net' = [net EXCEPT ![serving] = rest]
                 /\ UNCHANGED <<conn, serving, request>>
  BY DEF Read
<1> DEFINE bytes == stmt \o SubSeq(net[serving], 1, n)
           rest  == SubSeq(net[serving], n + 1, Len(net[serving]))
<1>4. bytes \in Seq(Byte) /\ rest \in Seq(Byte)
  BY <1>2, ReadTypes DEF TypeInv
<1>5. CASE Contains(bytes, Semicolon) /\ TextBefore(bytes) = <<>>
  BY <1>1, <1>3, <1>5, EndSessionKeepsType
<1>6. CASE Contains(bytes, Semicolon) /\ TextBefore(bytes) # <<>>
  <2>1. /\ request' = TextBefore(bytes)
        /\ stmt' = <<>>
        /\ net' = [net EXCEPT ![serving] = rest]
        /\ UNCHANGED <<conn, serving>>
    BY <1>3, <1>6
  <2>2. request' \in Seq(Byte \ {Semicolon}) \ {<<>>}
    BY <1>4, <1>6, <2>1, TextBeforeType
  <2>3. net' \in [Client -> Seq(Byte)]
    BY <1>2, <1>4, <2>1 DEF TypeInv, TypeOK
  <2>4. stmt' \in Seq(Byte \ {Semicolon})
    BY <2>1
  <2> QED
    BY <1>1, <1>2, <2>1, <2>2, <2>3, <2>4, ConnectionAssumption DEF TypeInv, TypeOK, Session
<1>7. CASE ~Contains(bytes, Semicolon)
  <2>1. /\ stmt' = bytes
        /\ net' = [net EXCEPT ![serving] = rest]
        /\ UNCHANGED <<conn, serving, request>>
    BY <1>3, <1>7
  <2>2. stmt' \in Seq(Byte \ {Semicolon})
    BY <1>4, <1>7, <2>1, NoSemicolonType
  <2>3. net' \in [Client -> Seq(Byte)]
    BY <1>2, <1>4, <2>1 DEF TypeInv, TypeOK
  <2> QED
    BY <1>1, <1>2, <2>1, <2>2, <2>3, ConnectionAssumption DEF TypeInv, TypeOK, Session
<1> QED
  BY <1>5, <1>6, <1>7

\* What the engine may answer, and whose transaction it may leave open.
LEMMA ExecuteEffect ==
  ASSUME Execute
  PROVE  /\ request # None /\ answer = None
         /\ answer' \in {"OK", "ROWS", "ERROR"}
         /\ currentTx' \in {currentTx, serving, None}
         /\ done' = [done EXCEPT ![serving] = Append(@, request)]
         /\ UNCHANGED <<conn, backlog, net, sent, serving, stmt, request, up, replies>>
  BY DEF Execute, netVars

LEMMA ExecuteKeepsType ==
  ASSUME TypeInv, Execute
  PROVE  TypeInv'
<1>1. serving \in Client /\ request \in Seq(Byte \ {Semicolon}) \ {<<>>}
  BY ExecuteEffect DEF TypeInv, TypeOK, Session
<1>2. done' \in [Client -> Seq(Seq(Byte \ {Semicolon}))]
  <2> DEFINE S == Seq(Byte \ {Semicolon})
  <2>1. done \in [Client -> Seq(S)] /\ request \in S
    BY <1>1 DEF TypeInv, TypeOK
  <2> HIDE DEF S
  <2>2. Append(done[serving], request) \in Seq(S)
    BY <1>1, <2>1
  <2>3. done' \in [Client -> Seq(S)]
    BY <1>1, <2>1, <2>2, ExecuteEffect
  <2> QED
    BY <2>3 DEF S
<1>3. /\ Len(done'[serving]) = Len(done[serving]) + 1
      /\ Len(done[serving]) \in Nat
      /\ \A c \in Client \ {serving} : done'[c] = done[c]
  BY <1>1, ExecuteEffect DEF TypeInv, TypeOK
<1>4. \A c \in Client : replies[c] <= Len(done'[c])
  <2> SUFFICES ASSUME NEW c \in Client
               PROVE  replies[c] <= Len(done'[c])
    OBVIOUS
  <2>1. replies[c] \in Nat /\ replies[c] <= Len(done[c])
    BY DEF TypeInv, TypeOK
  <2> QED
    BY <1>3, <2>1
<1>5. replies[serving] < Len(done'[serving])
  BY <1>1, <1>3 DEF TypeInv, TypeOK
<1> QED
  BY <1>1, <1>2, <1>4, <1>5, ExecuteEffect, ConnectionAssumption DEF TypeInv, TypeOK, Session

LEMMA ReplyKeepsType ==
  ASSUME TypeInv, Reply
  PROVE  TypeInv'
<1>1. /\ serving \in Client /\ request' = None /\ answer' = None
      /\ replies[serving] < Len(done[serving])
      /\ UNCHANGED <<conn, backlog, net, sent, serving, stmt, currentTx, done>>
  BY DEF Reply, netVars, TypeInv, TypeOK, Session
<1>2. replies' = replies \/ replies' = [replies EXCEPT ![serving] = @ + 1]
  BY DEF Reply
<1>3. up' \in BOOLEAN
  <2>1. CASE conn[serving] = "open"
    BY <2>1 DEF Reply, TypeInv, TypeOK
  <2>2. CASE conn[serving] # "open"
    BY <2>2 DEF Reply
  <2> QED
    BY <2>1, <2>2
<1>4. /\ replies' \in [Client -> Nat]
      /\ \A c \in Client : replies'[c] <= Len(done[c])
  <2>1. CASE replies' = replies
    BY <2>1 DEF TypeInv, TypeOK
  <2>2. CASE replies' = [replies EXCEPT ![serving] = @ + 1]
    <3>1. \A c \in Client : Len(done[c]) \in Nat
      BY DEF TypeInv, TypeOK
    <3> QED
      BY <1>1, <2>2, <3>1 DEF TypeInv, TypeOK
  <2> QED
    BY <1>2, <2>1, <2>2
<1>5. serving # None
  BY <1>1, ConnectionAssumption
<1> QED
  BY <1>1, <1>3, <1>4, <1>5 DEF TypeInv, TypeOK, Session

LEMMA NextType == TypeInv /\ [Next]_vars => TypeInv'
<1> SUFFICES ASSUME TypeInv, [Next]_vars
             PROVE  TypeInv'
  OBVIOUS
<1>1. ASSUME NEW c \in Client, Connect(c) \/ Leave(c) \/ \E t \in TextsOf(c) : Send(c, t)
      PROVE  TypeInv'
  BY <1>1, ClientKeepsType
<1>2. CASE EndOfFile
  BY <1>2, EndSessionKeepsType DEF EndOfFile
<1>3. CASE UNCHANGED vars
  BY <1>3 DEF vars, netVars, TypeInv, TypeOK, Session
<1> QED
  BY <1>1, <1>2, <1>3, AcceptKeepsType, ReadKeepsType, ExecuteKeepsType, ReplyKeepsType DEF Next

LEMMA TypeInvHolds == Spec => []TypeInv
<1> QED
  BY InitType, NextType, PTL DEF Spec

\* Connections, buffers and statements stay well-formed, whatever the clients send.
THEOREM TypeCorrect == Spec => []TypeOK
<1>1. TypeInv => TypeOK
  BY DEF TypeInv
<1> QED
  BY <1>1, TypeInvHolds, PTL

-----------------------------------------------------------------------------
\* The client in whose transaction the engine is keeps the server until it has gone.
THEOREM TransactionsAreAlone == Spec => []TransactionsDoNotInterleave
<1>1. Init => TransactionsDoNotInterleave
  BY ConnectionAssumption DEF Init, TransactionsDoNotInterleave
<1>2. ASSUME TypeInv, TransactionsDoNotInterleave, [Next]_vars
      PROVE  TransactionsDoNotInterleave'
  <2> USE <1>2
  <2> SUFFICES ASSUME NEW c \in Client, currentTx' = c, conn'[c] # "closed"
               PROVE  serving' = c
    BY DEF TransactionsDoNotInterleave
  <2>1. ASSUME NEW d \in Client, Connect(d) \/ Leave(d)
        PROVE  serving' = c
    <3>1. conn[d] # "closed" /\ conn[c] # "closed" /\ UNCHANGED <<serving, currentTx>>
      BY <2>1 DEF Connect, Leave, TypeInv, TypeOK
    <3> QED
      BY <3>1 DEF TransactionsDoNotInterleave
  <2>2. ASSUME NEW d \in Client, NEW t, Send(d, t)
        PROVE  serving' = c
    BY <2>2 DEF Send, TransactionsDoNotInterleave
  <2>3. CASE Accept
    BY <2>3, ConnectionAssumption DEF Accept, TransactionsDoNotInterleave
  <2>4. CASE EndSession /\ Reading /\ UNCHANGED currentTx
    BY <2>4 DEF EndSession, Reading, TransactionsDoNotInterleave, TypeInv, TypeOK
  <2>5. CASE UNCHANGED <<serving, conn, currentTx>>
    BY <2>5 DEF TransactionsDoNotInterleave
  <2>6. CASE Read
    <3>1. UNCHANGED <<serving, conn, currentTx>> \/ (EndSession /\ Reading /\ UNCHANGED currentTx)
      BY <2>6 DEF Read
    <3> QED
      BY <3>1, <2>4, <2>5
  <2>7. CASE EndOfFile
    BY <2>7, <2>4 DEF EndOfFile
  <2>8. CASE Execute
    BY <2>8, ExecuteEffect, ConnectionAssumption DEF TransactionsDoNotInterleave
  <2>9. CASE Reply \/ UNCHANGED vars
    <3>1. UNCHANGED <<serving, conn, currentTx>>
      BY <2>9 DEF Reply, vars, netVars
    <3> QED
      BY <3>1, <2>5
  <2> QED
    BY <2>1, <2>2, <2>3, <2>6, <2>7, <2>8, <2>9 DEF Next
<1>3. TypeInv /\ TransactionsDoNotInterleave /\ [Next]_vars => TransactionsDoNotInterleave'
  BY <1>2
<1> QED
  BY <1>1, <1>3, TypeInvHolds, PTL DEF Spec

-----------------------------------------------------------------------------
(* Clients that wait for each answer.  What of a client's bytes is unread   *)
(* decides, with what the engine has executed, where its session stands.    *)

NoSemicolon(u) == \A i \in 1 .. Len(u) : u[i] # Semicolon

\* The text, its semicolon, and perhaps the beginning of another.
LineOf(u, text) ==
  /\ Len(text) < Len(u)
  /\ u[Len(text) + 1] = Semicolon
  /\ \A i \in 1 .. Len(text) : u[i] = text[i]
  /\ \A i \in Len(text) + 2 .. Len(u) : u[i] # Semicolon

Unread(c) == (IF serving = c THEN stmt ELSE <<>>) \o net[c]

Busy(c) == serving = c /\ request # None

Here(c) == conn[c] \in {"new", "open"}

\* All that was sent is executed, and an answer may be on its way.
Quiet(c) ==
  /\ sent[c] = done[c]
  /\ NoSemicolon(Unread(c))
  /\ Here(c) => Unread(c) = <<>>
  /\ Busy(c) => answer # None

\* A statement is in the stream.
Waiting(c) ==
  /\ ~Busy(c)
  /\ \E t \in Plain : /\ sent[c] = Append(done[c], t)
                      /\ LineOf(Unread(c), t)
                      /\ Here(c) => Len(Unread(c)) = Len(t) + 1

\* A statement is with the engine.
Running(c) ==
  /\ Busy(c) /\ answer = None
  /\ sent[c] = Append(done[c], request)
  /\ NoSemicolon(Unread(c))
  /\ Here(c) => Unread(c) = <<>>

Gone(c) ==
  /\ conn[c] = "closed"
  /\ Unread(c) = <<>>
  /\ ~Busy(c)
  /\ IsPrefix(done[c], sent[c])

Standing(c) == Quiet(c) \/ Waiting(c) \/ Running(c) \/ Gone(c)

SInv == TypeInv /\ \A c \in Client \ Quoting : Standing(c)

LEMMA PrefixFacts ==
  ASSUME NEW S, NEW s \in Seq(S), NEW x \in S
  PROVE  IsPrefix(s, s) /\ IsPrefix(s, Append(s, x))
<1>1. SubSeq(s, 1, Len(s)) = s
  BY SubSeqFull
<1> DEFINE a == Append(s, x)
           b == SubSeq(a, 1, Len(s))
<1>2. a \in Seq(S) /\ Len(a) = Len(s) + 1 /\ \A i \in 1 .. Len(s) : a[i] = s[i]
  OBVIOUS
<1> HIDE DEF a
<1>3. \A i \in 1 .. Len(s) : a[i] \in S
  BY <1>2
<1>4. b \in Seq(S) /\ Len(b) = Len(s) /\ \A i \in 1 .. Len(s) : b[i] = s[i]
  BY <1>2, <1>3, SubSeqProperties
<1>5. b = s
  BY <1>4, SeqEqual
<1>6. Len(s) <= Len(a)
  BY <1>2
<1>7. IsPrefix(s, a)
  BY <1>1, <1>5, <1>6 DEF IsPrefix
<1> QED
  BY <1>7, <1>1 DEF IsPrefix, a

LEMMA StandingIsPrefix ==
  ASSUME TypeInv, NEW c \in Client, Standing(c)
  PROVE  IsPrefix(done[c], sent[c])
<1> DEFINE S == Seq(Byte \ {Semicolon})
<1>1. done[c] \in Seq(S)
  BY DEF TypeInv, TypeOK
<1>2. Plain \subseteq S
  BY TextTypes
<1>3. request # None => request \in S
  BY DEF TypeInv, TypeOK
<1> HIDE DEF S
<1>4. CASE Quiet(c)
  BY <1>1, <1>4, PrefixFacts DEF Quiet
<1>5. CASE Waiting(c)
  BY <1>1, <1>2, <1>5, PrefixFacts DEF Waiting
<1>6. CASE Running(c)
  BY <1>1, <1>3, <1>6, PrefixFacts DEF Running, Busy
<1>7. CASE Gone(c)
  BY <1>7 DEF Gone
<1> QED
  BY <1>4, <1>5, <1>6, <1>7 DEF Standing

\* A step that leaves the client where it is, or lets it connect or leave.
LEMMA SameStanding ==
  ASSUME NEW c \in Client, Standing(c),
         Unread(c)' = Unread(c), sent'[c] = sent[c], done'[c] = done[c],
         Here(c)' => Here(c), conn[c] = "closed" => conn'[c] = "closed",
         Busy(c)' <=> Busy(c), Busy(c) => request' = request /\ answer' = answer
  PROVE  Standing(c)'
<1>1. CASE Quiet(c)
  <2>1. Quiet(c)'
    BY <1>1 DEF Quiet, NoSemicolon
  <2> QED
    BY <2>1 DEF Standing
<1>2. CASE Waiting(c)
  <2>1. PICK t \in Plain : /\ sent[c] = Append(done[c], t)
                           /\ LineOf(Unread(c), t)
                           /\ Here(c) => Len(Unread(c)) = Len(t) + 1
    BY <1>2 DEF Waiting
  <2>2. LineOf(Unread(c), t)'
    BY <2>1 DEF LineOf
  <2>3. Waiting(c)'
    BY <1>2, <2>1, <2>2 DEF Waiting
  <2> QED
    BY <2>3 DEF Standing
<1>3. CASE Running(c)
  <2>1. Running(c)'
    BY <1>3 DEF Running, NoSemicolon
  <2> QED
    BY <2>1 DEF Standing
<1>4. CASE Gone(c)
  <2>1. Gone(c)'
    BY <1>4 DEF Gone
  <2> QED
    BY <2>1 DEF Standing
<1> QED
  BY <1>1, <1>2, <1>3, <1>4 DEF Standing

LEMMA UnreadType ==
  ASSUME TypeInv, NEW c \in Client
  PROVE  /\ net[c] \in Seq(Byte)
         /\ (IF serving = c THEN stmt ELSE <<>>) \in Seq(Byte)
         /\ Unread(c) \in Seq(Byte)
<1>1. net[c] \in Seq(Byte) /\ stmt \in Seq(Byte) /\ <<>> \in Seq(Byte)
  BY SeqMonotonic DEF TypeInv, TypeOK
<1> DEFINE kept == IF serving = c THEN stmt ELSE <<>>
<1>2. kept \in Seq(Byte)
  BY <1>1
<1> HIDE DEF kept
<1>3. kept \o net[c] \in Seq(Byte)
  BY <1>1, <1>2
<1> QED
  BY <1>1, <1>2, <1>3 DEF kept, Unread

\* Of a client whose bytes and statements a step does not touch.
LEMMA OthersStand ==
  ASSUME NEW c \in Client, Standing(c), serving # c, serving' # c,
         net'[c] = net[c], sent'[c] = sent[c], done'[c] = done[c], conn'[c] = conn[c]
  PROVE  Standing(c)'
<1>1. Unread(c)' = Unread(c) /\ ~Busy(c) /\ ~Busy(c)' /\ (Here(c)' => Here(c))
  BY DEF Unread, Busy, Here
<1> QED
  BY <1>1, SameStanding

\* A client that has all its answers has nothing in the stream.
LEMMA SendStands ==
  ASSUME SInv, ~Pipelined, NEW c \in Client, NEW t \in TextsOf(c), Send(c, t)
  PROVE  \A d \in Client \ Quoting : Standing(d)'
<1>1. /\ conn[c] = "open" /\ replies[c] >= Len(sent[c])
      /\ net' = [net EXCEPT ![c] = @ \o t \o <<Semicolon>>]
      /\ sent' = [sent EXCEPT ![c] = Append(@, t)]
      /\ UNCHANGED <<conn, serving, stmt, request, answer, done>>
  BY DEF Send
<1>2. ASSUME NEW d \in (Client \ Quoting) \ {c}
      PROVE  Standing(d)'
  <2>1. net'[d] = net[d] /\ sent'[d] = sent[d]
    BY <1>1 DEF SInv, TypeInv, TypeOK
  <2>2. Unread(d)' = Unread(d) /\ (Busy(d)' <=> Busy(d)) /\ (Here(d)' => Here(d))
    BY <1>1, <2>1 DEF Unread, Busy, Here
  <2>3. Standing(d)
    BY DEF SInv
  <2> QED
    BY <1>1, <2>1, <2>2, <2>3, SameStanding
<1>3. ASSUME c \in Client \ Quoting
      PROVE  Standing(c)'
  <2>1. /\ replies[c] \in Nat /\ replies[c] <= Len(done[c]) /\ Len(done[c]) \in Nat
    BY DEF SInv, TypeInv, TypeOK
  <2>2. \A x : sent[c] # Append(done[c], x)
    <3> SUFFICES ASSUME NEW x, sent[c] = Append(done[c], x)
                 PROVE  FALSE
      OBVIOUS
    <3>1. done[c] \in Seq(Seq(Byte \ {Semicolon}))
      BY DEF SInv, TypeInv, TypeOK
    <3>2. Len(sent[c]) = Len(done[c]) + 1
      BY <3>1
    <3> QED
      BY <1>1, <2>1, <3>2
  <2>3. Quiet(c)
    <3>1. Standing(c)
      BY <1>3 DEF SInv
    <3>2. ~Waiting(c) /\ ~Running(c) /\ ~Gone(c)
      BY <1>1, <2>2 DEF Waiting, Running, Gone
    <3> QED
      BY <3>1, <3>2 DEF Standing
  <2>4. Unread(c) = <<>> /\ sent[c] = done[c]
    BY <1>1, <2>3 DEF Quiet, Here
  <2>5. ~Busy(c)
    <3> SUFFICES ASSUME Busy(c)
                 PROVE  FALSE
      OBVIOUS
    <3>1. serving = c /\ answer # None
      BY <2>3 DEF Quiet, Busy
    <3>2. replies[c] < Len(done[c])
      BY <3>1 DEF SInv, TypeInv, Session
    <3> QED
      BY <1>1, <2>1, <2>4, <3>2
  <2> DEFINE kept == IF serving = c THEN stmt ELSE <<>>
             line == t \o <<Semicolon>>
  <2>11. t \in Plain /\ c \in Client
    BY <1>3 DEF TextsOf
  <2>6. t \in Seq(Byte) /\ t \in Seq(Byte \ {Semicolon}) /\ <<Semicolon>> \in Seq(Byte)
    BY <2>11, TextTypes, SeqMonotonic
  <2>7. kept \in Seq(Byte) /\ net[c] \in Seq(Byte) /\ kept \o net[c] = <<>>
    BY <2>4, UnreadType DEF SInv, Unread
  <2>8. Unread(c)' = line
    <3>1. Unread(c)' = kept \o (net[c] \o t \o <<Semicolon>>)
      BY <1>1 DEF Unread, SInv, TypeInv, TypeOK
    <3> HIDE DEF kept
    <3>2. kept = <<>> /\ net[c] = <<>>
      BY <2>7, ConcatSimplifications
    <3> QED
      BY <2>6, <3>1, <3>2, ConcatEmptySeq, ConcatProperties
  <2>9. LineOf(line, t) /\ Len(line) = Len(t) + 1
    <3>1. /\ Len(line) = Len(t) + 1 /\ Len(t) \in Nat
          /\ \A i \in 1 .. Len(t) + 1 : line[i] = IF i <= Len(t) THEN t[i] ELSE <<Semicolon>>[i - Len(t)]
      BY <2>6, ConcatProperties
    <3> HIDE DEF line
    <3> QED
      BY <3>1 DEF LineOf
  <2>10. Waiting(c)'
    <3>1. sent'[c] = Append(done[c], t)
      BY <1>1, <2>4 DEF SInv, TypeInv, TypeOK
    <3>2. ~Busy(c)'
      BY <1>1, <2>5 DEF Busy
    <3>3. LineOf(Unread(c), t)' /\ Len(Unread(c))' = Len(t) + 1
      BY <2>8, <2>9 DEF LineOf
    <3> QED
      BY <1>1, <2>11, <3>1, <3>2, <3>3 DEF Waiting
  <2> QED
    BY <2>10 DEF Standing
<1> QED
  BY <1>2, <1>3

LEMMA ConnectStands ==
  ASSUME SInv, NEW c \in Client, Connect(c)
  PROVE  \A d \in Client \ Quoting : Standing(d)'
<1> SUFFICES ASSUME NEW d \in Client \ Quoting
             PROVE  Standing(d)'
  OBVIOUS
<1>1. conn[c] = "new" /\ conn' = [conn EXCEPT ![c] = "open"]
      /\ UNCHANGED <<net, sent, serving, stmt, request, answer, done>>
  BY DEF Connect
<1>2. (Here(d)' => Here(d)) /\ (conn[d] = "closed" => conn'[d] = "closed")
  BY <1>1 DEF Here, SInv, TypeInv, TypeOK
<1>3. Unread(d)' = Unread(d) /\ (Busy(d)' <=> Busy(d))
  BY <1>1 DEF Unread, Busy
<1>4. Standing(d)
  BY DEF SInv
<1> QED
  BY <1>1, <1>2, <1>3, <1>4, SameStanding

\* Bytes without a semicolon behind the others leave a line and the lack of one.
LEMMA MoreBytes ==
  ASSUME NEW u \in Seq(Byte), NEW w \in Seq(Byte \ {Semicolon})
  PROVE  /\ NoSemicolon(u) => NoSemicolon(u \o w)
         /\ \A t \in Plain : LineOf(u, t) => LineOf(u \o w, t)
<1> DEFINE v == u \o w
<1>1. w \in Seq(Byte) /\ \A i \in 1 .. Len(w) : w[i] # Semicolon
  BY SeqMonotonic, ElementOfSeq
<1>2. /\ Len(u) \in Nat /\ Len(w) \in Nat /\ Len(v) = Len(u) + Len(w)
      /\ \A i \in 1 .. Len(u) + Len(w) : v[i] = IF i <= Len(u) THEN u[i] ELSE w[i - Len(u)]
  BY <1>1, ConcatProperties
<1> HIDE DEF v
<1>3. ASSUME NEW i \in 1 .. Len(v)
      PROVE  (i \in 1 .. Len(u) /\ v[i] = u[i]) \/ v[i] # Semicolon
  <2>1. CASE i <= Len(u)
    BY <1>2, <2>1
  <2>2. CASE ~(i <= Len(u))
    <3>1. i - Len(u) \in 1 .. Len(w) /\ v[i] = w[i - Len(u)]
      BY <1>2, <2>2
    <3> QED
      BY <1>1, <3>1
  <2> QED
    BY <2>1, <2>2
<1>4. NoSemicolon(u) => NoSemicolon(v)
  BY <1>3 DEF NoSemicolon
<1>5. ASSUME NEW t \in Plain, LineOf(u, t)
      PROVE  LineOf(v, t)
  <2>1. Len(t) \in Nat
    BY TextTypes
  <2>2. \A i \in 1 .. Len(u) : v[i] = u[i]
    BY <1>2
  <2>3. Len(t) < Len(v) /\ v[Len(t) + 1] = Semicolon /\ \A i \in 1 .. Len(t) : v[i] = t[i]
    <3>1. Len(t) < Len(u) /\ Len(t) + 1 \in 1 .. Len(u) /\ \A i \in 1 .. Len(t) : i \in 1 .. Len(u)
      BY <1>2, <1>5, <2>1 DEF LineOf
    <3> QED
      BY <1>2, <1>5, <2>1, <2>2, <3>1 DEF LineOf
  <2>4. ASSUME NEW i \in Len(t) + 2 .. Len(v)
        PROVE  v[i] # Semicolon
    <3>1. i \in 1 .. Len(v)
      BY <2>1
    <3>2. i \in 1 .. Len(u) => i \in Len(t) + 2 .. Len(u)
      BY <2>1
    <3> QED
      BY <1>3, <1>5, <3>1, <3>2 DEF LineOf
  <2> QED
    BY <2>3, <2>4 DEF LineOf
<1> QED
  BY <1>4, <1>5 DEF v

\* The beginning of a statement at the end of the stream is never executed.
LEMMA LeaveStands ==
  ASSUME SInv, NEW c \in Client, Leave(c)
  PROVE  \A d \in Client \ Quoting : Standing(d)'
<1>1. /\ conn[c] = "open" /\ conn' = [conn EXCEPT ![c] = "left"]
      /\ UNCHANGED <<sent, serving, stmt, request, answer, done>>
  BY DEF Leave
<1>2. conn'[c] = "left" /\ ~Here(c)' /\ (Busy(c)' <=> Busy(c))
  BY <1>1 DEF SInv, TypeInv, TypeOK, Here, Busy
<1>3. ASSUME NEW d \in (Client \ Quoting) \ {c}
      PROVE  Standing(d)'
  <2>1. net'[d] = net[d] /\ conn'[d] = conn[d]
    BY <1>1, <1>3 DEF Leave, SInv, TypeInv, TypeOK
  <2>2. Unread(d)' = Unread(d) /\ (Busy(d)' <=> Busy(d)) /\ (Here(d)' => Here(d))
    BY <1>1, <2>1 DEF Unread, Busy, Here
  <2>3. Standing(d)
    BY DEF SInv
  <2> QED
    BY <1>1, <2>1, <2>2, <2>3, SameStanding
<1>4. ASSUME c \in Client \ Quoting
      PROVE  Standing(c)'
  <2>1. PICK t \in TextsOf(c) :
          \E n \in 0 .. Len(t) : net' = [net EXCEPT ![c] = @ \o SubSeq(t, 1, n)]
    BY DEF Leave
  <2>2. PICK n \in 0 .. Len(t) : net' = [net EXCEPT ![c] = @ \o SubSeq(t, 1, n)]
    BY <2>1
  <2>3. PICK w : w = SubSeq(t, 1, n)
    OBVIOUS
  <2>4. w \in Seq(Byte \ {Semicolon}) /\ w \in Seq(Byte)
    <3>1. t \in Seq(Byte \ {Semicolon})
      BY <1>4, TextTypes DEF TextsOf
    <3>2. SubSeq(t, 1, n) \in Seq(Byte \ {Semicolon})
      BY <3>1, BeginningType
    <3> QED
      BY <2>3, <3>2, SeqMonotonic
  <2>5. PICK u, own, kept : /\ u = Unread(c) /\ own = net[c]
                            /\ kept = IF serving = c THEN stmt ELSE <<>>
    OBVIOUS
  <2>6. u \in Seq(Byte) /\ own \in Seq(Byte) /\ kept \in Seq(Byte) /\ u = kept \o own
    BY <2>5, UnreadType DEF SInv, Unread
  <2>7. Unread(c)' = u \o w
    <3>1. Unread(c)' = kept \o (own \o w)
      BY <1>1, <2>2, <2>3, <2>5 DEF Unread, SInv, TypeInv, TypeOK
    <3>2. kept \o (own \o w) = (kept \o own) \o w
      BY ONLY <2>4, <2>6, ConcatAssociative
    <3> QED
      BY <2>6, <3>1, <3>2
  <2>8. /\ NoSemicolon(u) => NoSemicolon(u \o w)
        /\ \A x \in Plain : LineOf(u, x) => LineOf(u \o w, x)
    BY <2>4, <2>6, MoreBytes
  <2>9. Standing(c)
    BY <1>4 DEF SInv
  <2>10. CASE Quiet(c)
    <3>1. NoSemicolon(Unread(c))'
      BY <2>5, <2>7, <2>8, <2>10 DEF Quiet, NoSemicolon
    <3>2. Quiet(c)'
      BY <1>1, <1>2, <2>10, <3>1 DEF Quiet
    <3> QED
      BY <3>2 DEF Standing
  <2>11. CASE Running(c)
    <3>1. NoSemicolon(Unread(c))'
      BY <2>5, <2>7, <2>8, <2>11 DEF Running, NoSemicolon
    <3>2. Running(c)'
      BY <1>1, <1>2, <2>11, <3>1 DEF Running
    <3> QED
      BY <3>2 DEF Standing
  <2>12. CASE Waiting(c)
    <3>1. PICK x \in Plain : sent[c] = Append(done[c], x) /\ LineOf(u, x)
      BY <2>5, <2>12 DEF Waiting
    <3>2. LineOf(Unread(c), x)'
      BY <2>7, <2>8, <3>1 DEF LineOf
    <3>3. Waiting(c)'
      BY <1>1, <1>2, <2>12, <3>1, <3>2 DEF Waiting
    <3> QED
      BY <3>3 DEF Standing
  <2>13. ~Gone(c)
    BY <1>1 DEF Gone
  <2> QED
    BY <2>9, <2>10, <2>11, <2>12, <2>13 DEF Standing
<1> QED
  BY <1>3, <1>4

\* The buffer of readStatement is empty when a client is accepted.
LEMMA AcceptStands ==
  ASSUME SInv, Accept
  PROVE  \A d \in Client \ Quoting : Standing(d)'
<1> SUFFICES ASSUME NEW d \in Client \ Quoting
             PROVE  Standing(d)'
  OBVIOUS
<1>1. /\ serving = None /\ stmt = <<>> /\ request = None
      /\ UNCHANGED <<conn, net, sent, stmt, request, answer, done>>
  BY DEF Accept, SInv, TypeInv, Session
<1>2. Unread(d)' = Unread(d) /\ ~Busy(d) /\ ~Busy(d)' /\ (Here(d)' => Here(d))
  BY <1>1 DEF Unread, Busy, Here
<1>3. Standing(d)
  BY DEF SInv
<1> QED
  BY <1>1, <1>2, <1>3, SameStanding

\* What the server closes has executed a prefix of what was sent.
LEMMA EndSessionStands ==
  ASSUME SInv, Reading, EndSession, UNCHANGED <<sent, answer, done>>
  PROVE  \A d \in Client \ Quoting : Standing(d)'
<1> SUFFICES ASSUME NEW d \in Client \ Quoting
             PROVE  Standing(d)'
  OBVIOUS
<1>1. serving \in Client /\ serving' = None /\ stmt' = <<>> /\ serving' # d
  BY ConnectionAssumption DEF Reading, EndSession, SInv, TypeInv, TypeOK
<1>2. Standing(d)
  BY DEF SInv
<1>3. CASE d = serving
  <2>1. conn'[d] = "closed" /\ net'[d] = <<>>
    BY <1>1, <1>3 DEF EndSession, SInv, TypeInv, TypeOK
  <2>2. Unread(d)' = <<>> /\ ~Busy(d)'
    BY <1>1, <2>1, ConcatEmptySeq, EmptySeq DEF Unread, Busy
  <2>3. IsPrefix(done[d], sent[d])
    BY <1>2, StandingIsPrefix DEF SInv
  <2>4. IsPrefix(done[d], sent[d])'
    BY <2>3 DEF IsPrefix
  <2>5. Gone(d)'
    BY <2>1, <2>2, <2>4 DEF Gone
  <2> QED
    BY <2>5 DEF Standing
<1>4. CASE d # serving
  <2>1. conn'[d] = conn[d] /\ net'[d] = net[d]
    BY <1>4 DEF EndSession, SInv, TypeInv, TypeOK
  <2> QED
    BY <1>1, <1>2, <1>4, <2>1, OthersStand
<1> QED
  BY <1>3, <1>4

LEMMA ExecuteStands ==
  ASSUME SInv, Execute
  PROVE  \A d \in Client \ Quoting : Standing(d)'
<1> SUFFICES ASSUME NEW d \in Client \ Quoting
             PROVE  Standing(d)'
  OBVIOUS
<1>1. /\ serving \in Client /\ Busy(serving) /\ answer = None /\ answer' # None
      /\ request \in Seq(Byte \ {Semicolon})
  BY ExecuteEffect, ConnectionAssumption DEF SInv, TypeInv, TypeOK, Session, Busy
<1>2. Standing(d)
  BY DEF SInv
<1>3. CASE d = serving
  <2>1. ~Quiet(d) /\ ~Waiting(d) /\ ~Gone(d)
    BY <1>1, <1>3 DEF Quiet, Waiting, Gone
  <2>2. Running(d)
    BY <1>2, <2>1 DEF Standing
  <2>3. done'[d] = Append(done[d], request)
    BY <1>3, ExecuteEffect DEF SInv, TypeInv, TypeOK
  <2>4. Unread(d)' = Unread(d) /\ (Here(d)' <=> Here(d))
    BY ExecuteEffect DEF Unread, Here
  <2>5. Quiet(d)'
    BY <1>1, <2>2, <2>3, <2>4, ExecuteEffect DEF Running, Quiet, NoSemicolon
  <2> QED
    BY <2>5 DEF Standing
<1>4. CASE d # serving
  <2>1. done'[d] = done[d]
    BY <1>4, ExecuteEffect DEF SInv, TypeInv, TypeOK
  <2> QED
    BY <1>2, <1>4, <2>1, ExecuteEffect, OthersStand
<1> QED
  BY <1>3, <1>4

LEMMA ReplyStands ==
  ASSUME SInv, Reply
  PROVE  \A d \in Client \ Quoting : Standing(d)'
<1> SUFFICES ASSUME NEW d \in Client \ Quoting
             PROVE  Standing(d)'
  OBVIOUS
<1>1. /\ answer # None /\ request' = None
      /\ UNCHANGED <<conn, net, sent, serving, stmt, done>>
  BY DEF Reply, netVars
<1>2. Standing(d) /\ request # None
  BY <1>1 DEF SInv, TypeInv, Session
<1>3. Unread(d)' = Unread(d) /\ (Here(d)' <=> Here(d)) /\ ~Busy(d)'
  BY <1>1 DEF Unread, Here, Busy
<1>4. CASE serving = d
  <2>1. ~Waiting(d) /\ ~Running(d) /\ ~Gone(d)
    BY <1>1, <1>2, <1>4 DEF Waiting, Running, Gone, Busy
  <2>2. Quiet(d)
    BY <1>2, <2>1 DEF Standing
  <2>3. Quiet(d)'
    BY <1>1, <1>3, <2>2 DEF Quiet, NoSemicolon
  <2> QED
    BY <2>3 DEF Standing
<1>5. CASE serving # d
  BY <1>1, <1>2, <1>5, OthersStand
<1> QED
  BY <1>4, <1>5

LEMMA InitStands == Init => SInv
<1> SUFFICES ASSUME Init
             PROVE  SInv
  OBVIOUS
<1>1. ASSUME NEW c \in Client
      PROVE  Standing(c)
  <2>1. Unread(c) = <<>>
    BY <1>1, ConcatEmptySeq, EmptySeq DEF Init, Unread
  <2>2. Quiet(c)
    BY <1>1, <2>1 DEF Init, Quiet, NoSemicolon, Busy
  <2> QED
    BY <2>2 DEF Standing
<1> QED
  BY <1>1, InitType DEF SInv

LEMMA BytesAssociative ==
  ASSUME NEW s \in Seq(Byte), NEW t \in Seq(Byte), NEW u \in Seq(Byte)
  PROVE  s \o (t \o u) = (s \o t) \o u
  BY ConcatAssociative

\* A read() cuts the unread bytes of the client in two.
LEMMA ReadCuts ==
  ASSUME TypeInv, serving \in Client, NEW n \in 1 .. Len(net[serving])
  PROVE  LET bytes == stmt \o SubSeq(net[serving], 1, n)
             rest  == SubSeq(net[serving], n + 1, Len(net[serving]))
             all   == Unread(serving)
         IN  /\ bytes \in Seq(Byte) /\ rest \in Seq(Byte) /\ all \in Seq(Byte)
             /\ all = bytes \o rest
             /\ Len(all) = Len(bytes) + Len(rest)
             /\ \A i \in 1 .. Len(bytes) : all[i] = bytes[i]
             /\ \A i \in 1 .. Len(rest) : all[Len(bytes) + i] = rest[i]
<1> DEFINE taken == SubSeq(net[serving], 1, n)
           bytes == stmt \o taken
           rest  == SubSeq(net[serving], n + 1, Len(net[serving]))
           all   == Unread(serving)
<1>1. net[serving] \in Seq(Byte) /\ stmt \in Seq(Byte) /\ all = stmt \o net[serving]
  BY UnreadType DEF Unread
<1>2. bytes \in Seq(Byte) /\ rest \in Seq(Byte) /\ all \in Seq(Byte)
  BY ReadTypes, UnreadType DEF TypeInv
<1>3. taken \in Seq(Byte) /\ taken \o rest = net[serving]
  <2>1. taken \in Seq(Byte)
    BY <1>1, SubSeqProperties
  <2>2. taken \o rest = SubSeq(net[serving], 1, Len(net[serving]))
    BY <1>1, ConcatAdjacentSubSeq
  <2> QED
    BY <1>1, <2>1, <2>2, SubSeqFull
<1> HIDE DEF taken, rest
<1>4. all = bytes \o rest
  <2>1. stmt \o (taken \o rest) = (stmt \o taken) \o rest
    BY <1>1, <1>2, <1>3, BytesAssociative
  <2> QED
    BY <1>1, <1>3, <2>1
<1> HIDE DEF bytes, all
<1>5. /\ Len(all) = Len(bytes) + Len(rest) /\ Len(bytes) \in Nat /\ Len(rest) \in Nat
      /\ \A i \in 1 .. Len(bytes) + Len(rest) :
           all[i] = IF i <= Len(bytes) THEN bytes[i] ELSE rest[i - Len(bytes)]
  BY <1>2, <1>4, ConcatProperties
<1>6. \A i \in 1 .. Len(bytes) : all[i] = bytes[i]
  BY <1>5
<1>7. ASSUME NEW i \in 1 .. Len(rest)
      PROVE  all[Len(bytes) + i] = rest[i]
  <2>1. Len(bytes) + i \in 1 .. Len(bytes) + Len(rest) /\ ~(Len(bytes) + i <= Len(bytes))
    BY <1>5
  <2>2. (Len(bytes) + i) - Len(bytes) = i
    BY <1>5
  <2> QED
    BY <1>5, <2>1, <2>2
<1> QED
  BY <1>2, <1>4, <1>5, <1>6, <1>7 DEF bytes, taken, rest, all

\* The bytes of a line, once its semicolon has been read, give its text.
LEMMA TextOfLine ==
  ASSUME NEW t \in Seq(Byte \ {Semicolon}), NEW all \in Seq(Byte), LineOf(all, t),
         NEW bytes \in Seq(Byte), Len(bytes) <= Len(all),
         \A i \in 1 .. Len(bytes) : all[i] = bytes[i],
         Contains(bytes, Semicolon)
  PROVE  TextBefore(bytes) = t /\ Len(t) < Len(bytes)
<1> DEFINE at == CHOOSE i \in DOMAIN bytes :
                   bytes[i] = Semicolon /\ \A j \in 1 .. i - 1 : bytes[j] # Semicolon
           before == SubSeq(bytes, 1, at - 1)
<1>1. /\ at \in 1 .. Len(bytes) /\ bytes[at] = Semicolon
      /\ \A j \in 1 .. at - 1 : bytes[j] # Semicolon
  <2>1. at \in DOMAIN bytes /\ bytes[at] = Semicolon /\ \A j \in 1 .. at - 1 : bytes[j] # Semicolon
    BY FirstSemicolon
  <2> HIDE DEF at
  <2> QED
    BY <2>1, LenProperties
<1>2. before = TextBefore(bytes)
  BY DEF TextBefore
<1> HIDE DEF at
<1>3. /\ Len(t) \in Nat /\ Len(bytes) \in Nat /\ Len(all) \in Nat
      /\ \A i \in 1 .. Len(t) : t[i] # Semicolon
  BY ElementOfSeq
<1>4. at = Len(t) + 1
  <2>1. ~(at <= Len(t))
    BY <1>1, <1>3 DEF LineOf
  <2>2. ~(at > Len(t) + 1)
    <3> SUFFICES ASSUME at > Len(t) + 1
                 PROVE  FALSE
      OBVIOUS
    <3>1. Len(t) + 1 \in 1 .. at - 1 /\ Len(t) + 1 \in 1 .. Len(bytes)
      BY <1>1, <1>3
    <3> QED
      BY <1>1, <3>1 DEF LineOf
  <2> QED
    BY <1>1, <1>3, <2>1, <2>2
<1>5. \A i \in 1 .. Len(t) : bytes[i] \in Byte \ {Semicolon} /\ bytes[i] = t[i]
  BY <1>1, <1>3, <1>4 DEF LineOf
<1>6. /\ before \in Seq(Byte \ {Semicolon}) /\ Len(before) = Len(t)
      /\ \A i \in 1 .. Len(t) : before[i] = bytes[i]
  <2>1. at - 1 = Len(t)
    BY <1>1, <1>3, <1>4
  <2> QED
    BY <1>3, <1>5, <2>1, SubSeqProperties
<1> HIDE DEF before
<1>7. before = t
  BY <1>5, <1>6, SeqEqual
<1> QED
  BY <1>1, <1>2, <1>3, <1>4, <1>7

\* The part of a statement that has come waits in the buffer; the whole one goes to
\* the engine, and the bytes behind it, dropped with the buffer, begin no statement.
LEMMA ReadStands ==
  ASSUME SInv, Read
  PROVE  \A d \in Client \ Quoting : Standing(d)'
<1>1. Reading /\ UNCHANGED <<backlog, sent, answer, currentTx, up, done, replies>>
  BY DEF Read
<1>2. TypeInv /\ serving \in Client /\ serving # None /\ request = None /\ answer = None
  BY <1>1 DEF Reading, SInv, TypeInv, TypeOK, Session
<1>3. PICK n \in 1 .. Len(net[serving]) :
        LET bytes == stmt \o SubSeq(net[serving], 1, n)
            rest  == SubSeq(net[serving], n + 1, Len(net[serving]))
        IN  IF Contains(bytes, Semicolon)
            THEN IF TextBefore(bytes) = <<>> THEN EndSession
                 ELSE /\ request' = TextBefore(bytes)
                      /\ stmt' = <<>>
                      /\ net' = [net EXCEPT ![serving] = rest]
                      /\ UNCHANGED <<conn, serving>>
            ELSE /\ stmt' = bytes
                 /\ net' = [net EXCEPT ![serving] = rest]
                 /\ UNCHANGED <<conn, serving, request>>
  BY DEF Read
<1> DEFINE bytes == stmt \o SubSeq(net[serving], 1, n)
           rest  == SubSeq(net[serving], n + 1, Len(net[serving]))
           all   == Unread(serving)
<1>4. /\ bytes \in Seq(Byte) /\ rest \in Seq(Byte) /\ all \in Seq(Byte)
      /\ all = bytes \o rest
      /\ Len(all) = Len(bytes) + Len(rest)
      /\ \A i \in 1 .. Len(bytes) : all[i] = bytes[i]
      /\ \A i \in 1 .. Len(rest) : all[Len(bytes) + i] = rest[i]
  BY <1>2, ReadCuts
<1>5. CASE Contains(bytes, Semicolon) /\ TextBefore(bytes) = <<>>
  <2>1. EndSession
    BY <1>3, <1>5
  <2> QED
    BY <1>1, <2>1, EndSessionStands
<1>6. ASSUME ~(Contains(bytes, Semicolon) /\ TextBefore(bytes) = <<>>), NEW d \in (Client \ Quoting) \ {serving}
      PROVE  Standing(d)'
  <2>1. net' = [net EXCEPT ![serving] = rest] /\ UNCHANGED <<conn, serving>>
    BY <1>3, <1>6
  <2>2. net'[d] = net[d] /\ serving # d /\ serving' # d /\ Standing(d)
    BY <1>2, <2>1 DEF SInv, TypeInv, TypeOK
  <2> QED
    BY <1>1, <2>1, <2>2, OthersStand
<1>7. CASE serving \notin Quoting /\ ~Contains(bytes, Semicolon)
  <2>1. /\ stmt' = bytes /\ net' = [net EXCEPT ![serving] = rest]
        /\ UNCHANGED <<conn, serving, request>>
    BY <1>3, <1>7
  <2>2. Unread(serving)' = bytes \o rest
    BY <1>2, <2>1 DEF Unread, TypeInv, TypeOK
  <2>3. Unread(serving)' = Unread(serving)
    BY <1>4, <2>2
  <2> HIDE DEF bytes, rest, all
  <2>4. PICK c \in Client \ Quoting : c = serving
    BY <1>2, <1>7
  <2>5. Standing(c)'
    <3>1. Unread(c)' = Unread(c) /\ (Here(c)' => Here(c)) /\ ~Busy(c) /\ ~Busy(c)'
      BY <1>2, <2>1, <2>3, <2>4 DEF Unread, Here, Busy
    <3>2. Standing(c)
      BY DEF SInv
    <3> QED
      BY <1>1, <2>1, <3>1, <3>2, SameStanding
  <2> QED
    BY <1>6, <1>7, <2>4, <2>5
<1>8. CASE serving \notin Quoting /\ Contains(bytes, Semicolon) /\ TextBefore(bytes) # <<>>
  <2>1. /\ request' = TextBefore(bytes) /\ stmt' = <<>>
        /\ net' = [net EXCEPT ![serving] = rest]
        /\ UNCHANGED <<conn, serving>>
    BY <1>3, <1>8
  <2> HIDE DEF bytes, rest
  <2>2. PICK p \in 1 .. Len(all) : all[p] = Semicolon
    <3>1. PICK p \in 1 .. Len(bytes) : bytes[p] = Semicolon
      BY <1>4, <1>8, LenProperties DEF Contains
    <3>2. Len(bytes) \in Nat /\ Len(rest) \in Nat
      BY <1>4
    <3>3. p \in 1 .. Len(all)
      BY <1>4, <3>1, <3>2
    <3> QED
      BY <1>4, <3>1, <3>3
  <2>3. all # <<>> /\ ~NoSemicolon(all)
    BY <2>2 DEF NoSemicolon
  <2>4. Waiting(serving)
    <3>1. ~Quiet(serving) /\ ~Running(serving) /\ ~Gone(serving)
      BY <2>3 DEF Quiet, Running, Gone
    <3>2. Standing(serving)
      BY <1>2, <1>8 DEF SInv
    <3> QED
      BY <3>1, <3>2 DEF Standing
  <2>5. PICK t \in Plain : /\ sent[serving] = Append(done[serving], t)
                           /\ LineOf(all, t)
                           /\ Here(serving) => Len(all) = Len(t) + 1
    BY <2>4 DEF Waiting
  <2> HIDE DEF all
  <2>6. t \in Seq(Byte \ {Semicolon}) /\ Len(t) \in Nat
    BY TextTypes
  <2>7. Len(bytes) \in Nat /\ Len(rest) \in Nat /\ Len(bytes) <= Len(all)
    BY <1>4
  <2>8. TextBefore(bytes) = t /\ Len(t) < Len(bytes)
    BY <1>4, <1>8, <2>5, <2>6, <2>7, TextOfLine
  <2>9. NoSemicolon(rest) /\ (Here(serving) => rest = <<>>)
    <3>1. ASSUME NEW i \in 1 .. Len(rest)
          PROVE  rest[i] # Semicolon
      <4>1. Len(bytes) + i \in Len(t) + 2 .. Len(all)
        BY <1>4, <2>6, <2>7, <2>8
      <4> QED
        BY <1>4, <2>5, <4>1 DEF LineOf
    <3>2. Here(serving) => Len(rest) = 0
      BY <1>4, <2>5, <2>6, <2>7, <2>8
    <3> QED
      BY <1>4, <3>1, <3>2, EmptySeq DEF NoSemicolon
  <2>10. PICK c \in Client \ Quoting : c = serving
    BY <1>2, <1>8
  <2>11. Unread(c)' = rest
    BY <1>2, <1>4, <2>1, <2>10, ConcatEmptySeq DEF Unread, TypeInv, TypeOK
  <2>12. Running(c)'
    <3>1. t \in Seq(Byte)
      BY <2>6, SeqMonotonic
    <3>5. request' # None
      BY <2>1, <2>8, <3>1, NoneAssumption
    <3>2. Busy(c)' /\ answer' = None
      BY <1>1, <1>2, <2>1, <2>10, <3>5 DEF Busy
    <3>3. sent'[c] = Append(done'[c], request')
      BY <1>1, <2>1, <2>5, <2>8, <2>10
    <3>4. NoSemicolon(Unread(c))' /\ (Here(c)' => Unread(c)' = <<>>)
      BY <2>1, <2>9, <2>10, <2>11 DEF NoSemicolon, Here
    <3> QED
      BY <3>2, <3>3, <3>4 DEF Running
  <2>13. Standing(c)'
    BY <2>12 DEF Standing
  <2> QED
    BY <1>6, <1>8, <2>10, <2>13
<1>9. CASE serving \in Quoting /\ ~(Contains(bytes, Semicolon) /\ TextBefore(bytes) = <<>>)
  <2> SUFFICES ASSUME NEW d \in Client \ Quoting
               PROVE  Standing(d)'
    OBVIOUS
  <2>1. d \in (Client \ Quoting) \ {serving}
    BY <1>9
  <2> QED
    BY <1>6, <1>9, <2>1
<1> QED
  BY <1>5, <1>7, <1>8, <1>9

LEMMA Stands == ~Pipelined => (Spec => []SInv)
<1> SUFFICES ASSUME ~Pipelined
             PROVE  Spec => []SInv
  OBVIOUS
<1>1. Init => SInv
  BY InitStands
<1>2. SInv /\ [Next]_vars => SInv'
  <2> SUFFICES ASSUME SInv, [Next]_vars
               PROVE  SInv'
    OBVIOUS
  <2>1. TypeInv'
    BY NextType DEF SInv
  <2>2. ASSUME NEW c \in Client, Connect(c) \/ Leave(c) \/ \E t \in TextsOf(c) : Send(c, t)
        PROVE  \A d \in Client \ Quoting : Standing(d)'
    BY <2>2, ConnectStands, LeaveStands, SendStands
  <2>3. EndOfFile => \A d \in Client \ Quoting : Standing(d)'
    BY EndSessionStands DEF EndOfFile
  <2>4. ASSUME UNCHANGED vars
        PROVE  \A d \in Client \ Quoting : Standing(d)'
    <3> SUFFICES ASSUME NEW d \in Client \ Quoting
                 PROVE  Standing(d)'
      OBVIOUS
    <3>1. UNCHANGED <<conn, net, sent, serving, stmt, request, answer, done>>
      BY <2>4 DEF vars, netVars
    <3>2. Unread(d)' = Unread(d) /\ (Here(d)' <=> Here(d)) /\ (Busy(d)' <=> Busy(d)) /\ Standing(d)
      BY <3>1 DEF Unread, Here, Busy, SInv
    <3> QED
      BY <3>1, <3>2, SameStanding
  <2>5. \A d \in Client \ Quoting : Standing(d)'
    BY <2>2, <2>3, <2>4, AcceptStands, ReadStands, ExecuteStands, ReplyStands DEF Next
  <2> QED
    BY <2>1, <2>5 DEF SInv
<1> QED
  BY <1>1, <1>2, PTL DEF Spec

\* ExecutesWhatWasSent, of readStatement and handleClient (ConnectionManager.cpp:54-91):
\* of a client without semicolons in its literals the engine executes the statements
\* it sent, each once and in order, however read() cuts the stream, whenever it
\* leaves and whatever the other clients send, semicolons in literals included, as
\* long as clients wait for an answer before they send again.
THEOREM ExecutesInOrder == ~Pipelined => (Spec => []ExecutesWhatWasSent)
<1>1. SInv => ExecutesWhatWasSent
  BY StandingIsPrefix DEF SInv, ExecutesWhatWasSent
<1> QED
  BY <1>1, Stands, PTL
=============================================================================
