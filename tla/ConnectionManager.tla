------------------------- MODULE ConnectionManager -------------------------
(***************************************************************************)
(* src/connectionManager/ConnectionManager.cpp: a listener that serves one *)
(* client after the other, reading statements up to a semicolon and        *)
(* sending each to the one QueryEngine of the process.                     *)
(*                                                                         *)
(* The text of a statement is two pieces, so that a read() can end inside  *)
(* it, and a semicolon follows; the blank statement is a semicolon alone.  *)
(* A string literal may have a semicolon of its own (Parser.cpp:53-64),    *)
(* between the two pieces.  The engine is reduced to what a connection can *)
(* tell: whether a transaction is open, and whether a statement is         *)
(* answered or throws.                                                     *)
(***************************************************************************)
EXTENDS Integers, Sequences, SequencesExt

CONSTANTS Client,
          Quoting,     \* the clients that may send a literal with a semicolon
          Statement,   \* kinds of statements the clients send
          MaxSent,     \* bound: statements a client sends
          Pipelined,   \* may a client send a statement before the last is answered?
          None

ASSUME ConnectionAssumption ==
  /\ Quoting \subseteq Client
  /\ Statement \subseteq {"BEGIN", "COMMIT", "ROLLBACK", "INSERT", "SELECT"}
  /\ MaxSent \in Nat /\ Pipelined \in BOOLEAN
  /\ None \notin Client \cup {"OK", "ROWS", "ERROR"}

VARIABLES
  conn,      \* conn[c]: "new", "open", "left" (by the client) or "closed" (by the server)
  backlog,   \* connections that wait for accept()
  serving,   \* the client handleClient has, or None
  net,       \* net[c]: bytes c has sent that no read() has taken
  stmt,      \* the local buffer of readStatement
  request,   \* the statement readStatement has returned, or None
  answer,    \* what the engine made of it, or None
  currentTx, \* QueryEngine::currentTxId_: the client that began it, or None
  up,        \* the process runs
  sent,      \* history: the statements c has sent
  done,      \* history: the statements of c the engine has executed
  replies    \* replies[c]: how many answers c has been sent

netVars == <<conn, backlog, net, sent>>
vars == <<netVars, serving, stmt, request, answer, currentTx, up, done, replies>>

Semicolon == [of |-> ";", piece |-> 0]

Text(s) == <<[of |-> s, piece |-> 1], [of |-> s, piece |-> 2]>>

Plain == {Text(s) : s \in Statement} \cup {<<>>}

\* The statements that have literals, with a semicolon in one.
Quoted == {<<Text(s)[1], Semicolon, Text(s)[2]>> : s \in Statement \cap {"INSERT", "SELECT"}}

TextsOf(c) == Plain \cup IF c \in Quoting THEN Quoted ELSE {}

Byte == [of : Statement, piece : {1, 2}] \cup {Semicolon}

ASSUME NoneAssumption == None \notin Seq(Byte)

TypeOK ==
  /\ conn \in [Client -> {"new", "open", "left", "closed"}]
  /\ backlog \in Seq(Client)
  /\ serving \in Client \cup {None}
  /\ net \in [Client -> Seq(Byte)]
  /\ stmt \in Seq(Byte \ {Semicolon})
  /\ request = None \/ request \in Seq(Byte \ {Semicolon}) \ {<<>>}
  /\ answer \in {None, "OK", "ROWS", "ERROR"}
  /\ currentTx \in Client \cup {None}
  /\ up \in BOOLEAN
  /\ sent \in [Client -> Seq(Plain \cup Quoted)]
  /\ done \in [Client -> Seq(Seq(Byte \ {Semicolon}))]
  /\ replies \in [Client -> Nat]
  /\ \A c \in Client : replies[c] <= Len(done[c])

Init ==
  /\ conn = [c \in Client |-> "new"]
  /\ backlog = <<>>
  /\ serving = None
  /\ net = [c \in Client |-> <<>>]
  /\ stmt = <<>>
  /\ request = None /\ answer = None
  /\ currentTx = None
  /\ up = TRUE
  /\ sent = [c \in Client |-> <<>>]
  /\ done = [c \in Client |-> <<>>]
  /\ replies = [c \in Client |-> 0]

-----------------------------------------------------------------------------
(* The clients.                                                             *)

Connect(c) ==
  /\ up /\ conn[c] = "new"
  /\ conn' = [conn EXCEPT ![c] = "open"]
  /\ backlog' = Append(backlog, c)
  /\ UNCHANGED <<net, sent, serving, stmt, request, answer, currentTx, up, done, replies>>

Send(c, text) ==
  /\ up /\ conn[c] = "open"
  /\ Len(sent[c]) < MaxSent
  /\ Pipelined \/ replies[c] >= Len(sent[c])
  /\ net' = [net EXCEPT ![c] = @ \o text \o <<Semicolon>>]
  /\ sent' = [sent EXCEPT ![c] = Append(@, text)]
  /\ UNCHANGED <<conn, backlog, serving, stmt, request, answer, currentTx, up, done, replies>>

\* The client ends or is cut off, possibly inside a statement.
Leave(c) ==
  /\ up /\ conn[c] = "open"
  /\ conn' = [conn EXCEPT ![c] = "left"]
  /\ \E t \in TextsOf(c) : \E n \in 0 .. Len(t) : net' = [net EXCEPT ![c] = @ \o SubSeq(t, 1, n)]
  /\ UNCHANGED <<backlog, sent, serving, stmt, request, answer, currentTx, up, done, replies>>

-----------------------------------------------------------------------------
(* The server: run, handleClient, readStatement.                            *)

\* Faulty: takes a new client before the last one has gone.
AcceptAlways ==
  /\ up /\ backlog # <<>>
  /\ request = None
  /\ serving' = Head(backlog)
  /\ backlog' = Tail(backlog)
  /\ UNCHANGED <<conn, net, sent, stmt, request, answer, currentTx, up, done, replies>>

Accept ==
  /\ up /\ backlog # <<>>
  /\ serving = None
  /\ serving' = Head(backlog)
  /\ backlog' = Tail(backlog)
  /\ UNCHANGED <<conn, net, sent, stmt, request, answer, currentTx, up, done, replies>>

Reading == up /\ serving # None /\ request = None

\* Faulty: the buffer outlives the connection.
EndSessionKeepingBuffer ==
  /\ conn' = [conn EXCEPT ![serving] = "closed"]
  /\ net' = [net EXCEPT ![serving] = <<>>]
  /\ serving' = None
  /\ UNCHANGED <<stmt, request>>

\* handleClient returns and run closes the socket; an open transaction stays open.
EndSession ==
  /\ conn' = [conn EXCEPT ![serving] = "closed"]
  /\ net' = [net EXCEPT ![serving] = <<>>]
  /\ serving' = None
  /\ stmt' = <<>>
  /\ UNCHANGED request

\* Faulty: the semicolon belongs to the text.
TextThrough(bytes) ==
  LET at == CHOOSE i \in DOMAIN bytes :
              bytes[i] = Semicolon /\ \A j \in 1 .. i - 1 : bytes[j] # Semicolon
  IN  SubSeq(bytes, 1, at)

\* The text up to the first semicolon.
TextBefore(bytes) ==
  LET at == CHOOSE i \in DOMAIN bytes :
              bytes[i] = Semicolon /\ \A j \in 1 .. i - 1 : bytes[j] # Semicolon
  IN  SubSeq(bytes, 1, at - 1)

\* read() takes some of the bytes there are.  With the semicolon of a statement the
\* function returns it, and the bytes behind go with the local buffer; a blank
\* statement is returned as "", which to handleClient is the end of the connection.
Read ==
  /\ Reading
  /\ \E n \in 1 .. Len(net[serving]) :
       LET bytes == stmt \o SubSeq(net[serving], 1, n)
           rest  == SubSeq(net[serving], n + 1, Len(net[serving]))
       IN  IF Contains(bytes, Semicolon)
           THEN IF TextBefore(bytes) = <<>> THEN EndSession
                ELSE /\ request' = TextBefore(bytes)
                     /\ stmt' = <<>>
                     /\ net' = [net EXCEPT ![serving] = rest]
                     /\ UNCHANGED <<conn, serving>>
           ELSE /\ stmt' = bytes
                /\ net' = [net EXCEPT ![serving] = rest]
                /\ UNCHANGED <<conn, serving, request>>
  /\ UNCHANGED <<backlog, sent, answer, currentTx, up, done, replies>>

\* read() returns 0: what was read of a statement is dropped.
EndOfFile ==
  /\ Reading
  /\ conn[serving] = "left" /\ net[serving] = <<>>
  /\ EndSession
  /\ UNCHANGED <<backlog, sent, answer, currentTx, up, done, replies>>

\* QueryEngine::executeQuery, by the kind of the statement.  A text that is no
\* statement throws, a piece of one too (the literal it was cut in has no end);
\* a statement inside a transaction may.
Execute ==
  /\ up /\ request # None /\ answer = None
  /\ LET Is(s) == request = Text(s)
         Outcome(a, tx) == answer' = a /\ currentTx' = tx
     IN  \/ Is("BEGIN") /\ currentTx = None /\ Outcome("OK", serving)
         \/ (Is("COMMIT") \/ Is("ROLLBACK")) /\ currentTx # None /\ Outcome("OK", None)
         \/ Is("INSERT") /\ currentTx # None /\ Outcome("OK", currentTx)
         \/ Is("SELECT") /\ \E a \in {"OK", "ROWS"} : Outcome(a, currentTx)
         \/ Is("BEGIN") /\ currentTx # None /\ Outcome("ERROR", currentTx)
         \/ (Is("COMMIT") \/ Is("ROLLBACK")) /\ currentTx = None /\ Outcome("ERROR", None)
         \/ (Is("INSERT") \/ Is("SELECT")) /\ Outcome("ERROR", currentTx)
         \/ (\A s \in Statement : ~Is(s)) /\ Outcome("ERROR", currentTx)
  /\ done' = [done EXCEPT ![serving] = Append(@, request)]
  /\ UNCHANGED <<netVars, serving, stmt, request, up, replies>>

\* Faulty: an exception is not answered.
ReplyUnlessError ==
  /\ up /\ answer # None
  /\ request' = None /\ answer' = None
  /\ IF conn[serving] = "open" /\ answer # "ERROR"
     THEN replies' = [replies EXCEPT ![serving] = @ + 1] /\ UNCHANGED up
     ELSE UNCHANGED <<replies, up>>
  /\ UNCHANGED <<netVars, serving, stmt, currentTx, done>>

\* A write() to a client that has left is lost, or raises SIGPIPE, which nothing
\* handles or ignores: then the process ends.
Reply ==
  /\ up /\ answer # None
  /\ request' = None /\ answer' = None
  /\ IF conn[serving] = "open"
     THEN replies' = [replies EXCEPT ![serving] = @ + 1] /\ UNCHANGED up
     ELSE UNCHANGED replies /\ up' \in BOOLEAN
  /\ UNCHANGED <<netVars, serving, stmt, currentTx, done>>

Server == Accept \/ Read \/ EndOfFile \/ Execute \/ Reply

Next ==
  \/ \E c \in Client : Connect(c) \/ Leave(c) \/ \E t \in TextsOf(c) : Send(c, t)
  \/ Accept \/ Read \/ EndOfFile \/ Execute \/ Reply

\* The one thread of the server goes on as long as the process runs and no call
\* blocks it; the clients owe it nothing.
Spec == Init /\ [][Next]_vars /\ WF_vars(Server)

-----------------------------------------------------------------------------
\* The statements the engine executes for a client are the ones it sent, each
\* once and in order, however read() cuts the stream (ConnectionManager.h:29:
\* "Reads up to the next semicolon-terminated SQL statement") and whatever another
\* client has sent before: of clients that put no semicolon into a literal.  For the
\* others it is false, since readStatement cuts at the first ';' of any kind.
ExecutesWhatWasSent ==
  \A c \in Client \ Quoting : IsPrefix(done[c], sent[c])

\* While a client with an open transaction is connected nobody else's statement
\* is executed: what run() gives for isolation by serving one client at a time.
TransactionsDoNotInterleave ==
  \A c \in Client : currentTx = c /\ conn[c] # "closed" => serving = c

\* A client whose statement has come is answered, with an error if need be, or
\* its connection or the process ends; the server never waits for a client that
\* waits for it.  (A statement cut in two may be answered twice.)
EveryStatementAnswered ==
  \A c \in Client :
    (serving = c /\ replies[c] < Len(sent[c])) ~>
      (replies[c] >= Len(sent[c]) \/ conn[c] # "open" \/ ~up)
=============================================================================
