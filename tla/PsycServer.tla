----------------------------- MODULE PsycServer -----------------------------
(***************************************************************************)
(* The server of the test programs: test_server() of test/test.c, a select *)
(* loop that gives what each connection sends to test_input().             *)
(*                                                                         *)
(* What belongs to a connection, its parser, its packet and its socket, is *)
(* kept in arrays by descriptor.  PsycReceiver's variables are those of    *)
(* the connection at hand; saved has the others.  Shared by all are the    *)
(* receive buffer and, in front of it, the bytes kept: contbuf is global.  *)
(*                                                                         *)
(* Between two inputs any connection may be the next one.                  *)
(***************************************************************************)
EXTENDS PsycReceiver

CONSTANTS NUM_PARSERS,   \* the size of the arrays
          Clients        \* sequences of what the clients that connect will send

ASSUME ServerAssumption == NUM_PARSERS \in Nat \ {0}

VARIABLES
  conn,     \* the descriptor at hand, or that of the listener
  open,     \* descriptors of connections in the set master
  fdmax,
  saved,    \* what is kept by descriptor
  clients,  \* those who will still connect
  owner     \* the connection whose bytes are in contbuf, or the listener

connVars   == <<state, packet, slot, unsent, sent, wire, delivered, echo>>
inputVars  == <<buffer, pc, pos, length, outVars, ret, contbuf, rx, mod, carried, owner>>
serverVars == <<vars, conn, open, fdmax, saved, clients, owner>>

listener    == 0
Descriptors == 1..NUM_PARSERS

\* Of the connection at hand.
Connection ==
  [state |-> state, packet |-> packet, slot |-> slot, unsent |-> unsent, sent |-> sent,
   wire |-> wire, delivered |-> delivered, echo |-> echo]

Load(c) ==
  /\ state' = c.state /\ packet' = c.packet /\ slot' = c.slot
  /\ unsent' = c.unsent /\ sent' = c.sent /\ wire' = c.wire
  /\ delivered' = c.delivered /\ echo' = c.echo

\* The socket is new; parser and packet are as the arrays have them.
Socket(c, packets) ==
  [c EXCEPT !.unsent = packets, !.sent = <<>>, !.wire = <<>>,
            !.delivered = <<>>, !.echo = <<>>]
test_init_ParserOnly(c) == [c EXCEPT !.state = psyc_parse_state_init(@.flags)]
test_init(c) ==
  [c EXCEPT !.state = psyc_parse_state_init(@.flags),
            !.packet = EmptyPacket, !.slot = EmptySlot]

Blank == Socket(test_init(Connection), <<>>)

\* The connection at hand goes back to the arrays.
SavedAll == [saved EXCEPT ![conn] = Connection]
-----------------------------------------------------------------------------
ServerInit ==
  /\ Init
  /\ conn = listener /\ open = {} /\ fdmax = listener /\ owner = listener
  /\ saved = [d \in {listener} \cup Descriptors |-> Blank]
  /\ clients \in Clients

\* Too many descriptors; fdmax never goes down.
Full_Late == fdmax = NUM_PARSERS
Full == fdmax = NUM_PARSERS - 1

\* A client connects, and is given the lowest descriptor that is free.
Accept ==
  /\ rx = "recv" /\ clients # <<>> /\ ~Full
  /\ LET fd == Min(Descriptors \ open)
     IN /\ open' = open \cup {fd} /\ conn' = fd
        /\ fdmax' = IF fd > fdmax THEN fd ELSE fdmax
        /\ Load(Socket(test_init(SavedAll[fd]), Head(clients)))
        /\ saved' = [SavedAll EXCEPT ![fd] = Blank]
  /\ clients' = Tail(clients)
  /\ UNCHANGED inputVars

\* The loop finds another connection that can be read.
Turn ==
  /\ rx = "recv"
  /\ \E d \in open \ {conn} :
       /\ conn' = d
       /\ Load(saved[d])
       /\ saved' = [SavedAll EXCEPT ![d] = Blank]
  /\ UNCHANGED <<inputVars, open, fdmax, clients>>

\* recv() returns 0: the client has hung up, and nothing that it has not sent yet
\* will come.  Or test_input has refused what came.  The socket is closed; the arrays
\* and contbytes stay as they are.
HangUp ==
  /\ rx \in {"recv", "closed"} /\ conn # listener
  /\ rx' = "recv"
  /\ open' = open \ {conn}
  /\ conn' = listener
  /\ Load(Blank)
  /\ saved' = [saved EXCEPT ![conn] = Socket(Connection, <<>>)]
  /\ owner' = IF owner = conn THEN listener ELSE owner
  /\ UNCHANGED <<buffer, pc, pos, length, outVars, ret, contbuf, mod, carried, fdmax,
                 clients>>

\* The sender writes while the server waits; test_input does not look at the wire.
Write ==
  /\ rx = "recv" /\ Send
  /\ UNCHANGED <<conn, open, fdmax, saved, clients, owner>>

\* test_input for bytes behind those that the same connection has left, or none.
Input ==
  /\ rx = "recv" => contbuf = <<>> \/ owner = conn
  /\ Receive
  /\ owner' = IF contbuf' = <<>> THEN listener ELSE conn
  /\ UNCHANGED <<conn, open, fdmax, saved, clients>>

\* Bytes of one connection are put before those of another.  What the parser makes
\* of them is not followed.
InputMixed ==
  /\ rx = "recv" /\ contbuf # <<>> /\ owner # conn /\ wire # <<>>
  /\ rx' = "mixed"
  /\ UNCHANGED <<parseVars, contbuf, packet, slot, mod, delivered, echo, unsent, sent,
                 wire, carried, conn, open, fdmax, saved, clients, owner>>

\* select() waits.
Wait == rx \in {"recv", "crashed", "mixed"} /\ UNCHANGED serverVars

ServerNext ==
  Accept \/ Turn \/ HangUp \/ Write \/ Input \/ InputMixed \/ Wait

ServerSpec == ServerInit /\ [][ServerNext]_serverVars
-----------------------------------------------------------------------------
\* Whatever turns the connections take, as long as the bytes kept for one are not
\* given to another, each is served as if it were the only one: what is delivered
\* for it is what its client sent, in order and whole, though parts of its packets
\* wait in the arrays while the others are served and though the one that had the
\* descriptor before may have hung up within a packet.
ConnectionsApart ==
  rx # "mixed" => DeliveredAsSent /\ EchoesBytes /\ NeverClosed

\* Every descriptor that is served has its place in the arrays.
DescriptorsFit == \A d \in open : d < NUM_PARSERS /\ d <= fdmax
=============================================================================
