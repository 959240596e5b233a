--------------------------- MODULE MCTcpRendezvous ---------------------------
(* Instance of TcpRendezvous for TLC.                                      *)
EXTENDS TcpRendezvous

(* The behaviours in which a late Rsync can reach a second connect(): the  *)
(* listeners stay, and of the others only the third connection may end.    *)
ListenersStay ==
  \A c \in Conns :
    /\ c <= count /\ c <= 2 => who[c] \in Listeners
    /\ c <= count /\ c > 2 => who[c] \in Connectors
    /\ c # 3 => phase[c] # "closed" /\ status[c] \in {"new", "running"}
    /\ sock[c] # "reset"

(* The behaviours in which two peers that both listen and connect can wait *)
(* for each other: connections 1 and 2 listen, 3 and 4 connect to them;    *)
(* nothing fails; requests are written in the order Pings, Isyncs, Rsyncs, *)
(* Pings; the Rsyncs are handled before the Isyncs have registered.        *)
Facing ==
  /\ \A c \in Conns :
       /\ status[c] \in {"new", "running"} /\ sock[c] = "open"
       /\ phase[c] \notin {"closed", "returned"}
       /\ c <= count => (phase[c] = "listening" <=> c <= 2)
  /\ count < 4 => sent <= 2
  /\ count > 2 => \A c \in {1, 2} :
       /\ peers[who[c]] = c
       /\ target[c + 2] \in {NoId, who[c]}
       /\ sent = 2 => pc[c] = "recv" /\ out[c] = <<>>
       /\ sent > 4 => <<who[c], c + 2>> \in tried
       /\ sent > 6 => reply[c] = NoId /\ pend[c] = <<>>
=============================================================================
