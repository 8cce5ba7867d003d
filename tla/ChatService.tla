----------------------------- MODULE ChatService -----------------------------
(***************************************************************************)
(* What the chat daemon promises to the shells, whatever happens between   *)
(* them: no channels, rounds, tools, models or worker thread.  A client    *)
(* tells the daemon something or asks and waits.  Only a client that waits *)
(* is answered: at most one announcement of speech, before everything      *)
(* else, then text, and one end; and only the end sends it back to its     *)
(* prompt.  How long the text is, and whether speech is announced, is left *)
(* to the daemon.                                                          *)
(***************************************************************************)
EXTENDS Naturals, Sequences

CONSTANTS
  Clients, Ids,
  MayHangUp     (* clients may leave an answer before its end            *)

VARIABLES
  alive,    (* the clients that run                                      *)
  waiting,  (* the request a client waits for, 0: none                   *)
  made,     (* the requests made                                         *)
  open,     (* those the daemon still works on                           *)
  answer    (* what it told of each, a run of texts counted once         *)

vars == <<alive, waiting, made, open, answer>>

Init ==
  /\ alive = Clients
  /\ waiting = [c \in Clients |-> 0]
  /\ made = {} /\ open = {}
  /\ answer = [r \in Ids |-> <<>>]
-----------------------------------------------------------------------------
(* Clients.                                                                *)

Request(c, r) ==
  /\ c \in alive /\ waiting[c] = 0 /\ r \notin made
  /\ made' = made \cup {r} /\ open' = open \cup {r}
  /\ UNCHANGED answer

Ask(c, r) ==
  /\ Request(c, r)
  /\ waiting' = [waiting EXCEPT ![c] = r]
  /\ UNCHANGED alive

(* A notice is not answered; it may be a client's last word.               *)
Tell(c, r) ==
  /\ Request(c, r)
  /\ alive' \in {alive, alive \ {c}}
  /\ UNCHANGED waiting

Die(c) ==
  /\ c \in alive
  /\ alive' = alive \ {c}
  /\ waiting' = [waiting EXCEPT ![c] = 0]
  /\ UNCHANGED <<made, open, answer>>

Ended(r) == answer[r] # <<>> /\ answer[r][Len(answer[r])] = "end"

HangUp(c) ==
  /\ MayHangUp /\ waiting[c] # 0
  /\ waiting' = [waiting EXCEPT ![c] = 0]
  /\ UNCHANGED <<alive, made, open, answer>>

Return(c, r) ==
  /\ waiting[c] = r /\ r \notin open /\ Ended(r)
  /\ waiting' = [waiting EXCEPT ![c] = 0]
  /\ UNCHANGED <<alive, made, open, answer>>
-----------------------------------------------------------------------------
(* The daemon.                                                             *)

Says(c, r, mark) ==
  /\ waiting[c] = r /\ r \in open
  /\ answer' = [answer EXCEPT ![r] = Append(@, mark)]
  /\ UNCHANGED <<alive, waiting, made>>

Announce(c, r) == answer[r] = <<>> /\ Says(c, r, "speaking") /\ UNCHANGED open
Write(c, r)    == Says(c, r, "text") /\ UNCHANGED open
Finish(c, r)   == Says(c, r, "end") /\ open' = open \ {r}

(* Nobody waits for the answer.                                            *)
Close(r) ==
  /\ r \in open /\ \A c \in Clients : waiting[c] # r
  /\ open' = open \ {r}
  /\ UNCHANGED <<alive, waiting, made, answer>>

Next ==
  \/ \E c \in Clients : Die(c) \/ HangUp(c)
  \/ \E c \in Clients, r \in Ids : Ask(c, r) \/ Tell(c, r) \/ Return(c, r)
  \/ \E c \in Clients, r \in Ids : Announce(c, r) \/ Write(c, r) \/ Finish(c, r)
  \/ \E r \in Ids : Close(r)

Spec == Init /\ [][Next]_vars
-----------------------------------------------------------------------------
(* The shape of an answer: "__SPEAKING__" comes before everything else,    *)
(* "__END__" once, at the end of a request that is over (main.rs, run of   *)
(* a connection; ai.c reads up to the end mark).                           *)
Shape ==
  \A r \in Ids : \A i \in DOMAIN answer[r] :
    /\ answer[r][i] = "speaking" => i = 1
    /\ answer[r][i] = "end" => i = Len(answer[r]) /\ r \notin open
=============================================================================
