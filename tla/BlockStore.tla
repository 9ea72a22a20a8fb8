------------------------------ MODULE BlockStore ------------------------------
(* What the page cache promises the file systems: a disk whose sectors are     *)
(* read and written one request after the other, each part of a request at one *)
(* moment.  PageCache.tla is shown to implement this.                          *)
EXTENDS Integers

CONSTANTS User,    \* the threads that read and write
          Sectors, \* the number of sectors of the disk
          Data,    \* what a sector may hold
          NoData

VARIABLES stored,  \* what each sector holds, as a reader must see it
          request, \* the part of each user's request that is still to be served
          answer   \* what each user has read so far

storeVars == <<stored, request, answer>>

Lba == 0..(Sectors - 1)
Ended(how) == [op |-> how, cur |-> 0, end |-> 0, val |-> NoData]
Outcome == {"done", "failed"}
NothingRead == [s \in Lba |-> NoData]

StoreInit == /\ stored \in [Lba -> Data]
             /\ request = [u \in User |-> Ended("done")]
             /\ answer = [u \in User |-> NothingRead]

(* u asks for sectors lo to hi - 1: to read them, or to write val into each. *)
Ask(u, op, lo, hi, val) ==
  /\ request[u].op \in Outcome
  /\ request' = [request EXCEPT ![u] = [op |-> op, cur |-> lo, end |-> hi, val |-> val]]
  /\ answer' = [answer EXCEPT ![u] = NothingRead]
  /\ UNCHANGED stored

(* The sectors up to n - 1 are read, or written, at this moment. *)
Serve(u, n) ==
  LET part == request[u].cur..(n - 1)
  IN  /\ request[u].op \in {"read", "write"}
      /\ n \in (request[u].cur + 1)..request[u].end
      /\ request' = [request EXCEPT ![u].cur = n]
      /\ IF request[u].op = "read"
         THEN /\ answer' = [answer EXCEPT ![u] =
                              [s \in Lba |-> IF s \in part THEN stored[s] ELSE @[s]]]
              /\ UNCHANGED stored
         ELSE /\ stored' = [s \in Lba |-> IF s \in part THEN request[u].val ELSE stored[s]]
              /\ UNCHANGED answer

(* A request succeeds when all of it was served; it may fail at any moment. *)
Return(u, how) ==
  /\ request[u].op \notin Outcome
  /\ how = "done" => request[u].cur = request[u].end
  /\ request' = [request EXCEPT ![u] = Ended(how)]
  /\ UNCHANGED <<stored, answer>>

(* Every step moves one request, so a step that moves none is a stutter. *)
StoreNext ==
  \E u \in User :
    /\ request'[u] # request[u]
    /\ \/ \E lo, hi \in 0..Sectors, v \in Data \cup {NoData}, op \in {"read", "write"} :
            Ask(u, op, lo, hi, v)
       \/ \E n \in 1..Sectors : Serve(u, n)
       \/ \E how \in Outcome : Return(u, how)

StoreSpec == StoreInit /\ [][StoreNext]_storeVars
=============================================================================
