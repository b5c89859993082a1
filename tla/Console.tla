------------------------------ MODULE Console ------------------------------
(***************************************************************************)
(* appender_console.cpp: threads that log to the console, or into the       *)
(* console buffer when it is enabled, threads that fetch from it, and the   *)
(* callback that may take the place of the device console.                  *)
(*                                                                          *)
(* The buffer is made by the first thread that needs it; several may try at *)
(* once.  Here a thread's own attempt is a buffer named after the thread.   *)
(* What the log buffer itself promises is the subject of LogBuffer: here it *)
(* takes an entry or refuses it, and gives the entries of a thread back in  *)
(* their order.  It expands when it is full (auto_expand_when_full), so the *)
(* entries of two threads may come in another order than they were put.     *)
(* enable_, console_callback_ and fetch_thread_id_ are plain variables.     *)
(***************************************************************************)
EXTENDS Naturals, FiniteSets, Sequences

CONSTANTS
    Loggers,        \* threads that run an appender's log
    Fetchers,       \* threads that fetch
    MaxLogged,      \* bound on the entries
    MaxNotes,       \* bound on messages of the library itself
    MaxSwitches,    \* bound on set_enable
    MaxCallbacks,   \* bound on registering and unregistering
    MaxRefused      \* bound on entries the log buffer does not take

VARIABLES
    con,    \* enable, buffer, callback, fetcher, and each thread's part of the buffers
    lg,     \* the logging threads: place, buffer in hand, text, thread-local data
    ft,     \* the fetching threads: place, and whose entry is lent to it
    seen,   \* ghosts: taken by the buffer and fetched of each thread, told to the
            \* callback, shown
    did     \* counters of the bounds
convars == <<con, lg, ft, seen, did>>

Nobody == "nobody"
ASSUME ConsoleAssumption == Nobody \notin Loggers \cup Fetchers
NoEntry == [by |-> Nobody, n |-> 0]
Fetcher0 == [at |-> "idle", of |-> Nobody]
Logger0 == [at |-> "idle", buf |-> Nobody, text |-> NoEntry, tls |-> NoEntry, n |-> 0]

ConInit ==
    /\ con  = [enable |-> FALSE, buf |-> Nobody, live |-> {},
               data |-> [b \in Loggers |-> [t \in Loggers |-> <<>>]],
               cb |-> FALSE, out |-> FALSE, fetcher |-> Nobody, mutex |-> FALSE]
    /\ lg   = [t \in Loggers |-> Logger0]
    /\ ft   = [t \in Fetchers |-> Fetcher0]
    /\ seen = [taken |-> [t \in Loggers |-> <<>>], fetched |-> [t \in Loggers |-> <<>>],
               told |-> {}, shown |-> {}, crossed |-> FALSE]
    /\ did  = [logged |-> 0, notes |-> 0, switches |-> 0, callbacks |-> 0, refused |-> 0]

Step(t, p)  == lg' = [lg EXCEPT ![t].at = p]
Done(c)     == did' = [did EXCEPT ![c] = @ + 1]
-----------------------------------------------------------------------------
(* log_impl: the thread-local data is set, then the enable flag decides *)
console_log(t) ==
    LET e == [by |-> t, n |-> lg[t].n + 1] IN
    /\ lg[t].at = "idle" /\ did.logged < MaxLogged /\ Done("logged")
    /\ lg' = [lg EXCEPT ![t] = [at |-> IF con.enable THEN "insert" ELSE "print", buf |-> Nobody,
                                text |-> e, tls |-> e, n |-> e.n]]
    /\ UNCHANGED <<con, ft, seen>>

(* insert: the flag again, then the buffer, which may be missing *)
insert_entry(t) ==
    /\ lg[t].at = "insert"
    /\ lg' = [lg EXCEPT ![t].at  = IF ~con.enable THEN "idle" ELSE IF con.buf = Nobody THEN "create" ELSE "put",
                        ![t].buf = con.buf]
    /\ UNCHANGED <<con, ft, seen, did>>

(* mutant of create_buffer: the thread that came second keeps what it made *)
create_buffer_own(t) ==
    /\ lg[t].at = "create" /\ lg' = [lg EXCEPT ![t].at = "put", ![t].buf = t]
    /\ con' = [con EXCEPT !.buf = IF @ = Nobody THEN t ELSE @, !.live = @ \cup {t}]
    /\ UNCHANGED <<ft, seen, did>>

(* a log buffer is made and put in place, or deleted again when another       *)
(* thread was first                                                          *)
create_buffer(t) ==
    LET first == con.buf = Nobody IN
    /\ lg[t].at = "create"
    /\ con' = [con EXCEPT !.buf = IF first THEN t ELSE @, !.live = IF first THEN {t} ELSE @]
    /\ lg'  = [lg EXCEPT ![t].at = "put", ![t].buf = con'.buf]
    /\ UNCHANGED <<ft, seen, did>>

(* alloc_write_chunk, the copy and commit_write_chunk; a refused entry is not *)
(* tried again, whatever the reason.  It goes to the shared ring or, when that *)
(* is full, to a block of the thread                                         *)
put_entry(t) ==
    /\ lg[t].at = "put" /\ Step(t, "idle")
    /\ \/ /\ con'  = [con EXCEPT !.data[lg[t].buf][t] = Append(@, lg[t].text)]
          /\ seen' = [seen EXCEPT !.taken[t] = Append(@, lg[t].text)]
          /\ UNCHANGED did
       \/ did.refused < MaxRefused /\ Done("refused") /\ UNCHANGED <<con, seen>>
    /\ UNCHANGED ft

(* log_device_console of the library itself, recovery markers included: the   *)
(* thread-local data stays what the thread's last entry left                 *)
console_note(t) ==
    /\ lg[t].at = "idle" /\ did.notes < MaxNotes /\ Done("notes")
    /\ lg' = [lg EXCEPT ![t].at = "print", ![t].text = NoEntry]
    /\ UNCHANGED <<con, ft, seen>>

(* log_device_console_plain_text: to the device, or to the dispatcher, which  *)
(* looks whether there is a callback                                         *)
print(t) ==
    /\ lg[t].at = "print"
    /\ IF con.out /\ con.cb THEN Step(t, "call") /\ UNCHANGED seen
       ELSE Step(t, "idle") /\ seen' = [seen EXCEPT !.shown = @ \cup {lg[t].text}]
    /\ UNCHANGED <<con, ft, did>>

(* the call, with the thread-local data, which is then cleared.  The pointer  *)
(* may be read again after the test: then the callback must still be there,  *)
(* and a thread that finds it gone stops for good.                           *)
call_back(t) ==
    \E again \in BOOLEAN :
        /\ lg[t].at = "call"
        /\ lg' = [lg EXCEPT ![t].at = IF again /\ ~con.cb THEN "null_call" ELSE "idle", ![t].tls = NoEntry]
        /\ seen' = IF again /\ ~con.cb THEN seen
                   ELSE [seen EXCEPT !.told = @ \cup {[text |-> lg[t].text, tls |-> lg[t].tls]}]
        /\ UNCHANGED <<con, ft, did>>

(* register_callback under its lock: the callback, then the dispatcher *)
register_callback ==
    /\ ~con.mutex /\ did.callbacks < MaxCallbacks /\ Done("callbacks")
    /\ con' = [con EXCEPT !.mutex = TRUE, !.cb = ~@] /\ UNCHANGED <<lg, ft, seen>>

set_console_output_callback ==
    /\ con.mutex /\ con' = [con EXCEPT !.mutex = FALSE, !.out = con.cb] /\ UNCHANGED <<lg, ft, seen, did>>

set_enable ==
    /\ did.switches < MaxSwitches /\ Done("switches")
    /\ con' = [con EXCEPT !.enable = ~@] /\ UNCHANGED <<lg, ft, seen>>
-----------------------------------------------------------------------------
(* fetch_and_remove: the first thread to ask becomes the only one; the test   *)
(* and the assignment are two steps                                          *)
fetch(t) ==
    /\ ft[t].at = "idle" /\ con.enable /\ con.fetcher \in {Nobody, t}
    /\ ft' = [ft EXCEPT ![t].at = IF con.fetcher = Nobody THEN "claim" ELSE "read"]
    /\ UNCHANGED <<con, lg, seen, did>>

claim(t) ==
    /\ ft[t].at = "claim" /\ ft' = [ft EXCEPT ![t].at = "read"]
    /\ con' = [con EXCEPT !.fetcher = t] /\ seen' = [seen EXCEPT !.crossed = @ \/ con.fetcher # Nobody]
    /\ UNCHANGED <<lg, did>>

(* read_chunk and the callback: the oldest entry of some thread is lent, or   *)
(* none is found, because there is no buffer, no entry, or only one that the *)
(* log buffer passes over this time                                          *)
read_entry(t) ==
    /\ ft[t].at = "read"
    /\ \/ \E u \in Loggers :
            /\ con.buf # Nobody /\ con.data[con.buf][u] # <<>>
            /\ ft' = [ft EXCEPT ![t] = [at |-> "return", of |-> u]]
            /\ seen' = [seen EXCEPT !.fetched[u] = Append(@, Head(con.data[con.buf][u]))]
       \/ ft' = [ft EXCEPT ![t] = Fetcher0] /\ UNCHANGED seen
    /\ UNCHANGED <<con, lg, did>>

return_entry(t) ==
    /\ ft[t].at = "return" /\ ft' = [ft EXCEPT ![t] = Fetcher0]
    /\ con' = [con EXCEPT !.data[con.buf][ft[t].of] = IF @ = <<>> THEN @ ELSE Tail(@)]
    /\ UNCHANGED <<lg, seen, did>>

ConNext ==
    \/ \E t \in Loggers : \/ console_log(t) \/ insert_entry(t) \/ create_buffer(t) \/ put_entry(t)
                          \/ console_note(t) \/ print(t) \/ call_back(t)
    \/ \E t \in Fetchers : fetch(t) \/ claim(t) \/ read_entry(t) \/ return_entry(t)
    \/ register_callback \/ set_console_output_callback \/ set_enable

ConSpec == ConInit /\ [][ConNext]_convars
-----------------------------------------------------------------------------
(* what the buffer still owes of a thread: the entry that is lent is fetched *)
Lent(u) == \E t \in Fetchers : ft[t].at = "return" /\ ft[t].of = u
Left(u) ==
    IF con.buf = Nobody THEN <<>>
    ELSE IF Lent(u) THEN Tail(con.data[con.buf][u]) ELSE con.data[con.buf][u]

(* However many threads make the buffer at once, one buffer is left and every *)
(* entry it took is fetched once, those of a thread in the order it put them, *)
(* unless two threads passed the fetching test together; an entry goes to    *)
(* the buffer or to the console, never to both, and the callback is told its *)
(* log and length (console_buffer::insert, fetch_and_remove, log_impl, the   *)
(* dispatcher).                                                              *)
ConsoleExact ==
    LET entries == UNION {{seen.taken[t][i] : i \in DOMAIN seen.taken[t]} : t \in Loggers}
        printed == (seen.shown \cup {c.text : c \in seen.told}) \ {NoEntry}
    IN  /\ con.live \subseteq {con.buf}
        /\ ~seen.crossed => \A t \in Loggers : seen.taken[t] = seen.fetched[t] \o Left(t)
        /\ entries \cap printed = {}
        /\ \A c \in seen.told : c.text # NoEntry => c.tls = c.text
=============================================================================
