-------------------------- MODULE AppenderFileProofs --------------------------
(***************************************************************************)
(* The write cache of a text file appender stays within its bound, and     *)
(* nothing in it is lost unless a write or an open failed, for every size  *)
(* of the cache, number of entries, faults, crashes and rolled files.      *)
(*                                                                         *)
(* CacheBounded says nothing of the call in progress, so it is not         *)
(* inductive.  What is left of a call is a part of a flush and then one of *)
(* a few rests; Place says for each of them how full the cache may be, how *)
(* many markers in it no entry has finished yet, and that a cache larger   *)
(* than its target means that the disk was found full.  Lossless says for  *)
(* the same places when the cache must have been written.                  *)
(***************************************************************************)
EXTENDS AppenderFile, FiniteSetTheorems, WellFoundedInduction, SequenceTheorems, TLAPS

\* What may be left of a flush, in front of the rest of the call.
Flush == [no |-> <<>>, flush |-> <<"flush">>, keep |-> <<"keep", "count">>,
          count |-> <<"count">>, open |-> <<"open">>]
FlushNames == {"no", "flush", "keep", "count", "open"}

\* The rests of the calls.
Rest ==
  [idle          |-> <<>>,
   refresh_log   |-> <<"refresh", "log">>,
   open_log      |-> <<"open", "log">>,
   log           |-> <<"log">>,
   log_recovered |-> <<"log_recovered">>,
   end           |-> <<"end", "flush", "refresh", "log">>,
   store_end     |-> <<"store_end", "flush", "refresh", "log">>,
   refresh_start |-> <<"refresh", "start", "log_recovered">>,
   open_start    |-> <<"open", "start", "log_recovered">>,
   start         |-> <<"start", "log_recovered">>,
   store_start   |-> <<"store_start", "log_recovered">>,
   refresh_entry |-> <<"refresh", "entry">>,
   open_entry    |-> <<"open", "entry">>,
   entry         |-> <<"entry">>,
   store         |-> <<"store">>,
   recover       |-> <<"recover", "flush", "recovered">>,
   recovered     |-> <<"recovered">>,
   exit          |-> <<"exit">>]
EndRests == {"end", "store_end"}
StartRests == {"refresh_start", "open_start", "start", "store_start"}
RecoverRests == {"recover", "recovered"}
RestNames == {"idle", "refresh_log", "open_log", "log", "log_recovered", "refresh_entry",
              "open_entry", "entry", "store", "exit"}
               \cup EndRests \cup StartRests \cup RecoverRests

Extra == IF Recovers THEN 1 ELSE 0

\* While the appender works, the cache is larger than its target only if the
\* disk was full, and without a file there is next to nothing in it.  Its use is
\* c, of which n is finished; cp is its size, fl the file, rc the recovery
\* status, d whether the disk was full, a the number of accepted entries.
Work(k, c, n, cp, d, fl, rc, a) ==
  /\ d = "fine" => cp = Target
  /\ c <= n + 2
  /\ fl = 0 => c <= 2 + Extra
  /\ rc = "in_recovering" \/ k \in EndRests =>
       Recovers /\ c <= n + 1 /\ c <= Target + 2 /\ (fl = 0 => c <= 2)
  /\ rc = "not_started" => c = 0 /\ k = "idle" /\ fl = 0
  /\ k \in StartRests => c = 0 /\ rc = "in_recovering"
  /\ k = "log_recovered" => rc = "in_recovering"
  /\ k \in EndRests => rc = "recovered"
  /\ k # "idle" => a < MaxEntries

\* What an entry or a marker that is on its way into the cache will meet.
Way(f, k, c, d, fl) ==
  /\ k = "refresh_entry" => f = "no" /\ d = "fine"
  /\ k = "entry" => f = "no" /\ (d = "fine" \/ c = 0) /\ (fl = 0 => c = 0)
  /\ k = "store" => /\ c <= Target
                    /\ f = "flush" => fl # 0
                    /\ f = "no" => (d = "full" \/ c + 2 <= Target) /\ (fl = 0 => c = 0)
  /\ k = "end" => f = "no"
  /\ k = "store_end" /\ f = "no" => d = "full" \/ c + 1 <= Target

\* r and e are what the running write said.
Place(f, k, c, n, cp, d, fl, rc, a, r, e) ==
  /\ IF f \in {"keep", "count"} THEN fl # 0 /\ (e = "none" => r = n) ELSE r = 0 /\ e = "none"
  /\ k \in RecoverRests => rc = "not_started"
  /\ k \notin RecoverRests \cup {"exit"} => Work(k, c, n, cp, d, fl, rc, a) /\ Way(f, k, c, d, fl)
  /\ k = "idle" /\ rc = "not_started" => f = "no"

Disk == IF drop THEN "full" ELSE "fine"
Called(f, k) ==
  /\ todo = Flush[f] \o Rest[k]
  /\ Place(f, k, Cursor, mm.finished, cap, Disk, file, rec, Cardinality(accepted), io.real, io.err)

Dead ==
  /\ todo = <<>> /\ file = 0 /\ drop = FALSE /\ rec = "not_started" /\ listed = FALSE
  /\ io.real = 0 /\ io.err = "none"

\* The texts of accepted entries, and the types.
Units(A) == (A \cup {0}) \X {1, 2}
Errs == {"none", "full", "other"}
Known ==
  /\ Cardinality(accepted) \in 0 .. MaxEntries /\ accepted = 1 .. Cardinality(accepted)
  /\ files \in Seq(Seq(Units(accepted)))
  /\ mm \in [cells : Seq(Units(accepted)), finished : Nat, path : Nat]
  /\ io \in [real : Nat, err : Errs]
  /\ cap \in Nat /\ file \in 0 .. Len(files) /\ mm.path <= Len(files)
  /\ rec \in {"not_started", "in_recovering", "recovered"}
  /\ drop \in BOOLEAN /\ listed \in BOOLEAN /\ alive \in BOOLEAN
  /\ given_up \subseteq accepted /\ repeated \subseteq accepted /\ spoiled \subseteq accepted

Sizes(c, n, cp, r) ==
  /\ r <= n /\ n <= c /\ c <= cp /\ Target <= cp
  /\ c <= Target + 2 + Extra

Inv ==
  /\ Known
  /\ Sizes(Cursor, mm.finished, cap, io.real)
  /\ ~alive => Dead
  /\ alive => \E f \in FlushNames, k \in RestNames : Called(f, k)

\* The first step of what is left of a call says which rest it is, and what is
\* left after that step.
Spot(h, f, k, t) ==
  /\ h = "flush" => f = "flush" /\ t = Rest[k]
  /\ h = "keep" => f = "keep" /\ t = Flush["count"] \o Rest[k]
  /\ h = "count" => f = "count" /\ t = Rest[k]
  /\ h = "refresh" => \/ f = "no" /\ k = "refresh_log" /\ t = Rest["log"]
                      \/ f = "no" /\ k = "refresh_start" /\ t = Rest["start"]
                      \/ f = "no" /\ k = "refresh_entry" /\ t = Rest["entry"]
  /\ h = "open" => \/ f = "open" /\ t = Rest[k]
                   \/ f = "no" /\ k = "open_log" /\ t = Rest["log"]
                   \/ f = "no" /\ k = "open_start" /\ t = Rest["start"]
                   \/ f = "no" /\ k = "open_entry" /\ t = Rest["entry"]
  /\ h = "log" => f = "no" /\ k = "log" /\ t = Rest["idle"]
  /\ h = "log_recovered" => f = "no" /\ k = "log_recovered" /\ t = Rest["idle"]
  /\ h = "end" => f = "no" /\ k = "end" /\ t = Flush["flush"] \o Rest["refresh_log"]
  /\ h = "store_end" => f = "no" /\ k = "store_end" /\ t = Flush["flush"] \o Rest["refresh_log"]
  /\ h = "start" => f = "no" /\ k = "start" /\ t = Rest["log_recovered"]
  /\ h = "store_start" => f = "no" /\ k = "store_start" /\ t = Rest["log_recovered"]
  /\ h = "entry" => f = "no" /\ k = "entry" /\ t = Rest["idle"]
  /\ h = "store" => f = "no" /\ k = "store" /\ t = Rest["idle"]
  /\ h = "recover" => f = "no" /\ k = "recover" /\ t = Flush["flush"] \o Rest["recovered"]
  /\ h = "recovered" => f = "no" /\ k = "recovered" /\ t = Rest["idle"]
  /\ h = "exit" => f = "no" /\ k = "exit" /\ t = Rest["idle"]

LEMMA RestIs ==
  ASSUME NEW k \in RestNames
  PROVE  /\ Rest[k] \in Seq(Steps)
         /\ Rest[k] = <<>> <=> k = "idle"
         /\ Rest[k] # <<>> => Spot(Head(Rest[k]), "no", k, Tail(Rest[k]))
  <1>1. CASE k = "idle"
    <2>1. Rest[k] = <<>>
      BY <1>1 DEF Rest
    <2>2. Rest[k] \in Seq(Steps)
      BY <2>1
    <2> QED BY <1>1, <2>1, <2>2
  <1>2. CASE k = "refresh_log"
    <2>1. Rest[k] = <<"refresh", "log">>
      BY <1>2 DEF Rest
    <2>2. Rest[k] \in Seq(Steps) /\ Rest[k] # <<>> /\ Head(Rest[k]) = "refresh"
      BY <2>1 DEF Steps
    <2>3. Tail(Rest[k]) = Rest["log"]
      <3>1. Rest["log"] = <<"log">>
        BY DEF Rest
      <3> QED BY <2>1, <3>1
    <2> QED BY <1>2, <2>2, <2>3 DEF Spot
  <1>3. CASE k = "open_log"
    <2>1. Rest[k] = <<"open", "log">>
      BY <1>3 DEF Rest
    <2>2. Rest[k] \in Seq(Steps) /\ Rest[k] # <<>> /\ Head(Rest[k]) = "open"
      BY <2>1 DEF Steps
    <2>3. Tail(Rest[k]) = Rest["log"]
      <3>1. Rest["log"] = <<"log">>
        BY DEF Rest
      <3> QED BY <2>1, <3>1
    <2> QED BY <1>3, <2>2, <2>3 DEF Spot
  <1>4. CASE k = "log"
    <2>1. Rest[k] = <<"log">>
      BY <1>4 DEF Rest
    <2>2. Rest[k] \in Seq(Steps) /\ Rest[k] # <<>> /\ Head(Rest[k]) = "log"
      BY <2>1 DEF Steps
    <2>3. Tail(Rest[k]) = Rest["idle"]
      <3>1. Rest["idle"] = <<>>
        BY DEF Rest
      <3> QED BY <2>1, <3>1
    <2> QED BY <1>4, <2>2, <2>3 DEF Spot
  <1>5. CASE k = "log_recovered"
    <2>1. Rest[k] = <<"log_recovered">>
      BY <1>5 DEF Rest
    <2>2. Rest[k] \in Seq(Steps) /\ Rest[k] # <<>> /\ Head(Rest[k]) = "log_recovered"
      BY <2>1 DEF Steps
    <2>3. Tail(Rest[k]) = Rest["idle"]
      <3>1. Rest["idle"] = <<>>
        BY DEF Rest
      <3> QED BY <2>1, <3>1
    <2> QED BY <1>5, <2>2, <2>3 DEF Spot
  <1>6. CASE k = "end"
    <2>1. Rest[k] = <<"end", "flush", "refresh", "log">>
      BY <1>6 DEF Rest
    <2>2. Rest[k] \in Seq(Steps) /\ Rest[k] # <<>> /\ Head(Rest[k]) = "end"
      BY <2>1 DEF Steps
    <2>3. Tail(Rest[k]) = Flush["flush"] \o Rest["refresh_log"]
      <3>1. Flush["flush"] = <<"flush">>
        BY DEF Flush
      <3>2. Rest["refresh_log"] = <<"refresh", "log">>
        BY DEF Rest
      <3>3. <<"flush", "refresh", "log">> = <<"flush">> \o <<"refresh", "log">>
        OBVIOUS
      <3>4. Tail(Rest[k]) = <<"flush", "refresh", "log">>
        BY <2>1
      <3> QED BY <3>1, <3>2, <3>3, <3>4
    <2> QED BY <1>6, <2>2, <2>3 DEF Spot
  <1>7. CASE k = "store_end"
    <2>1. Rest[k] = <<"store_end", "flush", "refresh", "log">>
      BY <1>7 DEF Rest
    <2>2. Rest[k] \in Seq(Steps) /\ Rest[k] # <<>> /\ Head(Rest[k]) = "store_end"
      BY <2>1 DEF Steps
    <2>3. Tail(Rest[k]) = Flush["flush"] \o Rest["refresh_log"]
      <3>1. Flush["flush"] = <<"flush">>
        BY DEF Flush
      <3>2. Rest["refresh_log"] = <<"refresh", "log">>
        BY DEF Rest
      <3>3. <<"flush", "refresh", "log">> = <<"flush">> \o <<"refresh", "log">>
        OBVIOUS
      <3>4. Tail(Rest[k]) = <<"flush", "refresh", "log">>
        BY <2>1
      <3> QED BY <3>1, <3>2, <3>3, <3>4
    <2> QED BY <1>7, <2>2, <2>3 DEF Spot
  <1>8. CASE k = "refresh_start"
    <2>1. Rest[k] = <<"refresh", "start", "log_recovered">>
      BY <1>8 DEF Rest
    <2>2. Rest[k] \in Seq(Steps) /\ Rest[k] # <<>> /\ Head(Rest[k]) = "refresh"
      BY <2>1 DEF Steps
    <2>3. Tail(Rest[k]) = Rest["start"]
      <3>1. Rest["start"] = <<"start", "log_recovered">>
        BY DEF Rest
      <3> QED BY <2>1, <3>1
    <2> QED BY <1>8, <2>2, <2>3 DEF Spot
  <1>9. CASE k = "open_start"
    <2>1. Rest[k] = <<"open", "start", "log_recovered">>
      BY <1>9 DEF Rest
    <2>2. Rest[k] \in Seq(Steps) /\ Rest[k] # <<>> /\ Head(Rest[k]) = "open"
      BY <2>1 DEF Steps
    <2>3. Tail(Rest[k]) = Rest["start"]
      <3>1. Rest["start"] = <<"start", "log_recovered">>
        BY DEF Rest
      <3> QED BY <2>1, <3>1
    <2> QED BY <1>9, <2>2, <2>3 DEF Spot
  <1>10. CASE k = "start"
    <2>1. Rest[k] = <<"start", "log_recovered">>
      BY <1>10 DEF Rest
    <2>2. Rest[k] \in Seq(Steps) /\ Rest[k] # <<>> /\ Head(Rest[k]) = "start"
      BY <2>1 DEF Steps
    <2>3. Tail(Rest[k]) = Rest["log_recovered"]
      <3>1. Rest["log_recovered"] = <<"log_recovered">>
        BY DEF Rest
      <3> QED BY <2>1, <3>1
    <2> QED BY <1>10, <2>2, <2>3 DEF Spot
  <1>11. CASE k = "store_start"
    <2>1. Rest[k] = <<"store_start", "log_recovered">>
      BY <1>11 DEF Rest
    <2>2. Rest[k] \in Seq(Steps) /\ Rest[k] # <<>> /\ Head(Rest[k]) = "store_start"
      BY <2>1 DEF Steps
    <2>3. Tail(Rest[k]) = Rest["log_recovered"]
      <3>1. Rest["log_recovered"] = <<"log_recovered">>
        BY DEF Rest
      <3> QED BY <2>1, <3>1
    <2> QED BY <1>11, <2>2, <2>3 DEF Spot
  <1>12. CASE k = "refresh_entry"
    <2>1. Rest[k] = <<"refresh", "entry">>
      BY <1>12 DEF Rest
    <2>2. Rest[k] \in Seq(Steps) /\ Rest[k] # <<>> /\ Head(Rest[k]) = "refresh"
      BY <2>1 DEF Steps
    <2>3. Tail(Rest[k]) = Rest["entry"]
      <3>1. Rest["entry"] = <<"entry">>
        BY DEF Rest
      <3> QED BY <2>1, <3>1
    <2> QED BY <1>12, <2>2, <2>3 DEF Spot
  <1>13. CASE k = "open_entry"
    <2>1. Rest[k] = <<"open", "entry">>
      BY <1>13 DEF Rest
    <2>2. Rest[k] \in Seq(Steps) /\ Rest[k] # <<>> /\ Head(Rest[k]) = "open"
      BY <2>1 DEF Steps
    <2>3. Tail(Rest[k]) = Rest["entry"]
      <3>1. Rest["entry"] = <<"entry">>
        BY DEF Rest
      <3> QED BY <2>1, <3>1
    <2> QED BY <1>13, <2>2, <2>3 DEF Spot
  <1>14. CASE k = "entry"
    <2>1. Rest[k] = <<"entry">>
      BY <1>14 DEF Rest
    <2>2. Rest[k] \in Seq(Steps) /\ Rest[k] # <<>> /\ Head(Rest[k]) = "entry"
      BY <2>1 DEF Steps
    <2>3. Tail(Rest[k]) = Rest["idle"]
      <3>1. Rest["idle"] = <<>>
        BY DEF Rest
      <3> QED BY <2>1, <3>1
    <2> QED BY <1>14, <2>2, <2>3 DEF Spot
  <1>15. CASE k = "store"
    <2>1. Rest[k] = <<"store">>
      BY <1>15 DEF Rest
    <2>2. Rest[k] \in Seq(Steps) /\ Rest[k] # <<>> /\ Head(Rest[k]) = "store"
      BY <2>1 DEF Steps
    <2>3. Tail(Rest[k]) = Rest["idle"]
      <3>1. Rest["idle"] = <<>>
        BY DEF Rest
      <3> QED BY <2>1, <3>1
    <2> QED BY <1>15, <2>2, <2>3 DEF Spot
  <1>16. CASE k = "recover"
    <2>1. Rest[k] = <<"recover", "flush", "recovered">>
      BY <1>16 DEF Rest
    <2>2. Rest[k] \in Seq(Steps) /\ Rest[k] # <<>> /\ Head(Rest[k]) = "recover"
      BY <2>1 DEF Steps
    <2>3. Tail(Rest[k]) = Flush["flush"] \o Rest["recovered"]
      <3>1. Flush["flush"] = <<"flush">>
        BY DEF Flush
      <3>2. Rest["recovered"] = <<"recovered">>
        BY DEF Rest
      <3>3. <<"flush", "recovered">> = <<"flush">> \o <<"recovered">>
        OBVIOUS
      <3>4. Tail(Rest[k]) = <<"flush", "recovered">>
        BY <2>1
      <3> QED BY <3>1, <3>2, <3>3, <3>4
    <2> QED BY <1>16, <2>2, <2>3 DEF Spot
  <1>17. CASE k = "recovered"
    <2>1. Rest[k] = <<"recovered">>
      BY <1>17 DEF Rest
    <2>2. Rest[k] \in Seq(Steps) /\ Rest[k] # <<>> /\ Head(Rest[k]) = "recovered"
      BY <2>1 DEF Steps
    <2>3. Tail(Rest[k]) = Rest["idle"]
      <3>1. Rest["idle"] = <<>>
        BY DEF Rest
      <3> QED BY <2>1, <3>1
    <2> QED BY <1>17, <2>2, <2>3 DEF Spot
  <1>18. CASE k = "exit"
    <2>1. Rest[k] = <<"exit">>
      BY <1>18 DEF Rest
    <2>2. Rest[k] \in Seq(Steps) /\ Rest[k] # <<>> /\ Head(Rest[k]) = "exit"
      BY <2>1 DEF Steps
    <2>3. Tail(Rest[k]) = Rest["idle"]
      <3>1. Rest["idle"] = <<>>
        BY DEF Rest
      <3> QED BY <2>1, <3>1
    <2> QED BY <1>18, <2>2, <2>3 DEF Spot
  <1> QED BY <1>1, <1>2, <1>3, <1>4, <1>5, <1>6, <1>7, <1>8, <1>9, <1>10, <1>11, <1>12, <1>13, <1>14, <1>15, <1>16, <1>17, <1>18 DEF RestNames, EndRests, StartRests, RecoverRests

LEMMA Where ==
  ASSUME NEW f \in FlushNames, NEW k \in RestNames, NEW t, t = Flush[f] \o Rest[k], t # <<>>
  PROVE  Spot(Head(t), f, k, Tail(t))
  <1> DEFINE s == Rest[k]
  <1>1. /\ s \in Seq(Steps) /\ (s = <<>> <=> k = "idle")
        /\ s # <<>> => Spot(Head(s), "no", k, Tail(s))
    BY RestIs
  <1> HIDE DEF s
  <1>2. CASE f = "no"
    <2>1. t = s
      BY <1>1, <1>2 DEF s, Flush
    <2> QED BY <1>1, <1>2, <2>1
  <1>3. CASE f = "flush"
    <2>1. Head(t) = "flush" /\ Tail(t) = s
      BY <1>1, <1>3 DEF s, Flush
    <2> QED BY <1>3, <2>1 DEF Spot, s
  <1>4. CASE f = "count"
    <2>1. Head(t) = "count" /\ Tail(t) = s
      BY <1>1, <1>4 DEF s, Flush
    <2> QED BY <1>4, <2>1 DEF Spot, s
  <1>5. CASE f = "open"
    <2>1. Head(t) = "open" /\ Tail(t) = s
      BY <1>1, <1>5 DEF s, Flush
    <2> QED BY <1>5, <2>1 DEF Spot, s
  <1>6. CASE f = "keep"
    <2>1. t = <<"keep", "count">> \o s
      BY <1>6 DEF s, Flush
    <2>2. <<"keep", "count">> = <<"keep">> \o <<"count">>
      OBVIOUS
    <2>3. t = <<"keep">> \o (<<"count">> \o s)
      <3>1. <<"keep">> \in Seq(Steps) /\ <<"count">> \in Seq(Steps)
        BY DEF Steps
      <3> QED BY <1>1, <2>1, <2>2, <3>1, ConcatAssociative
    <2>4. <<"count">> \o s \in Seq(Steps)
      BY <1>1 DEF Steps
    <2>5. Head(t) = "keep" /\ Tail(t) = <<"count">> \o s
      BY <2>3, <2>4
    <2> QED BY <1>6, <2>5 DEF Spot, s, Flush
  <1> QED BY <1>2, <1>3, <1>4, <1>5, <1>6 DEF FlushNames

Recs == {"not_started", "in_recovering", "recovered"}
Vals(c, n, cp, d, fl, rc, a, r, e) ==
  /\ c \in Nat /\ n \in Nat /\ cp \in Nat /\ d \in {"full", "fine"} /\ fl \in Nat
  /\ rc \in Recs /\ a \in Nat /\ r \in Nat /\ e \in Errs

LEMMA ConstantsAre ==
  /\ Target \in Nat /\ 4 <= Target /\ Small \in Nat /\ 2 <= Small /\ Small <= Target
  /\ Extra \in 0 .. 1 /\ (Recovers => Extra = 1) /\ MaxEntries \in Nat
  BY FileConstants DEF Extra

\* process_log_chunk with an entry of this run.
LEMMA NewPlace ==
  ASSUME NEW c, NEW n, NEW cp, NEW d, NEW fl, NEW rc, NEW a, NEW r, NEW e,
         Vals(c, n, cp, d, fl, rc, a, r, e), Sizes(c, n, cp, r),
         Place("no", "idle", c, n, cp, d, fl, rc, a, r, e), a < MaxEntries
  PROVE  /\ rc = "recovered" => Place("no", "log", c, n, cp, d, fl, rc, a, r, e)
         /\ rc = "in_recovering" => Place("no", "end", c, n, cp, d, fl, "recovered", a, r, e)
         /\ rc # "recovered" => Place("flush", "refresh_log", c, n, cp, d, fl, "recovered", a, r, e)
  BY ConstantsAre DEF Vals, Sizes, Place, Work, Way, EndRests, StartRests, RecoverRests, Recs, Errs, RestNames

\* process_log_chunk with an entry of an earlier run.
LEMMA RecoveredPlace ==
  ASSUME NEW c, NEW n, NEW cp, NEW d, NEW fl, NEW rc, NEW a, NEW r, NEW e,
         Vals(c, n, cp, d, fl, rc, a, r, e), Sizes(c, n, cp, r),
         Place("no", "idle", c, n, cp, d, fl, rc, a, r, e), a < MaxEntries, Recovers
  PROVE  /\ rc = "not_started" => Place("flush", "refresh_start", c, n, cp, d, fl, "in_recovering", a, r, e)
         /\ rc = "in_recovering" => Place("no", "log_recovered", c, n, cp, d, fl, rc, a, r, e)
  BY ConstantsAre DEF Vals, Sizes, Place, Work, Way, EndRests, StartRests, RecoverRests, Recs, Errs, RestNames

\* flush_appenders_cache.
LEMMA FlushPlace ==
  ASSUME NEW c, NEW n, NEW cp, NEW d, NEW fl, NEW rc, NEW a, NEW r, NEW e,
         Vals(c, n, cp, d, fl, rc, a, r, e), Sizes(c, n, cp, r),
         Place("no", "idle", c, n, cp, d, fl, rc, a, r, e), fl # 0
  PROVE  Place("flush", "idle", c, n, cp, d, fl, rc, a, r, e)
  BY ConstantsAre DEF Vals, Sizes, Place, Work, Way, EndRests, StartRests, RecoverRests, Recs, Errs, RestNames

\* log_impl takes or refuses the entry.
LEMMA LogPlace ==
  ASSUME NEW c, NEW n, NEW cp, NEW d, NEW fl, NEW rc, NEW a, NEW r, NEW e,
         Vals(c, n, cp, d, fl, rc, a, r, e), Sizes(c, n, cp, r),
         NEW k \in {"log", "log_recovered"}, Place("no", k, c, n, cp, d, fl, rc, a, r, e)
  PROVE  /\ Place("no", "idle", c, n, cp, d, fl, rc, a, r, e)
         /\ d = "fine" => Place("no", "refresh_entry", c, n, cp, d, fl, rc, a, r, e)
  BY ConstantsAre DEF Vals, Sizes, Place, Work, Way, EndRests, StartRests, RecoverRests, Recs, Errs, RestNames

\* refresh_file_handle.
LEMMA Refresh_log ==
  ASSUME NEW c, NEW n, NEW cp, NEW d, NEW fl, NEW rc, NEW a, NEW r, NEW e,
         Vals(c, n, cp, d, fl, rc, a, r, e), Sizes(c, n, cp, r),
         Place("no", "refresh_log", c, n, cp, d, fl, rc, a, r, e)
  PROVE  /\ fl # 0 => Place("no", "log", c, n, cp, d, fl, rc, a, r, e) /\ Place("flush", "open_log", c, n, cp, d, fl, rc, a, r, e)
         /\ Place("no", "open_log", c, n, cp, d, fl, rc, a, r, e)
  BY ConstantsAre DEF Vals, Sizes, Place, Work, Way, EndRests, StartRests, RecoverRests, Recs, Errs, RestNames

\* refresh_file_handle.
LEMMA Refresh_start ==
  ASSUME NEW c, NEW n, NEW cp, NEW d, NEW fl, NEW rc, NEW a, NEW r, NEW e,
         Vals(c, n, cp, d, fl, rc, a, r, e), Sizes(c, n, cp, r),
         Place("no", "refresh_start", c, n, cp, d, fl, rc, a, r, e)
  PROVE  /\ fl # 0 => Place("no", "start", c, n, cp, d, fl, rc, a, r, e) /\ Place("flush", "open_start", c, n, cp, d, fl, rc, a, r, e)
         /\ Place("no", "open_start", c, n, cp, d, fl, rc, a, r, e)
  BY ConstantsAre DEF Vals, Sizes, Place, Work, Way, EndRests, StartRests, RecoverRests, Recs, Errs, RestNames

\* refresh_file_handle.
LEMMA Refresh_entry ==
  ASSUME NEW c, NEW n, NEW cp, NEW d, NEW fl, NEW rc, NEW a, NEW r, NEW e,
         Vals(c, n, cp, d, fl, rc, a, r, e), Sizes(c, n, cp, r),
         Place("no", "refresh_entry", c, n, cp, d, fl, rc, a, r, e)
  PROVE  /\ fl # 0 => Place("no", "entry", c, n, cp, d, fl, rc, a, r, e) /\ Place("flush", "open_entry", c, n, cp, d, fl, rc, a, r, e)
         /\ Place("no", "open_entry", c, n, cp, d, fl, rc, a, r, e)
  BY ConstantsAre DEF Vals, Sizes, Place, Work, Way, EndRests, StartRests, RecoverRests, Recs, Errs, RestNames

\* alloc_write_cache for an entry, and an entry refused.
LEMMA AllocPlace ==
  ASSUME NEW c, NEW n, NEW cp, NEW d, NEW fl, NEW rc, NEW a, NEW r, NEW e,
         Vals(c, n, cp, d, fl, rc, a, r, e), Sizes(c, n, cp, r),
         Place("no", "entry", c, n, cp, d, fl, rc, a, r, e)
  PROVE  /\ fl # 0 /\ c + 2 > cp => Place("flush", "store", c, n, cp, d, fl, rc, a, r, e)
         /\ fl # 0 /\ ~(c + 2 > cp) => Place("no", "store", c, n, cp, d, fl, rc, a, r, e)
         /\ Place("no", "idle", c, n, cp, d, fl, rc, a, r, e)
  BY ConstantsAre DEF Vals, Sizes, Place, Work, Way, EndRests, StartRests, RecoverRests, Recs, Errs, RestNames

\* The start marker is put into an empty cache.
LEMMA StartPlace ==
  ASSUME NEW c, NEW n, NEW cp, NEW d, NEW fl, NEW rc, NEW a, NEW r, NEW e,
         Vals(c, n, cp, d, fl, rc, a, r, e), Sizes(c, n, cp, r),
         Place("no", "start", c, n, cp, d, fl, rc, a, r, e)
  PROVE  /\ c = 0
         /\ fl = 0 => Place("no", "log_recovered", c, n, cp, d, fl, rc, a, r, e)
         /\ fl # 0 => Place("no", "store_start", c, n, cp, d, fl, rc, a, r, e)
  BY ConstantsAre DEF Vals, Sizes, Place, Work, Way, EndRests, StartRests, RecoverRests, Recs, Errs, RestNames

\* alloc_write_cache for the end marker.
LEMMA EndPlace ==
  ASSUME NEW c, NEW n, NEW cp, NEW d, NEW fl, NEW rc, NEW a, NEW r, NEW e,
         Vals(c, n, cp, d, fl, rc, a, r, e), Sizes(c, n, cp, r),
         Place("no", "end", c, n, cp, d, fl, rc, a, r, e)
  PROVE  /\ c + 1 > cp => Place("flush", "store_end", c, n, cp, d, fl, rc, a, r, e)
         /\ ~(c + 1 > cp) => Place("no", "store_end", c, n, cp, d, fl, rc, a, r, e)
  BY ConstantsAre DEF Vals, Sizes, Place, Work, Way, EndRests, StartRests, RecoverRests, Recs, Errs, RestNames

\* A write of flush_write_cache has ended.
LEMMA WritePlace ==
  ASSUME NEW c, NEW n, NEW cp, NEW d, NEW fl, NEW rc, NEW a, NEW r, NEW e,
         Vals(c, n, cp, d, fl, rc, a, r, e), Sizes(c, n, cp, r),
         NEW k \in RestNames, Place("flush", k, c, n, cp, d, fl, rc, a, r, e), NEW rr, NEW ee, ee = "none" => rr = n, fl # 0
  PROVE  Place("keep", k, c, n, cp, d, fl, rc, a, rr, ee)
  BY ConstantsAre DEF Vals, Sizes, Place, Work, Way, EndRests, StartRests, RecoverRests, Recs, Errs, RestNames

\* flush_write_cache without a file.
LEMMA NoFilePlace ==
  ASSUME NEW c, NEW n, NEW cp, NEW d, NEW fl, NEW rc, NEW a, NEW r, NEW e,
         Vals(c, n, cp, d, fl, rc, a, r, e), Sizes(c, n, cp, r),
         NEW k \in RestNames, Place("flush", k, c, n, cp, d, fl, rc, a, r, e), fl = 0
  PROVE  Place("no", k, c, n, cp, d, fl, rc, a, r, e)
  BY ConstantsAre DEF Vals, Sizes, Place, Work, Way, EndRests, StartRests, RecoverRests, Recs, Errs, RestNames

\* The memmoves of flush_write_cache change no size.
LEMMA KeepPlace ==
  ASSUME NEW c, NEW n, NEW cp, NEW d, NEW fl, NEW rc, NEW a, NEW r, NEW e,
         Vals(c, n, cp, d, fl, rc, a, r, e), Sizes(c, n, cp, r),
         NEW k \in RestNames, Place("keep", k, c, n, cp, d, fl, rc, a, r, e)
  PROVE  Place("count", k, c, n, cp, d, fl, rc, a, r, e)
  BY ConstantsAre DEF Vals, Sizes, Place, Work, Way, EndRests, StartRests, RecoverRests, Recs, Errs, RestNames

\* After the cursors moved: if the disk is not full now, all was written.
LEMMA CountPlace ==
  ASSUME NEW c, NEW n, NEW cp, NEW d, NEW fl, NEW rc, NEW a, NEW r, NEW e,
         Vals(c, n, cp, d, fl, rc, a, r, e), Sizes(c, n, cp, r),
         NEW k \in RestNames, Place("count", k, c, n, cp, d, fl, rc, a, r, e),
         NEW dd, dd = IF e = "full" \/ (d = "full" /\ ~(e = "none" /\ r = n)) THEN "full" ELSE "fine",
         NEW p, p = IF cp > Target /\ c - r <= Small THEN Target ELSE cp
  PROVE  /\ Sizes(c - r, n - r, p, 0)
         /\ e = "other" => Place("open", k, c - r, n - r, p, dd, fl, rc, a, 0, "none")
         /\ e # "other" => Place("no", k, c - r, n - r, p, dd, fl, rc, a, 0, "none")
  <1>1. Sizes(c - r, n - r, p, 0)
    BY ConstantsAre DEF Vals, Sizes
  <1>2. k \in RecoverRests \cup {"exit"} => \A g : g \notin {"keep", "count"} => Place(g, k, c - r, n - r, p, dd, fl, rc, a, 0, "none")
    BY DEF Place, RecoverRests
  <1>3. ASSUME k \notin RecoverRests \cup {"exit"}
        PROVE  Work(k, c - r, n - r, p, dd, fl, rc, a)
    BY <1>3, ConstantsAre DEF Vals, Sizes, Place, Work, EndRests, StartRests, RecoverRests, Errs
  <1>4. ASSUME k \notin RecoverRests \cup {"exit"}
        PROVE  /\ e = "other" => Way("open", k, c - r, dd, fl)
               /\ e # "other" => Way("no", k, c - r, dd, fl)
    BY <1>4, ConstantsAre DEF Vals, Sizes, Place, Work, Way, EndRests, StartRests, RecoverRests, Errs
  <1>5. k = "idle" => rc # "not_started"
    BY DEF Place
  <1> QED BY <1>1, <1>2, <1>3, <1>4, <1>5 DEF Place

\* A new file, or none, and an empty cache.
LEMMA OpenPlace ==
  ASSUME NEW c, NEW n, NEW cp, NEW d, NEW fl, NEW rc, NEW a, NEW r, NEW e,
         Vals(c, n, cp, d, fl, rc, a, r, e), Sizes(c, n, cp, r),
         NEW k \in RestNames \ {"exit"}, Place("open", k, c, n, cp, d, fl, rc, a, r, e), NEW l \in Nat
  PROVE  Place("no", k, 0, 0, cp, d, l, rc, a, r, e)
  BY ConstantsAre DEF Vals, Sizes, Place, Work, Way, EndRests, StartRests, RecoverRests, Recs, Errs, RestNames

LEMMA Open_log ==
  ASSUME NEW c, NEW n, NEW cp, NEW d, NEW fl, NEW rc, NEW a, NEW r, NEW e,
         Vals(c, n, cp, d, fl, rc, a, r, e), Sizes(c, n, cp, r),
         Place("no", "open_log", c, n, cp, d, fl, rc, a, r, e), NEW l \in Nat
  PROVE  Place("no", "log", 0, 0, cp, d, l, rc, a, r, e)
  BY ConstantsAre DEF Vals, Sizes, Place, Work, Way, EndRests, StartRests, RecoverRests, Recs, Errs, RestNames

LEMMA Open_start ==
  ASSUME NEW c, NEW n, NEW cp, NEW d, NEW fl, NEW rc, NEW a, NEW r, NEW e,
         Vals(c, n, cp, d, fl, rc, a, r, e), Sizes(c, n, cp, r),
         Place("no", "open_start", c, n, cp, d, fl, rc, a, r, e), NEW l \in Nat
  PROVE  Place("no", "start", 0, 0, cp, d, l, rc, a, r, e)
  BY ConstantsAre DEF Vals, Sizes, Place, Work, Way, EndRests, StartRests, RecoverRests, Recs, Errs, RestNames

LEMMA Open_entry ==
  ASSUME NEW c, NEW n, NEW cp, NEW d, NEW fl, NEW rc, NEW a, NEW r, NEW e,
         Vals(c, n, cp, d, fl, rc, a, r, e), Sizes(c, n, cp, r),
         Place("no", "open_entry", c, n, cp, d, fl, rc, a, r, e), NEW l \in Nat
  PROVE  Place("no", "entry", 0, 0, cp, d, l, rc, a, r, e)
  BY ConstantsAre DEF Vals, Sizes, Place, Work, Way, EndRests, StartRests, RecoverRests, Recs, Errs, RestNames

\* The entry is in the cache.
LEMMA StorePlace ==
  ASSUME NEW c, NEW n, NEW cp, NEW d, NEW fl, NEW rc, NEW a, NEW r, NEW e,
         Vals(c, n, cp, d, fl, rc, a, r, e), Sizes(c, n, cp, r),
         Place("no", "store", c, n, cp, d, fl, rc, a, r, e),
         NEW p \in Nat, c + 2 > cp => p >= c + 2, ~(c + 2 > cp) => p = cp
  PROVE  /\ Place("no", "idle", c + 2, c + 2, p, d, fl, rc, a + 1, r, e)
         /\ Sizes(c + 2, c + 2, p, r)
         /\ a < MaxEntries
  BY ConstantsAre DEF Vals, Sizes, Place, Work, Way, EndRests, StartRests, RecoverRests, Recs, Errs, RestNames

\* The markers are in the cache.
LEMMA StoreStartPlace ==
  ASSUME NEW c, NEW n, NEW cp, NEW d, NEW fl, NEW rc, NEW a, NEW r, NEW e,
         Vals(c, n, cp, d, fl, rc, a, r, e), Sizes(c, n, cp, r),
         Place("no", "store_start", c, n, cp, d, fl, rc, a, r, e)
  PROVE  /\ ~(c + 1 > cp)
         /\ Place("no", "log_recovered", c + 1, n, cp, d, fl, rc, a, r, e)
         /\ Sizes(c + 1, n, cp, r)
  BY ConstantsAre DEF Vals, Sizes, Place, Work, Way, EndRests, StartRests, RecoverRests, Recs, Errs, RestNames

LEMMA StoreEndPlace ==
  ASSUME NEW c, NEW n, NEW cp, NEW d, NEW fl, NEW rc, NEW a, NEW r, NEW e,
         Vals(c, n, cp, d, fl, rc, a, r, e), Sizes(c, n, cp, r),
         Place("no", "store_end", c, n, cp, d, fl, rc, a, r, e),
         NEW p \in Nat, c + 1 > cp => p >= c + 1, ~(c + 1 > cp) => p = cp
  PROVE  /\ Place("flush", "refresh_log", c + 1, n, p, d, fl, rc, a, r, e)
         /\ Sizes(c + 1, n, p, r)
  BY ConstantsAre DEF Vals, Sizes, Place, Work, Way, EndRests, StartRests, RecoverRests, Recs, Errs, RestNames

\* Concatenation of short texts.
LEMMA CatIs ==
  ASSUME NEW S, NEW a \in Seq(S), NEW b \in Seq(S), NEW c \in Seq(S), Len(c) = Len(a) + Len(b),
         \A i \in 1 .. Len(a) : c[i] = a[i],
         \A i \in 1 .. Len(b) : c[Len(a) + i] = b[i]
  PROVE  a \o b = c
  <1>1. a \o b \in Seq(S) /\ Len(a \o b) = Len(a) + Len(b)
    OBVIOUS
  <1>2. ASSUME NEW i \in 1 .. Len(c) PROVE (a \o b)[i] = c[i]
    <2>1. CASE i <= Len(a)
      BY <2>1
    <2>2. CASE i > Len(a)
      <3>1. i - Len(a) \in 1 .. Len(b) /\ Len(a) + (i - Len(a)) = i
        BY <2>2
      <3>2. (a \o b)[i] = b[i - Len(a)]
        BY <2>2
      <3> QED BY <3>1, <3>2
    <2> QED BY <2>1, <2>2
  <1> QED BY <1>1, <1>2

LEMMA Cat_0_0 ==
  <<>> \o <<>> = <<>>
  OBVIOUS

LEMMA Cat_0_1 ==
  ASSUME NEW x1
  PROVE  <<>> \o <<x1>> = <<x1>>
  OBVIOUS

LEMMA Cat_0_2 ==
  ASSUME NEW x1, NEW x2
  PROVE  <<>> \o <<x1, x2>> = <<x1, x2>>
  OBVIOUS

LEMMA Cat_0_3 ==
  ASSUME NEW x1, NEW x2, NEW x3
  PROVE  <<>> \o <<x1, x2, x3>> = <<x1, x2, x3>>
  OBVIOUS

LEMMA Cat_0_4 ==
  ASSUME NEW x1, NEW x2, NEW x3, NEW x4
  PROVE  <<>> \o <<x1, x2, x3, x4>> = <<x1, x2, x3, x4>>
  OBVIOUS

LEMMA Cat_1_0 ==
  ASSUME NEW x1
  PROVE  <<x1>> \o <<>> = <<x1>>
  OBVIOUS

LEMMA Cat_2_0 ==
  ASSUME NEW x1, NEW x2
  PROVE  <<x1, x2>> \o <<>> = <<x1, x2>>
  OBVIOUS

LEMMA Cat_1_1 ==
  ASSUME NEW x1, NEW x2
  PROVE  <<x1>> \o <<x2>> = <<x1, x2>>
  <1> DEFINE S == {x1, x2}  a == <<x1>>  b == <<x2>>  c == <<x1, x2>>
  <1>1. a \in Seq(S) /\ b \in Seq(S) /\ c \in Seq(S)
    OBVIOUS
  <1>2. Len(a) = 1 /\ Len(b) = 1 /\ Len(c) = 2
    OBVIOUS
  <1>3. a[1] = x1 /\ b[1] = x2 /\ c[1] = x1 /\ c[2] = x2
    OBVIOUS
  <1> HIDE DEF a, b, c, S
  <1>4. \A i \in 1 .. Len(a) : c[i] = a[i]
    BY <1>2, <1>3
  <1>5. \A i \in 1 .. Len(b) : c[Len(a) + i] = b[i]
    BY <1>2, <1>3
  <1>6. Len(c) = Len(a) + Len(b)
    BY <1>2
  <1>7. a \in Seq(S)
    BY <1>1
  <1>8. b \in Seq(S)
    BY <1>1
  <1>9. c \in Seq(S)
    BY <1>1
  <1>10. a \o b = c
    BY <1>4, <1>5, <1>6, <1>7, <1>8, <1>9, CatIs
  <1> QED BY <1>10 DEF a, b, c

LEMMA Cat_1_2 ==
  ASSUME NEW x1, NEW x2, NEW x3
  PROVE  <<x1>> \o <<x2, x3>> = <<x1, x2, x3>>
  <1> DEFINE S == {x1, x2, x3}  a == <<x1>>  b == <<x2, x3>>  c == <<x1, x2, x3>>
  <1>1. a \in Seq(S) /\ b \in Seq(S) /\ c \in Seq(S)
    OBVIOUS
  <1>2. Len(a) = 1 /\ Len(b) = 2 /\ Len(c) = 3
    OBVIOUS
  <1>3. a[1] = x1 /\ b[1] = x2 /\ b[2] = x3 /\ c[1] = x1 /\ c[2] = x2 /\ c[3] = x3
    OBVIOUS
  <1> HIDE DEF a, b, c, S
  <1>4. \A i \in 1 .. Len(a) : c[i] = a[i]
    BY <1>2, <1>3
  <1>5. \A i \in 1 .. Len(b) : c[Len(a) + i] = b[i]
    BY <1>2, <1>3
  <1>6. Len(c) = Len(a) + Len(b)
    BY <1>2
  <1>7. a \in Seq(S)
    BY <1>1
  <1>8. b \in Seq(S)
    BY <1>1
  <1>9. c \in Seq(S)
    BY <1>1
  <1>10. a \o b = c
    BY <1>4, <1>5, <1>6, <1>7, <1>8, <1>9, CatIs
  <1> QED BY <1>10 DEF a, b, c

LEMMA Cat_2_1 ==
  ASSUME NEW x1, NEW x2, NEW x3
  PROVE  <<x1, x2>> \o <<x3>> = <<x1, x2, x3>>
  <1> DEFINE S == {x1, x2, x3}  a == <<x1, x2>>  b == <<x3>>  c == <<x1, x2, x3>>
  <1>1. a \in Seq(S) /\ b \in Seq(S) /\ c \in Seq(S)
    OBVIOUS
  <1>2. Len(a) = 2 /\ Len(b) = 1 /\ Len(c) = 3
    OBVIOUS
  <1>3. a[1] = x1 /\ a[2] = x2 /\ b[1] = x3 /\ c[1] = x1 /\ c[2] = x2 /\ c[3] = x3
    OBVIOUS
  <1> HIDE DEF a, b, c, S
  <1>4. \A i \in 1 .. Len(a) : c[i] = a[i]
    BY <1>2, <1>3
  <1>5. \A i \in 1 .. Len(b) : c[Len(a) + i] = b[i]
    BY <1>2, <1>3
  <1>6. Len(c) = Len(a) + Len(b)
    BY <1>2
  <1>7. a \in Seq(S)
    BY <1>1
  <1>8. b \in Seq(S)
    BY <1>1
  <1>9. c \in Seq(S)
    BY <1>1
  <1>10. a \o b = c
    BY <1>4, <1>5, <1>6, <1>7, <1>8, <1>9, CatIs
  <1> QED BY <1>10 DEF a, b, c

LEMMA Cat_3_1 ==
  ASSUME NEW x1, NEW x2, NEW x3, NEW x4
  PROVE  <<x1, x2, x3>> \o <<x4>> = <<x1, x2, x3, x4>>
  <1> DEFINE S == {x1, x2, x3, x4}  a == <<x1, x2, x3>>  b == <<x4>>  c == <<x1, x2, x3, x4>>
  <1>1. a \in Seq(S) /\ b \in Seq(S) /\ c \in Seq(S)
    OBVIOUS
  <1>2. Len(a) = 3 /\ Len(b) = 1 /\ Len(c) = 4
    OBVIOUS
  <1>3. a[1] = x1 /\ a[2] = x2 /\ a[3] = x3 /\ b[1] = x4 /\ c[1] = x1 /\ c[2] = x2 /\ c[3] = x3 /\ c[4] = x4
    OBVIOUS
  <1> HIDE DEF a, b, c, S
  <1>4. \A i \in 1 .. Len(a) : c[i] = a[i]
    BY <1>2, <1>3
  <1>5. \A i \in 1 .. Len(b) : c[Len(a) + i] = b[i]
    BY <1>2, <1>3
  <1>6. Len(c) = Len(a) + Len(b)
    BY <1>2
  <1>7. a \in Seq(S)
    BY <1>1
  <1>8. b \in Seq(S)
    BY <1>1
  <1>9. c \in Seq(S)
    BY <1>1
  <1>10. a \o b = c
    BY <1>4, <1>5, <1>6, <1>7, <1>8, <1>9, CatIs
  <1> QED BY <1>10 DEF a, b, c

LEMMA Cat_1_3 ==
  ASSUME NEW x1, NEW x2, NEW x3, NEW x4
  PROVE  <<x1>> \o <<x2, x3, x4>> = <<x1, x2, x3, x4>>
  <1> DEFINE S == {x1, x2, x3, x4}  a == <<x1>>  b == <<x2, x3, x4>>  c == <<x1, x2, x3, x4>>
  <1>1. a \in Seq(S) /\ b \in Seq(S) /\ c \in Seq(S)
    OBVIOUS
  <1>2. Len(a) = 1 /\ Len(b) = 3 /\ Len(c) = 4
    OBVIOUS
  <1>3. a[1] = x1 /\ b[1] = x2 /\ b[2] = x3 /\ b[3] = x4 /\ c[1] = x1 /\ c[2] = x2 /\ c[3] = x3 /\ c[4] = x4
    OBVIOUS
  <1> HIDE DEF a, b, c, S
  <1>4. \A i \in 1 .. Len(a) : c[i] = a[i]
    BY <1>2, <1>3
  <1>5. \A i \in 1 .. Len(b) : c[Len(a) + i] = b[i]
    BY <1>2, <1>3
  <1>6. Len(c) = Len(a) + Len(b)
    BY <1>2
  <1>7. a \in Seq(S)
    BY <1>1
  <1>8. b \in Seq(S)
    BY <1>1
  <1>9. c \in Seq(S)
    BY <1>1
  <1>10. a \o b = c
    BY <1>4, <1>5, <1>6, <1>7, <1>8, <1>9, CatIs
  <1> QED BY <1>10 DEF a, b, c

LEMMA Cat_2_2 ==
  ASSUME NEW x1, NEW x2, NEW x3, NEW x4
  PROVE  <<x1, x2>> \o <<x3, x4>> = <<x1, x2, x3, x4>>
  <1> DEFINE S == {x1, x2, x3, x4}  a == <<x1, x2>>  b == <<x3, x4>>  c == <<x1, x2, x3, x4>>
  <1>1. a \in Seq(S) /\ b \in Seq(S) /\ c \in Seq(S)
    OBVIOUS
  <1>2. Len(a) = 2 /\ Len(b) = 2 /\ Len(c) = 4
    OBVIOUS
  <1>3. a[1] = x1 /\ a[2] = x2 /\ b[1] = x3 /\ b[2] = x4 /\ c[1] = x1 /\ c[2] = x2 /\ c[3] = x3 /\ c[4] = x4
    OBVIOUS
  <1> HIDE DEF a, b, c, S
  <1>4. \A i \in 1 .. Len(a) : c[i] = a[i]
    BY <1>2, <1>3
  <1>5. \A i \in 1 .. Len(b) : c[Len(a) + i] = b[i]
    BY <1>2, <1>3
  <1>6. Len(c) = Len(a) + Len(b)
    BY <1>2
  <1>7. a \in Seq(S)
    BY <1>1
  <1>8. b \in Seq(S)
    BY <1>1
  <1>9. c \in Seq(S)
    BY <1>1
  <1>10. a \o b = c
    BY <1>4, <1>5, <1>6, <1>7, <1>8, <1>9, CatIs
  <1> QED BY <1>10 DEF a, b, c

LEMMA Cat_2_3 ==
  ASSUME NEW x1, NEW x2, NEW x3, NEW x4, NEW x5
  PROVE  <<x1, x2>> \o <<x3, x4, x5>> = <<x1, x2, x3, x4, x5>>
  <1> DEFINE S == {x1, x2, x3, x4, x5}  a == <<x1, x2>>  b == <<x3, x4, x5>>  c == <<x1, x2, x3, x4, x5>>
  <1>1. a \in Seq(S) /\ b \in Seq(S) /\ c \in Seq(S)
    OBVIOUS
  <1>2. Len(a) = 2 /\ Len(b) = 3 /\ Len(c) = 5
    OBVIOUS
  <1>3. a[1] = x1 /\ a[2] = x2 /\ b[1] = x3 /\ b[2] = x4 /\ b[3] = x5 /\ c[1] = x1 /\ c[2] = x2 /\ c[3] = x3 /\ c[4] = x4 /\ c[5] = x5
    OBVIOUS
  <1> HIDE DEF a, b, c, S
  <1>4. \A i \in 1 .. Len(a) : c[i] = a[i]
    BY <1>2, <1>3
  <1>5. \A i \in 1 .. Len(b) : c[Len(a) + i] = b[i]
    BY <1>2, <1>3
  <1>6. Len(c) = Len(a) + Len(b)
    BY <1>2
  <1>7. a \in Seq(S)
    BY <1>1
  <1>8. b \in Seq(S)
    BY <1>1
  <1>9. c \in Seq(S)
    BY <1>1
  <1>10. a \o b = c
    BY <1>4, <1>5, <1>6, <1>7, <1>8, <1>9, CatIs
  <1> QED BY <1>10 DEF a, b, c

LEMMA Cat_1_4 ==
  ASSUME NEW x1, NEW x2, NEW x3, NEW x4, NEW x5
  PROVE  <<x1>> \o <<x2, x3, x4, x5>> = <<x1, x2, x3, x4, x5>>
  <1> DEFINE S == {x1, x2, x3, x4, x5}  a == <<x1>>  b == <<x2, x3, x4, x5>>  c == <<x1, x2, x3, x4, x5>>
  <1>1. a \in Seq(S) /\ b \in Seq(S) /\ c \in Seq(S)
    OBVIOUS
  <1>2. Len(a) = 1 /\ Len(b) = 4 /\ Len(c) = 5
    OBVIOUS
  <1>3. a[1] = x1 /\ b[1] = x2 /\ b[2] = x3 /\ b[3] = x4 /\ b[4] = x5 /\ c[1] = x1 /\ c[2] = x2 /\ c[3] = x3 /\ c[4] = x4 /\ c[5] = x5
    OBVIOUS
  <1> HIDE DEF a, b, c, S
  <1>4. \A i \in 1 .. Len(a) : c[i] = a[i]
    BY <1>2, <1>3
  <1>5. \A i \in 1 .. Len(b) : c[Len(a) + i] = b[i]
    BY <1>2, <1>3
  <1>6. Len(c) = Len(a) + Len(b)
    BY <1>2
  <1>7. a \in Seq(S)
    BY <1>1
  <1>8. b \in Seq(S)
    BY <1>1
  <1>9. c \in Seq(S)
    BY <1>1
  <1>10. a \o b = c
    BY <1>4, <1>5, <1>6, <1>7, <1>8, <1>9, CatIs
  <1> QED BY <1>10 DEF a, b, c

\* The parts of todo that the actions put together.
Joins ==
  /\ ((<<>> \o <<>>) \o <<"log">>) = Flush["no"] \o Rest["log"]
  /\ ((<<>> \o NewBegin) \o <<"log">>) = Flush["flush"] \o Rest["refresh_log"]
  /\ ((<<"end">> \o NewBegin) \o <<"log">>) = Flush["no"] \o Rest["end"]
  /\ (RecoveryBegin \o <<"log_recovered">>) = Flush["flush"] \o Rest["refresh_start"]
  /\ (<<>> \o <<"log_recovered">>) = Flush["no"] \o Rest["log_recovered"]
  /\ <<"flush">> = Flush["flush"] \o Rest["idle"]
  /\ <<>> = Flush["no"] \o Rest["idle"]
  /\ (<<"refresh", "entry">> \o Rest["idle"]) = Flush["no"] \o Rest["refresh_entry"]
  /\ (<<"open">> \o Rest["log"]) = Flush["no"] \o Rest["open_log"]
  /\ (<<"open">> \o Rest["start"]) = Flush["no"] \o Rest["open_start"]
  /\ (<<"open">> \o Rest["entry"]) = Flush["no"] \o Rest["open_entry"]
  /\ (<<"flush", "open">> \o Rest["log"]) = Flush["flush"] \o Rest["open_log"]
  /\ (<<"flush", "open">> \o Rest["start"]) = Flush["flush"] \o Rest["open_start"]
  /\ (<<"flush", "open">> \o Rest["entry"]) = Flush["flush"] \o Rest["open_entry"]
  /\ ((<<"flush">> \o <<"store">>) \o Rest["idle"]) = Flush["flush"] \o Rest["store"]
  /\ ((<<>> \o <<"store">>) \o Rest["idle"]) = Flush["no"] \o Rest["store"]
  /\ ((<<"flush">> \o <<"store_end">>) \o (Flush["flush"] \o Rest["refresh_log"])) = Flush["flush"] \o Rest["store_end"]
  /\ ((<<>> \o <<"store_end">>) \o (Flush["flush"] \o Rest["refresh_log"])) = Flush["no"] \o Rest["store_end"]
  /\ ((<<>> \o <<"store_start">>) \o Rest["log_recovered"]) = Flush["no"] \o Rest["store_start"]
  /\ <<"flush", "exit">> = Flush["flush"] \o Rest["exit"]
  /\ <<"recover", "flush", "recovered">> = Flush["no"] \o Rest["recover"]

LEMMA JoinsHold == Joins
  <1>1. ((<<>> \o <<>>) \o <<"log">>) = Flush["no"] \o Rest["log"]
    <2>1. ((<<>> \o <<>>) \o <<"log">>) = <<"log">>
      BY Cat_0_0, Cat_0_1
    <2>2. <<>> \o <<"log">> = <<"log">>
      BY Cat_0_1
    <2>3. ((<<>> \o <<>>) \o <<"log">>) = ((<<>> \o <<>>) \o <<"log">>)
      OBVIOUS
    <2>4. Flush["no"] \o Rest["log"] = <<>> \o <<"log">>
      BY DEF Flush, Rest
    <2> QED BY <2>1, <2>2, <2>3, <2>4
  <1>2. ((<<>> \o NewBegin) \o <<"log">>) = Flush["flush"] \o Rest["refresh_log"]
    <2>1. ((<<>> \o <<"flush", "refresh">>) \o <<"log">>) = <<"flush", "refresh", "log">>
      BY Cat_0_2, Cat_2_1
    <2>2. <<"flush">> \o <<"refresh", "log">> = <<"flush", "refresh", "log">>
      BY Cat_1_2
    <2>3. ((<<>> \o NewBegin) \o <<"log">>) = ((<<>> \o <<"flush", "refresh">>) \o <<"log">>)
      BY DEF Flush, Rest, NewBegin, RecoveryBegin
    <2>4. Flush["flush"] \o Rest["refresh_log"] = <<"flush">> \o <<"refresh", "log">>
      BY DEF Flush, Rest
    <2> QED BY <2>1, <2>2, <2>3, <2>4
  <1>3. ((<<"end">> \o NewBegin) \o <<"log">>) = Flush["no"] \o Rest["end"]
    <2>1. ((<<"end">> \o <<"flush", "refresh">>) \o <<"log">>) = <<"end", "flush", "refresh", "log">>
      <3>1. <<"end">> \o <<"flush", "refresh">> = <<"end", "flush", "refresh">>
        BY Cat_1_2
      <3>2. <<"end", "flush", "refresh">> \o <<"log">> = <<"end", "flush", "refresh", "log">>
        BY Cat_3_1
      <3> QED BY <3>1, <3>2, Zenon
    <2>2. <<>> \o <<"end", "flush", "refresh", "log">> = <<"end", "flush", "refresh", "log">>
      BY Cat_0_4
    <2>3. ((<<"end">> \o NewBegin) \o <<"log">>) = ((<<"end">> \o <<"flush", "refresh">>) \o <<"log">>)
      BY DEF Flush, Rest, NewBegin, RecoveryBegin
    <2>4. Flush["no"] \o Rest["end"] = <<>> \o <<"end", "flush", "refresh", "log">>
      BY DEF Flush, Rest
    <2> QED BY <2>1, <2>2, <2>3, <2>4
  <1>4. (RecoveryBegin \o <<"log_recovered">>) = Flush["flush"] \o Rest["refresh_start"]
    <2>1. (<<"flush", "refresh", "start">> \o <<"log_recovered">>) = <<"flush", "refresh", "start", "log_recovered">>
      BY Cat_3_1
    <2>2. <<"flush">> \o <<"refresh", "start", "log_recovered">> = <<"flush", "refresh", "start", "log_recovered">>
      BY Cat_1_3
    <2>3. (RecoveryBegin \o <<"log_recovered">>) = (<<"flush", "refresh", "start">> \o <<"log_recovered">>)
      BY DEF Flush, Rest, NewBegin, RecoveryBegin
    <2>4. Flush["flush"] \o Rest["refresh_start"] = <<"flush">> \o <<"refresh", "start", "log_recovered">>
      BY DEF Flush, Rest
    <2> QED BY <2>1, <2>2, <2>3, <2>4
  <1>5. (<<>> \o <<"log_recovered">>) = Flush["no"] \o Rest["log_recovered"]
    <2>1. (<<>> \o <<"log_recovered">>) = <<"log_recovered">>
      BY Cat_0_1
    <2>2. <<>> \o <<"log_recovered">> = <<"log_recovered">>
      BY Cat_0_1
    <2>3. (<<>> \o <<"log_recovered">>) = (<<>> \o <<"log_recovered">>)
      OBVIOUS
    <2>4. Flush["no"] \o Rest["log_recovered"] = <<>> \o <<"log_recovered">>
      BY DEF Flush, Rest
    <2> QED BY <2>1, <2>2, <2>3, <2>4
  <1>6. <<"flush">> = Flush["flush"] \o Rest["idle"]
    <2>1. <<"flush">> = <<"flush">>
      OBVIOUS
    <2>2. <<"flush">> \o <<>> = <<"flush">>
      BY Cat_1_0
    <2>3. <<"flush">> = <<"flush">>
      OBVIOUS
    <2>4. Flush["flush"] \o Rest["idle"] = <<"flush">> \o <<>>
      BY DEF Flush, Rest
    <2> QED BY <2>1, <2>2, <2>3, <2>4
  <1>7. <<>> = Flush["no"] \o Rest["idle"]
    <2>1. <<>> = <<>>
      OBVIOUS
    <2>2. <<>> \o <<>> = <<>>
      BY Cat_0_0
    <2>3. <<>> = <<>>
      OBVIOUS
    <2>4. Flush["no"] \o Rest["idle"] = <<>> \o <<>>
      BY DEF Flush, Rest
    <2> QED BY <2>1, <2>2, <2>3, <2>4
  <1>8. (<<"refresh", "entry">> \o Rest["idle"]) = Flush["no"] \o Rest["refresh_entry"]
    <2>1. (<<"refresh", "entry">> \o <<>>) = <<"refresh", "entry">>
      BY Cat_2_0
    <2>2. <<>> \o <<"refresh", "entry">> = <<"refresh", "entry">>
      BY Cat_0_2
    <2>3. (<<"refresh", "entry">> \o Rest["idle"]) = (<<"refresh", "entry">> \o <<>>)
      BY DEF Flush, Rest, NewBegin, RecoveryBegin
    <2>4. Flush["no"] \o Rest["refresh_entry"] = <<>> \o <<"refresh", "entry">>
      BY DEF Flush, Rest
    <2> QED BY <2>1, <2>2, <2>3, <2>4
  <1>9. (<<"open">> \o Rest["log"]) = Flush["no"] \o Rest["open_log"]
    <2>1. (<<"open">> \o <<"log">>) = <<"open", "log">>
      BY Cat_1_1
    <2>2. <<>> \o <<"open", "log">> = <<"open", "log">>
      BY Cat_0_2
    <2>3. (<<"open">> \o Rest["log"]) = (<<"open">> \o <<"log">>)
      BY DEF Flush, Rest, NewBegin, RecoveryBegin
    <2>4. Flush["no"] \o Rest["open_log"] = <<>> \o <<"open", "log">>
      BY DEF Flush, Rest
    <2> QED BY <2>1, <2>2, <2>3, <2>4
  <1>10. (<<"open">> \o Rest["start"]) = Flush["no"] \o Rest["open_start"]
    <2>1. (<<"open">> \o <<"start", "log_recovered">>) = <<"open", "start", "log_recovered">>
      BY Cat_1_2
    <2>2. <<>> \o <<"open", "start", "log_recovered">> = <<"open", "start", "log_recovered">>
      BY Cat_0_3
    <2>3. (<<"open">> \o Rest["start"]) = (<<"open">> \o <<"start", "log_recovered">>)
      BY DEF Flush, Rest, NewBegin, RecoveryBegin
    <2>4. Flush["no"] \o Rest["open_start"] = <<>> \o <<"open", "start", "log_recovered">>
      BY DEF Flush, Rest
    <2> QED BY <2>1, <2>2, <2>3, <2>4
  <1>11. (<<"open">> \o Rest["entry"]) = Flush["no"] \o Rest["open_entry"]
    <2>1. (<<"open">> \o <<"entry">>) = <<"open", "entry">>
      BY Cat_1_1
    <2>2. <<>> \o <<"open", "entry">> = <<"open", "entry">>
      BY Cat_0_2
    <2>3. (<<"open">> \o Rest["entry"]) = (<<"open">> \o <<"entry">>)
      BY DEF Flush, Rest, NewBegin, RecoveryBegin
    <2>4. Flush["no"] \o Rest["open_entry"] = <<>> \o <<"open", "entry">>
      BY DEF Flush, Rest
    <2> QED BY <2>1, <2>2, <2>3, <2>4
  <1>12. (<<"flush", "open">> \o Rest["log"]) = Flush["flush"] \o Rest["open_log"]
    <2>1. (<<"flush", "open">> \o <<"log">>) = <<"flush", "open", "log">>
      BY Cat_2_1
    <2>2. <<"flush">> \o <<"open", "log">> = <<"flush", "open", "log">>
      BY Cat_1_2
    <2>3. (<<"flush", "open">> \o Rest["log"]) = (<<"flush", "open">> \o <<"log">>)
      BY DEF Flush, Rest, NewBegin, RecoveryBegin
    <2>4. Flush["flush"] \o Rest["open_log"] = <<"flush">> \o <<"open", "log">>
      BY DEF Flush, Rest
    <2> QED BY <2>1, <2>2, <2>3, <2>4
  <1>13. (<<"flush", "open">> \o Rest["start"]) = Flush["flush"] \o Rest["open_start"]
    <2>1. (<<"flush", "open">> \o <<"start", "log_recovered">>) = <<"flush", "open", "start", "log_recovered">>
      BY Cat_2_2
    <2>2. <<"flush">> \o <<"open", "start", "log_recovered">> = <<"flush", "open", "start", "log_recovered">>
      BY Cat_1_3
    <2>3. (<<"flush", "open">> \o Rest["start"]) = (<<"flush", "open">> \o <<"start", "log_recovered">>)
      BY DEF Flush, Rest, NewBegin, RecoveryBegin
    <2>4. Flush["flush"] \o Rest["open_start"] = <<"flush">> \o <<"open", "start", "log_recovered">>
      BY DEF Flush, Rest
    <2> QED BY <2>1, <2>2, <2>3, <2>4
  <1>14. (<<"flush", "open">> \o Rest["entry"]) = Flush["flush"] \o Rest["open_entry"]
    <2>1. (<<"flush", "open">> \o <<"entry">>) = <<"flush", "open", "entry">>
      BY Cat_2_1
    <2>2. <<"flush">> \o <<"open", "entry">> = <<"flush", "open", "entry">>
      BY Cat_1_2
    <2>3. (<<"flush", "open">> \o Rest["entry"]) = (<<"flush", "open">> \o <<"entry">>)
      BY DEF Flush, Rest, NewBegin, RecoveryBegin
    <2>4. Flush["flush"] \o Rest["open_entry"] = <<"flush">> \o <<"open", "entry">>
      BY DEF Flush, Rest
    <2> QED BY <2>1, <2>2, <2>3, <2>4
  <1>15. ((<<"flush">> \o <<"store">>) \o Rest["idle"]) = Flush["flush"] \o Rest["store"]
    <2>1. ((<<"flush">> \o <<"store">>) \o <<>>) = <<"flush", "store">>
      BY Cat_1_1, Cat_2_0
    <2>2. <<"flush">> \o <<"store">> = <<"flush", "store">>
      BY Cat_1_1
    <2>3. ((<<"flush">> \o <<"store">>) \o Rest["idle"]) = ((<<"flush">> \o <<"store">>) \o <<>>)
      BY DEF Flush, Rest, NewBegin, RecoveryBegin
    <2>4. Flush["flush"] \o Rest["store"] = <<"flush">> \o <<"store">>
      BY DEF Flush, Rest
    <2> QED BY <2>1, <2>2, <2>3, <2>4
  <1>16. ((<<>> \o <<"store">>) \o Rest["idle"]) = Flush["no"] \o Rest["store"]
    <2>1. ((<<>> \o <<"store">>) \o <<>>) = <<"store">>
      BY Cat_0_1, Cat_1_0
    <2>2. <<>> \o <<"store">> = <<"store">>
      BY Cat_0_1
    <2>3. ((<<>> \o <<"store">>) \o Rest["idle"]) = ((<<>> \o <<"store">>) \o <<>>)
      BY DEF Flush, Rest, NewBegin, RecoveryBegin
    <2>4. Flush["no"] \o Rest["store"] = <<>> \o <<"store">>
      BY DEF Flush, Rest
    <2> QED BY <2>1, <2>2, <2>3, <2>4
  <1>17. ((<<"flush">> \o <<"store_end">>) \o (Flush["flush"] \o Rest["refresh_log"])) = Flush["flush"] \o Rest["store_end"]
    <2>1. ((<<"flush">> \o <<"store_end">>) \o (<<"flush">> \o <<"refresh", "log">>)) = <<"flush", "store_end", "flush", "refresh", "log">>
      <3>1. <<"flush">> \o <<"store_end">> = <<"flush", "store_end">> /\ <<"flush">> \o <<"refresh", "log">> = <<"flush", "refresh", "log">>
        BY Cat_1_1, Cat_1_2
      <3>2. <<"flush", "store_end">> \o <<"flush", "refresh", "log">> = <<"flush", "store_end", "flush", "refresh", "log">>
        BY Cat_2_3
      <3> QED BY <3>1, <3>2, Zenon
    <2>2. <<"flush">> \o <<"store_end", "flush", "refresh", "log">> = <<"flush", "store_end", "flush", "refresh", "log">>
      BY Cat_1_4
    <2>3. ((<<"flush">> \o <<"store_end">>) \o (Flush["flush"] \o Rest["refresh_log"])) = ((<<"flush">> \o <<"store_end">>) \o (<<"flush">> \o <<"refresh", "log">>))
      BY DEF Flush, Rest, NewBegin, RecoveryBegin
    <2>4. Flush["flush"] \o Rest["store_end"] = <<"flush">> \o <<"store_end", "flush", "refresh", "log">>
      BY DEF Flush, Rest
    <2> QED BY <2>1, <2>2, <2>3, <2>4
  <1>18. ((<<>> \o <<"store_end">>) \o (Flush["flush"] \o Rest["refresh_log"])) = Flush["no"] \o Rest["store_end"]
    <2>1. ((<<>> \o <<"store_end">>) \o (<<"flush">> \o <<"refresh", "log">>)) = <<"store_end", "flush", "refresh", "log">>
      <3>1. <<>> \o <<"store_end">> = <<"store_end">> /\ <<"flush">> \o <<"refresh", "log">> = <<"flush", "refresh", "log">>
        BY Cat_0_1, Cat_1_2
      <3>2. <<"store_end">> \o <<"flush", "refresh", "log">> = <<"store_end", "flush", "refresh", "log">>
        BY Cat_1_3
      <3> QED BY <3>1, <3>2, Zenon
    <2>2. <<>> \o <<"store_end", "flush", "refresh", "log">> = <<"store_end", "flush", "refresh", "log">>
      BY Cat_0_4
    <2>3. ((<<>> \o <<"store_end">>) \o (Flush["flush"] \o Rest["refresh_log"])) = ((<<>> \o <<"store_end">>) \o (<<"flush">> \o <<"refresh", "log">>))
      BY DEF Flush, Rest, NewBegin, RecoveryBegin
    <2>4. Flush["no"] \o Rest["store_end"] = <<>> \o <<"store_end", "flush", "refresh", "log">>
      BY DEF Flush, Rest
    <2> QED BY <2>1, <2>2, <2>3, <2>4
  <1>19. ((<<>> \o <<"store_start">>) \o Rest["log_recovered"]) = Flush["no"] \o Rest["store_start"]
    <2>1. ((<<>> \o <<"store_start">>) \o <<"log_recovered">>) = <<"store_start", "log_recovered">>
      BY Cat_0_1, Cat_1_1
    <2>2. <<>> \o <<"store_start", "log_recovered">> = <<"store_start", "log_recovered">>
      BY Cat_0_2
    <2>3. ((<<>> \o <<"store_start">>) \o Rest["log_recovered"]) = ((<<>> \o <<"store_start">>) \o <<"log_recovered">>)
      BY DEF Flush, Rest, NewBegin, RecoveryBegin
    <2>4. Flush["no"] \o Rest["store_start"] = <<>> \o <<"store_start", "log_recovered">>
      BY DEF Flush, Rest
    <2> QED BY <2>1, <2>2, <2>3, <2>4
  <1>20. <<"flush", "exit">> = Flush["flush"] \o Rest["exit"]
    <2>1. <<"flush", "exit">> = <<"flush", "exit">>
      OBVIOUS
    <2>2. <<"flush">> \o <<"exit">> = <<"flush", "exit">>
      BY Cat_1_1
    <2>3. <<"flush", "exit">> = <<"flush", "exit">>
      OBVIOUS
    <2>4. Flush["flush"] \o Rest["exit"] = <<"flush">> \o <<"exit">>
      BY DEF Flush, Rest
    <2> QED BY <2>1, <2>2, <2>3, <2>4
  <1>21. <<"recover", "flush", "recovered">> = Flush["no"] \o Rest["recover"]
    <2>1. <<"recover", "flush", "recovered">> = <<"recover", "flush", "recovered">>
      OBVIOUS
    <2>2. <<>> \o <<"recover", "flush", "recovered">> = <<"recover", "flush", "recovered">>
      BY Cat_0_3
    <2>3. <<"recover", "flush", "recovered">> = <<"recover", "flush", "recovered">>
      OBVIOUS
    <2>4. Flush["no"] \o Rest["recover"] = <<>> \o <<"recover", "flush", "recovered">>
      BY DEF Flush, Rest
    <2> QED BY <2>1, <2>2, <2>3, <2>4
  <1> QED BY <1>1, <1>2, <1>3, <1>4, <1>5, <1>6, <1>7, <1>8, <1>9, <1>10, <1>11, <1>12, <1>13, <1>14, <1>15, <1>16, <1>17, <1>18, <1>19, <1>20, <1>21 DEF Joins

LEMMA FlushIs ==
  ASSUME NEW f \in FlushNames
  PROVE  Flush[f] \in Seq(Steps) /\ (f # "no" => Len(Flush[f]) > 0)
  <1>1. CASE f = "no"
    <2>1. Flush[f] = <<>>
      BY <1>1 DEF Flush
    <2>2. <<>> \in Seq(Steps) /\ Len(<<>>) = 0
      BY DEF Steps
    <2> QED BY <1>1, <2>1, <2>2
  <1>2. CASE f = "flush"
    <2>1. Flush[f] = <<"flush">>
      BY <1>2 DEF Flush
    <2>2. <<"flush">> \in Seq(Steps) /\ Len(<<"flush">>) = 1
      BY DEF Steps
    <2> QED BY <1>2, <2>1, <2>2
  <1>3. CASE f = "keep"
    <2>1. Flush[f] = <<"keep", "count">>
      BY <1>3 DEF Flush
    <2>2. <<"keep", "count">> \in Seq(Steps) /\ Len(<<"keep", "count">>) = 2
      BY DEF Steps
    <2> QED BY <1>3, <2>1, <2>2
  <1>4. CASE f = "count"
    <2>1. Flush[f] = <<"count">>
      BY <1>4 DEF Flush
    <2>2. <<"count">> \in Seq(Steps) /\ Len(<<"count">>) = 1
      BY DEF Steps
    <2> QED BY <1>4, <2>1, <2>2
  <1>5. CASE f = "open"
    <2>1. Flush[f] = <<"open">>
      BY <1>5 DEF Flush
    <2>2. <<"open">> \in Seq(Steps) /\ Len(<<"open">>) = 1
      BY DEF Steps
    <2> QED BY <1>5, <2>1, <2>2
  <1> QED BY <1>1, <1>2, <1>3, <1>4, <1>5 DEF FlushNames

\* The parts whose rest is any.
LEMMA AnyRest ==
  ASSUME NEW k \in RestNames
  PROVE  /\ <<>> \o Rest[k] = Flush["no"] \o Rest[k]
         /\ <<"keep", "count">> \o Rest[k] = Flush["keep"] \o Rest[k]
         /\ <<"open">> \o Rest[k] = Flush["open"] \o Rest[k]
         /\ \A f \in FlushNames : <<>> \o (Flush[f] \o Rest[k]) = Flush[f] \o Rest[k]
  <1>1. /\ <<>> \o Rest[k] = Flush["no"] \o Rest[k]
        /\ <<"keep", "count">> \o Rest[k] = Flush["keep"] \o Rest[k]
        /\ <<"open">> \o Rest[k] = Flush["open"] \o Rest[k]
    BY DEF Flush
  <1>2. ASSUME NEW f \in FlushNames PROVE <<>> \o (Flush[f] \o Rest[k]) = Flush[f] \o Rest[k]
    <2>1. Rest[k] \in Seq(Steps)
      BY RestIs
    <2>2. Flush[f] \in Seq(Steps)
      BY FlushIs
    <2>3. Flush[f] \o Rest[k] \in Seq(Steps)
      BY <2>1, <2>2
    <2> QED BY <2>3
  <1> QED BY <1>1, <1>2


LEMMA LeastNumber ==
  ASSUME NEW S, S \subseteq Nat, S # {}
  PROVE  \E x \in S : \A y \in S : x <= y
  <1>1. PICK x \in S : \A y \in S : ~(<<y, x>> \in OpToRel(<, Nat))
    BY WFMin, NatLessThanWellFounded
  <1>2. \A y \in Nat : y < x => <<y, x>> \in OpToRel(<, Nat)
    <2> SUFFICES ASSUME NEW y \in Nat, y < x PROVE <<y, x>> \in OpToRel(<, Nat)
      OBVIOUS
    <2>1. <<y, x>> \in Nat \X Nat /\ <<y, x>>[1] = y /\ <<y, x>>[2] = x
      OBVIOUS
    <2> QED BY <2>1, Zenon DEF OpToRel
  <1>3. \A y \in S : ~(y < x)
    BY <1>1, <1>2, Zenon
  <1> QED BY <1>3

UpStep(f, i) == IF i <= 1 THEN 1 ELSE 2 * f[(i + 1) \div 2]
UpWalk(f, n) == f = [i \in 0 .. n |-> UpStep(f, i)]

LEMMA UpWalkExists == \A n \in Nat : \E f : UpWalk(f, n)
  <1> DEFINE T == {n \in Nat : ~ \E f : UpWalk(f, n)}
  <1> SUFFICES ASSUME T # {} PROVE FALSE
    OBVIOUS
  <1>1. PICK n \in T : \A y \in T : n <= y
    BY LeastNumber
  <1>2. CASE n = 0
    <2>1. UpWalk([i \in 0 .. 0 |-> 1], 0)
      BY DEF UpWalk, UpStep
    <2> QED BY <1>1, <1>2, <2>1
  <1>3. CASE n # 0
    <2>1. n \in Nat /\ n - 1 \in Nat /\ n - 1 \notin T
      BY <1>1, <1>3
    <2>2. PICK f : UpWalk(f, n - 1)
      BY <2>1
    <2>3. \A i \in 0 .. n - 1 : f[i] = UpStep(f, i)
      BY <2>2 DEF UpWalk
    <2> HIDE DEF T
    <2> DEFINE g == [i \in 0 .. n |-> IF i = n THEN UpStep(f, n) ELSE f[i]]
    <2>4. \A i \in 0 .. n : i > 1 => (i + 1) \div 2 \in 0 .. n - 1 /\ (i + 1) \div 2 # n
      BY <2>1
    <2>5. \A i \in 0 .. n : i > 1 => g[(i + 1) \div 2] = f[(i + 1) \div 2]
      BY <2>1, <2>4
    <2>6. \A i \in 0 .. n : UpStep(g, i) = UpStep(f, i)
      BY <2>5 DEF UpStep
    <2>7. \A i \in 0 .. n : g[i] = UpStep(g, i)
      BY <2>1, <2>3, <2>6
    <2>8. UpWalk(g, n)
      BY <2>7 DEF UpWalk
    <2> QED BY <2>8 DEF T
  <1> QED BY <1>2, <1>3

\* roundup_pow_of_two makes nothing smaller.
LEMMA RoundUp ==
  ASSUME NEW n \in Nat
  PROVE  PowerOfTwo(n) \in Nat /\ PowerOfTwo(n) >= n
  <1> DEFINE f == CHOOSE g : UpWalk(g, n)
  <1>1. UpWalk(f, n)
    BY UpWalkExists
  <1>2. PowerOfTwo(n) = f[n]
    BY DEF PowerOfTwo, UpWalk, UpStep
  <1> HIDE DEF f
  <1>3. \A i \in 0 .. n : f[i] = UpStep(f, i)
    BY <1>1 DEF UpWalk
  <1> DEFINE T == {i \in 0 .. n : ~(f[i] \in Nat /\ f[i] >= i)}
  <1>4. SUFFICES T = {}
    BY <1>2
  <1> SUFFICES ASSUME T # {} PROVE FALSE
    OBVIOUS
  <1>5. PICK m \in T : \A y \in T : m <= y
    <2>1. T \subseteq Nat
      OBVIOUS
    <2> QED BY <2>1, LeastNumber
  <1>6. CASE m <= 1
    BY <1>3, <1>5, <1>6 DEF UpStep
  <1>7. CASE m > 1
    <2> DEFINE h == (m + 1) \div 2
    <2>1. m \in 0 .. n /\ h \in 0 .. n /\ h < m /\ 2 * h >= m
      BY <1>5, <1>7
    <2>2. f[h] \in Nat /\ f[h] >= h
      BY <1>5, <2>1
    <2>3. f[m] = 2 * f[h]
      BY <1>3, <1>7, <2>1 DEF UpStep
    <2> HIDE DEF h
    <2>4. f[m] \in Nat /\ f[m] >= m
      BY <2>1, <2>2, <2>3
    <2> QED BY <1>5, <2>4
  <1> QED BY <1>5, <1>6, <1>7

LEMMA EntriesOf ==
  ASSUME NEW A, NEW s \in Seq(Units(A))
  PROVE  EntriesIn(s) \subseteq A
  <1> SUFFICES ASSUME NEW x \in EntriesIn(s) PROVE x \in A
    OBVIOUS
  <1>1. PICK u \in ToSet(s) : x = u[1] /\ x # 0
    BY DEF EntriesIn
  <1>2. PICK i \in 1 .. Len(s) : u = s[i]
    BY <1>1 DEF ToSet
  <1>3. u \in Units(A)
    BY <1>2
  <1> QED BY <1>1, <1>3 DEF Units

LEMMA FrontOf ==
  ASSUME NEW S, NEW s \in Seq(S), NEW n \in Nat, n <= Len(s)
  PROVE  SubSeq(s, 1, n) \in Seq(S) /\ Len(SubSeq(s, 1, n)) = n
  OBVIOUS

LEMMA PartOf ==
  ASSUME NEW S, NEW s \in Seq(S), NEW m \in Nat, NEW n \in Nat, m + n <= Len(s)
  PROVE  SubSeq(s, m + 1, m + n) \in Seq(S) /\ Len(SubSeq(s, m + 1, m + n)) = n
  OBVIOUS

LEMMA MovedDown ==
  ASSUME NEW S, NEW s \in Seq(S), NEW m \in Nat, NEW n \in Nat, m + n <= Len(s)
  PROVE  MoveDown(s, m, n) \in Seq(S) /\ Len(MoveDown(s, m, n)) = Len(s)
  <1> DEFINE x == SubSeq(s, m + 1, m + n)  y == SubSeq(s, n + 1, Len(s))
  <1>1. x \in Seq(S) /\ Len(x) = n
    BY PartOf
  <1>2. y \in Seq(S) /\ Len(y) = Len(s) - n
    OBVIOUS
  <1> HIDE DEF x, y
  <1>3. x \o y \in Seq(S) /\ Len(x \o y) = n + (Len(s) - n)
    BY <1>1, <1>2
  <1>4. Len(x \o y) = Len(s)
    BY <1>3
  <1> QED BY <1>3, <1>4 DEF MoveDown, x, y

LEMMA MoreUnits ==
  ASSUME NEW A, NEW B, A \subseteq B
  PROVE  Seq(Units(A)) \subseteq Seq(Units(B)) /\ Seq(Seq(Units(A))) \subseteq Seq(Seq(Units(B)))
  <1>1. Units(A) \subseteq Units(B)
    BY DEF Units
  <1>2. Seq(Units(A)) \subseteq Seq(Units(B))
    BY <1>1
  <1>3. Seq(Seq(Units(A))) \subseteq Seq(Seq(Units(B)))
    BY <1>2
  <1> QED BY <1>2, <1>3

-----------------------------------------------------------------------------
(* States.                                                                 *)

LEMMA KnownVals ==
  ASSUME Known
  PROVE  Vals(Cursor, mm.finished, cap, Disk, file, rec, Cardinality(accepted), io.real, io.err)
  <1>1. /\ mm \in [cells : Seq(Units(accepted)), finished : Nat, path : Nat]
        /\ io \in [real : Nat, err : Errs] /\ files \in Seq(Seq(Units(accepted)))
    BY DEF Known
  <1>2. Cursor \in Nat /\ mm.finished \in Nat /\ io.real \in Nat /\ io.err \in Errs /\ Len(files) \in Nat
    BY <1>1 DEF Cursor
  <1>3. cap \in Nat /\ file \in Nat /\ rec \in Recs /\ Cardinality(accepted) \in Nat
    BY <1>2, FileConstants DEF Known, Recs
  <1>4. Disk \in {"full", "fine"}
    BY DEF Disk
  <1> QED BY <1>2, <1>3, <1>4 DEF Vals

\* Nothing but the call and the recovery status changes.
LEMMA Light ==
  ASSUME Inv, UNCHANGED <<files, mm, cap, file, drop, io, alive, history>>,
         rec' \in Recs, listed' \in BOOLEAN
  PROVE  Known' /\ Sizes(Cursor, mm.finished, cap, io.real)'
  <1>1. Known /\ Sizes(Cursor, mm.finished, cap, io.real)
    BY DEF Inv
  <1>2. Known'
    BY <1>1 DEF Known, Recs, history
  <1>3. Sizes(Cursor, mm.finished, cap, io.real)'
    BY <1>1 DEF Cursor, Sizes
  <1> QED BY <1>2, <1>3

LEMMA Standing ==
  ASSUME Inv, NEW h, At(h)
  PROVE  alive /\ \E f \in FlushNames, k \in RestNames : Called(f, k) /\ Spot(h, f, k, Tail(todo))
  <1>1. alive /\ todo # <<>> /\ Head(todo) = h
    BY DEF At
  <1>2. PICK f \in FlushNames, k \in RestNames : Called(f, k)
    BY <1>1 DEF Inv
  <1>3. todo = Flush[f] \o Rest[k]
    BY <1>2 DEF Called
  <1>4. Spot(Head(todo), f, k, Tail(todo))
    BY <1>1, <1>3, Where
  <1> QED BY <1>1, <1>2, <1>4

LEMMA NothingLeft ==
  ASSUME NEW f \in FlushNames, NEW k \in RestNames, Flush[f] \o Rest[k] = <<>>
  PROVE  f = "no" /\ k = "idle"
  <1> DEFINE g == Flush[f]  s == Rest[k]
  <1>1. s \in Seq(Steps) /\ (s = <<>> <=> k = "idle")
    BY RestIs
  <1>2. g \in Seq(Steps) /\ (f # "no" => Len(g) > 0)
    BY FlushIs
  <1>3. g \o s = <<>>
    OBVIOUS
  <1>4. f = "no" => g = <<>>
    BY DEF Flush
  <1> HIDE DEF g, s
  <1>5. Len(g \o s) = Len(g) + Len(s) /\ Len(g) \in Nat /\ Len(s) \in Nat
    BY <1>1, <1>2
  <1>6. Len(g) + Len(s) = 0
    <2>1. Len(<<>>) = 0
      OBVIOUS
    <2> QED BY <1>3, <1>5, <2>1
  <1> DEFINE x == Len(g)  y == Len(s)
  <1>7. x \in Nat /\ y \in Nat /\ x + y = 0 /\ (f # "no" => x > 0)
    BY <1>2, <1>5, <1>6
  <1> HIDE DEF x, y
  <1>8. f = "no"
    BY <1>7
  <1>9. s = <<>>
    BY <1>1, <1>3, <1>4, <1>8
  <1> QED BY <1>1, <1>8, <1>9

LEMMA Waiting ==
  ASSUME Inv, alive, todo = <<>>
  PROVE  Called("no", "idle")
  <1>1. PICK f \in FlushNames, k \in RestNames : Called(f, k)
    BY DEF Inv
  <1>2. Flush[f] \o Rest[k] = <<>>
    BY <1>1 DEF Called
  <1>3. f = "no" /\ k = "idle"
    BY <1>2, NothingLeft
  <1> QED BY <1>1, <1>3

\* The call goes on.
LEMMA GoesOn ==
  ASSUME Known', Sizes(Cursor, mm.finished, cap, io.real)', alive',
         NEW f \in FlushNames, NEW k \in RestNames, Called(f, k)'
  PROVE  Inv'
  BY DEF Inv

Stays == UNCHANGED <<files, mm, cap, file, drop, io, alive, history>>

\* The call goes on, and nothing else changes but the recovery status.
LEMMA Onward ==
  ASSUME Inv, alive, Stays, rec' \in Recs, listed' \in BOOLEAN,
         NEW f \in FlushNames, NEW k \in RestNames, todo' = Flush[f] \o Rest[k],
         Place(f, k, Cursor, mm.finished, cap, Disk, file, rec', Cardinality(accepted), io.real, io.err)
  PROVE  Inv'
  <1>1. Known' /\ Sizes(Cursor, mm.finished, cap, io.real)'
    BY Light DEF Stays
  <1>2. /\ Cursor' = Cursor /\ mm' = mm /\ cap' = cap /\ Disk' = Disk /\ file' = file
        /\ accepted' = accepted /\ io' = io /\ alive'
    BY DEF Stays, Cursor, Disk, history
  <1>3. Called(f, k)'
    BY <1>2 DEF Called
  <1> QED BY <1>1, <1>2, <1>3, GoesOn

\* What the lemmas on places ask for.
Stand(f, k) ==
  /\ Vals(Cursor, mm.finished, cap, Disk, file, rec, Cardinality(accepted), io.real, io.err)
  /\ Sizes(Cursor, mm.finished, cap, io.real)
  /\ Place(f, k, Cursor, mm.finished, cap, Disk, file, rec, Cardinality(accepted), io.real, io.err)

LEMMA StandsAt ==
  ASSUME Inv, NEW f, NEW k, Called(f, k)
  PROVE  Stand(f, k) /\ rec \in Recs /\ listed \in BOOLEAN
  BY KnownVals DEF Inv, Called, Stand, Known, Recs

LEMMA Kept_process_new ==
  ASSUME Inv, process_new
  PROVE  Inv'
  <1>1. /\ alive /\ todo = <<>> /\ Cardinality(accepted) < MaxEntries /\ Stays
        /\ rec' = "recovered" /\ listed' = FALSE
    BY DEF process_new, Stays
  <1>2. rec' \in Recs /\ listed' \in BOOLEAN
    BY <1>1 DEF Recs
  <1>3. Stand("no", "idle") /\ rec \in Recs
    BY <1>1, Waiting, StandsAt
  <1>4. /\ rec = "recovered" => Place("no", "log", Cursor, mm.finished, cap, Disk, file, rec', Cardinality(accepted), io.real, io.err)
        /\ rec = "in_recovering" => Place("no", "end", Cursor, mm.finished, cap, Disk, file, rec', Cardinality(accepted), io.real, io.err)
        /\ rec # "recovered" => Place("flush", "refresh_log", Cursor, mm.finished, cap, Disk, file, rec', Cardinality(accepted), io.real, io.err)
    BY <1>1, <1>3, NewPlace DEF Stand
  <1>5. CASE rec = "recovered"
    <2>1. todo' = ((<<>> \o <<>>) \o <<"log">>)
      BY <1>5 DEF process_new
    <2>2. todo' = Flush["no"] \o Rest["log"]
      BY <2>1, JoinsHold DEF Joins
    <2> QED BY <1>1, <1>2, <1>4, <1>5, <2>2, Onward DEF FlushNames, RestNames
  <1>6. CASE rec # "recovered" /\ ~(rec = "in_recovering" /\ listed)
    <2>1. todo' = ((<<>> \o NewBegin) \o <<"log">>)
      BY <1>6 DEF process_new
    <2>2. todo' = Flush["flush"] \o Rest["refresh_log"]
      BY <2>1, JoinsHold DEF Joins
    <2> QED BY <1>1, <1>2, <1>4, <1>6, <2>2, Onward DEF FlushNames, RestNames
  <1>7. CASE rec = "in_recovering" /\ listed
    <2>1. todo' = ((<<"end">> \o NewBegin) \o <<"log">>)
      BY <1>7 DEF process_new
    <2>2. todo' = Flush["no"] \o Rest["end"]
      BY <2>1, JoinsHold DEF Joins
    <2> QED BY <1>1, <1>2, <1>4, <1>7, <2>2, Onward DEF FlushNames, RestNames, EndRests
  <1> QED BY <1>5, <1>6, <1>7

LEMMA Kept_process_recovered ==
  ASSUME Inv, process_recovered
  PROVE  Inv'
  <1>1. /\ alive /\ todo = <<>> /\ Cardinality(accepted) < MaxEntries /\ Stays /\ Recovers
        /\ rec \in {"not_started", "in_recovering"} /\ rec' = "in_recovering" /\ listed' = listed
    BY DEF process_recovered, Stays
  <1>2. Stand("no", "idle") /\ listed \in BOOLEAN
    BY <1>1, Waiting, StandsAt
  <1>3. rec' \in Recs /\ listed' \in BOOLEAN
    BY <1>1, <1>2 DEF Recs
  <1>4. /\ rec = "not_started" => Place("flush", "refresh_start", Cursor, mm.finished, cap, Disk, file, rec', Cardinality(accepted), io.real, io.err)
        /\ rec = "in_recovering" => Place("no", "log_recovered", Cursor, mm.finished, cap, Disk, file, rec', Cardinality(accepted), io.real, io.err)
    BY <1>1, <1>2, RecoveredPlace DEF Stand
  <1>5. CASE rec = "not_started"
    <2>1. todo' = (RecoveryBegin \o <<"log_recovered">>)
      BY <1>5 DEF process_recovered
    <2>2. todo' = Flush["flush"] \o Rest["refresh_start"]
      BY <2>1, JoinsHold DEF Joins
    <2> QED BY <1>1, <1>3, <1>4, <1>5, <2>2, Onward DEF FlushNames, RestNames, StartRests
  <1>6. CASE rec = "in_recovering"
    <2>1. todo' = (<<>> \o <<"log_recovered">>)
      BY <1>6 DEF process_recovered
    <2>2. todo' = Flush["no"] \o Rest["log_recovered"]
      BY <2>1, JoinsHold DEF Joins
    <2> QED BY <1>1, <1>3, <1>4, <1>6, <2>2, Onward DEF FlushNames, RestNames
  <1> QED BY <1>1, <1>5, <1>6

LEMMA Kept_flush_appenders_cache ==
  ASSUME Inv, flush_appenders_cache
  PROVE  Inv'
  <1>1. /\ alive /\ todo = <<>> /\ Stays /\ file # 0 /\ rec' = rec /\ listed' = listed
        /\ todo' = <<"flush">>
    BY DEF flush_appenders_cache, Stays, log_state
  <1>2. Stand("no", "idle") /\ rec' \in Recs /\ listed' \in BOOLEAN
    BY <1>1, Waiting, StandsAt
  <1>3. Place("flush", "idle", Cursor, mm.finished, cap, Disk, file, rec, Cardinality(accepted), io.real, io.err)
    BY <1>1, <1>2, FlushPlace DEF Stand
  <1>4. todo' = Flush["flush"] \o Rest["idle"]
    BY <1>1, JoinsHold DEF Joins
  <1> QED BY <1>1, <1>2, <1>3, <1>4, Onward DEF FlushNames, RestNames, StartRests, EndRests, RecoverRests

LEMMA Kept_log_impl ==
  ASSUME Inv, log_impl
  PROVE  Inv'
  <1>1. PICK h \in {"log", "log_recovered"} : At(h)
    BY DEF log_impl
  <1>2. PICK f \in FlushNames, k \in RestNames : Called(f, k) /\ Spot(h, f, k, Tail(todo))
    BY <1>1, Standing
  <1>3. f = "no" /\ k \in {"log", "log_recovered"} /\ Tail(todo) = Rest["idle"]
    BY <1>1, <1>2 DEF Spot
  <1>4. alive /\ Stays /\ rec' = rec /\ listed' = listed
    BY <1>1 DEF log_impl, At, Stays, log_state
  <1>5. Stand("no", k) /\ rec' \in Recs /\ listed' \in BOOLEAN
    BY <1>2, <1>3, <1>4, StandsAt
  <1>6. Place("no", "idle", Cursor, mm.finished, cap, Disk, file, rec, Cardinality(accepted), io.real, io.err) /\ (Disk = "fine" => Place("no", "refresh_entry", Cursor, mm.finished, cap, Disk, file, rec, Cardinality(accepted), io.real, io.err))
    BY <1>3, <1>5, LogPlace DEF Stand
  <1>7. CASE drop \/ (At("log_recovered") /\ ~listed)
    <2>1. todo' = <<>> \o Tail(todo)
      BY <1>7 DEF log_impl, Then
    <2>2. todo' = Flush["no"] \o Rest["idle"]
      BY <1>3, <2>1 DEF Flush
    <2> QED BY <1>4, <1>5, <1>6, <2>2, Onward DEF FlushNames, RestNames, StartRests, EndRests, RecoverRests
  <1>8. CASE ~(drop \/ (At("log_recovered") /\ ~listed))
    <2>1. todo' = <<"refresh", "entry">> \o Tail(todo)
      BY <1>8 DEF log_impl, Then
    <2>2. todo' = Flush["no"] \o Rest["refresh_entry"]
      BY <1>3, <2>1, JoinsHold DEF Joins
    <2>3. Disk = "fine"
      BY <1>8 DEF Disk
    <2> QED BY <1>4, <1>5, <1>6, <2>2, <2>3, Onward DEF FlushNames, RestNames, StartRests, EndRests, RecoverRests
  <1> QED BY <1>7, <1>8

LEMMA Kept_refresh_file_handle ==
  ASSUME Inv, refresh_file_handle
  PROVE  Inv'
  <1>1. At("refresh") /\ Stays /\ rec' = rec /\ listed' = listed
    BY DEF refresh_file_handle, Stays, log_state
  <1>2. PICK f \in FlushNames, k \in RestNames : Called(f, k) /\ Spot("refresh", f, k, Tail(todo))
    BY <1>1, Standing
  <1>3. /\ f = "no"
        /\ \/ k = "refresh_log" /\ Tail(todo) = Rest["log"]
           \/ k = "refresh_start" /\ Tail(todo) = Rest["start"]
           \/ k = "refresh_entry" /\ Tail(todo) = Rest["entry"]
    BY <1>2 DEF Spot
  <1>4. alive /\ Stand("no", k) /\ rec' \in Recs /\ listed' \in BOOLEAN
    BY <1>1, <1>2, <1>3, StandsAt DEF At
  <1>5. \/ file # 0 /\ todo' = <<>> \o Tail(todo)
        \/ todo' = <<"open">> \o Tail(todo)
        \/ file # 0 /\ todo' = <<"flush", "open">> \o Tail(todo)
    BY DEF refresh_file_handle, Then, NewFile, NeedCreateNewFile
  <1>6. CASE k = "refresh_log" /\ Tail(todo) = Rest["log"]
    <2>1. /\ file # 0 => Place("no", "log", Cursor, mm.finished, cap, Disk, file, rec, Cardinality(accepted), io.real, io.err)
          /\ file # 0 => Place("flush", "open_log", Cursor, mm.finished, cap, Disk, file, rec, Cardinality(accepted), io.real, io.err)
          /\ Place("no", "open_log", Cursor, mm.finished, cap, Disk, file, rec, Cardinality(accepted), io.real, io.err)
      BY <1>4, <1>6, Refresh_log DEF Stand
    <2>2. \/ file # 0 /\ todo' = Flush["no"] \o Rest["log"]
          \/ todo' = Flush["no"] \o Rest["open_log"]
          \/ file # 0 /\ todo' = Flush["flush"] \o Rest["open_log"]
      <3>1. /\ <<"open">> \o Rest["log"] = Flush["no"] \o Rest["open_log"]
            /\ <<"flush", "open">> \o Rest["log"] = Flush["flush"] \o Rest["open_log"]
        BY JoinsHold DEF Joins
      <3>2. <<>> \o Rest["log"] = Flush["no"] \o Rest["log"]
        BY DEF Flush
      <3> QED BY <1>5, <1>6, <3>1, <3>2
    <2>3. CASE file # 0 /\ todo' = Flush["no"] \o Rest["log"]
      BY <1>1, <1>4, <2>1, <2>3, Onward DEF FlushNames, RestNames, StartRests, EndRests, RecoverRests
    <2>4. CASE todo' = Flush["no"] \o Rest["open_log"]
      BY <1>1, <1>4, <2>1, <2>4, Onward DEF FlushNames, RestNames, StartRests, EndRests, RecoverRests
    <2>5. CASE file # 0 /\ todo' = Flush["flush"] \o Rest["open_log"]
      BY <1>1, <1>4, <2>1, <2>5, Onward DEF FlushNames, RestNames, StartRests, EndRests, RecoverRests
    <2> QED BY <2>2, <2>3, <2>4, <2>5
  <1>7. CASE k = "refresh_start" /\ Tail(todo) = Rest["start"]
    <2>1. /\ file # 0 => Place("no", "start", Cursor, mm.finished, cap, Disk, file, rec, Cardinality(accepted), io.real, io.err)
          /\ file # 0 => Place("flush", "open_start", Cursor, mm.finished, cap, Disk, file, rec, Cardinality(accepted), io.real, io.err)
          /\ Place("no", "open_start", Cursor, mm.finished, cap, Disk, file, rec, Cardinality(accepted), io.real, io.err)
      BY <1>4, <1>7, Refresh_start DEF Stand
    <2>2. \/ file # 0 /\ todo' = Flush["no"] \o Rest["start"]
          \/ todo' = Flush["no"] \o Rest["open_start"]
          \/ file # 0 /\ todo' = Flush["flush"] \o Rest["open_start"]
      <3>1. /\ <<"open">> \o Rest["start"] = Flush["no"] \o Rest["open_start"]
            /\ <<"flush", "open">> \o Rest["start"] = Flush["flush"] \o Rest["open_start"]
        BY JoinsHold DEF Joins
      <3>2. <<>> \o Rest["start"] = Flush["no"] \o Rest["start"]
        BY DEF Flush
      <3> QED BY <1>5, <1>7, <3>1, <3>2
    <2>3. CASE file # 0 /\ todo' = Flush["no"] \o Rest["start"]
      BY <1>1, <1>4, <2>1, <2>3, Onward DEF FlushNames, RestNames, StartRests, EndRests, RecoverRests
    <2>4. CASE todo' = Flush["no"] \o Rest["open_start"]
      BY <1>1, <1>4, <2>1, <2>4, Onward DEF FlushNames, RestNames, StartRests, EndRests, RecoverRests
    <2>5. CASE file # 0 /\ todo' = Flush["flush"] \o Rest["open_start"]
      BY <1>1, <1>4, <2>1, <2>5, Onward DEF FlushNames, RestNames, StartRests, EndRests, RecoverRests
    <2> QED BY <2>2, <2>3, <2>4, <2>5
  <1>8. CASE k = "refresh_entry" /\ Tail(todo) = Rest["entry"]
    <2>1. /\ file # 0 => Place("no", "entry", Cursor, mm.finished, cap, Disk, file, rec, Cardinality(accepted), io.real, io.err)
          /\ file # 0 => Place("flush", "open_entry", Cursor, mm.finished, cap, Disk, file, rec, Cardinality(accepted), io.real, io.err)
          /\ Place("no", "open_entry", Cursor, mm.finished, cap, Disk, file, rec, Cardinality(accepted), io.real, io.err)
      BY <1>4, <1>8, Refresh_entry DEF Stand
    <2>2. \/ file # 0 /\ todo' = Flush["no"] \o Rest["entry"]
          \/ todo' = Flush["no"] \o Rest["open_entry"]
          \/ file # 0 /\ todo' = Flush["flush"] \o Rest["open_entry"]
      <3>1. /\ <<"open">> \o Rest["entry"] = Flush["no"] \o Rest["open_entry"]
            /\ <<"flush", "open">> \o Rest["entry"] = Flush["flush"] \o Rest["open_entry"]
        BY JoinsHold DEF Joins
      <3>2. <<>> \o Rest["entry"] = Flush["no"] \o Rest["entry"]
        BY DEF Flush
      <3> QED BY <1>5, <1>8, <3>1, <3>2
    <2>3. CASE file # 0 /\ todo' = Flush["no"] \o Rest["entry"]
      BY <1>1, <1>4, <2>1, <2>3, Onward DEF FlushNames, RestNames, StartRests, EndRests, RecoverRests
    <2>4. CASE todo' = Flush["no"] \o Rest["open_entry"]
      BY <1>1, <1>4, <2>1, <2>4, Onward DEF FlushNames, RestNames, StartRests, EndRests, RecoverRests
    <2>5. CASE file # 0 /\ todo' = Flush["flush"] \o Rest["open_entry"]
      BY <1>1, <1>4, <2>1, <2>5, Onward DEF FlushNames, RestNames, StartRests, EndRests, RecoverRests
    <2> QED BY <2>2, <2>3, <2>4, <2>5
  <1> QED BY <1>3, <1>6, <1>7, <1>8

LEMMA Kept_alloc_entry ==
  ASSUME Inv, alloc_entry
  PROVE  Inv'
  <1>1. At("entry") /\ Stays /\ rec' = rec /\ listed' = listed /\ file # 0
    BY DEF alloc_entry, alloc, Stays, log_state
  <1>2. PICK f \in FlushNames, k \in RestNames : Called(f, k) /\ Spot("entry", f, k, Tail(todo))
    BY <1>1, Standing
  <1>3. f = "no" /\ k = "entry" /\ Tail(todo) = Rest["idle"]
    BY <1>2 DEF Spot
  <1>4. alive /\ Stand("no", "entry") /\ rec' \in Recs /\ listed' \in BOOLEAN
    BY <1>1, <1>2, <1>3, StandsAt DEF At
  <1>5. /\ Needs(2) => Place("flush", "store", Cursor, mm.finished, cap, Disk, file, rec, Cardinality(accepted), io.real, io.err)
        /\ ~Needs(2) => Place("no", "store", Cursor, mm.finished, cap, Disk, file, rec, Cardinality(accepted), io.real, io.err)
    BY <1>1, <1>4, AllocPlace DEF Stand, Needs
  <1>6. CASE Needs(2)
    <2>1. todo' = (<<"flush">> \o <<"store">>) \o Tail(todo)
      BY <1>6 DEF alloc_entry, alloc, Then
    <2>2. todo' = Flush["flush"] \o Rest["store"]
      BY <1>3, <2>1, JoinsHold DEF Joins
    <2> QED BY <1>1, <1>4, <1>5, <1>6, <2>2, Onward DEF FlushNames, RestNames, StartRests, EndRests, RecoverRests
  <1>7. CASE ~Needs(2)
    <2>1. todo' = (<<>> \o <<"store">>) \o Tail(todo)
      BY <1>7 DEF alloc_entry, alloc, Then
    <2>2. todo' = Flush["no"] \o Rest["store"]
      BY <1>3, <2>1, JoinsHold DEF Joins
    <2> QED BY <1>1, <1>4, <1>5, <1>7, <2>2, Onward DEF FlushNames, RestNames, StartRests, EndRests, RecoverRests
  <1> QED BY <1>6, <1>7

LEMMA Kept_refuse_entry ==
  ASSUME Inv, refuse_entry
  PROVE  Inv'
  <1>1. At("entry") /\ Stays /\ rec' = rec /\ listed' = listed
    BY DEF refuse_entry, Stays, log_state
  <1>2. PICK f \in FlushNames, k \in RestNames : Called(f, k) /\ Spot("entry", f, k, Tail(todo))
    BY <1>1, Standing
  <1>3. f = "no" /\ k = "entry" /\ Tail(todo) = Rest["idle"]
    BY <1>2 DEF Spot
  <1>4. alive /\ Stand("no", "entry") /\ rec' \in Recs /\ listed' \in BOOLEAN
    BY <1>1, <1>2, <1>3, StandsAt DEF At
  <1>5. Place("no", "idle", Cursor, mm.finished, cap, Disk, file, rec, Cardinality(accepted), io.real, io.err)
    BY <1>4, AllocPlace DEF Stand
  <1>6. todo' = Flush["no"] \o Rest["idle"]
    BY <1>3 DEF refuse_entry, Then, Flush
  <1> QED BY <1>1, <1>4, <1>5, <1>6, Onward DEF FlushNames, RestNames, StartRests, EndRests, RecoverRests

LEMMA Kept_recovery_begin ==
  ASSUME Inv, recovery_begin
  PROVE  Inv'
  <1>1. At("start") /\ Stays /\ rec' = rec
    BY DEF recovery_begin, Stays, log_state
  <1>2. PICK f \in FlushNames, k \in RestNames : Called(f, k) /\ Spot("start", f, k, Tail(todo))
    BY <1>1, Standing
  <1>3. f = "no" /\ k = "start" /\ Tail(todo) = Rest["log_recovered"]
    BY <1>2 DEF Spot
  <1>4. alive /\ Stand("no", "start") /\ rec' \in Recs /\ listed \in BOOLEAN
    BY <1>1, <1>2, <1>3, StandsAt DEF At
  <1>5. /\ Cursor = 0
        /\ file = 0 => Place("no", "log_recovered", Cursor, mm.finished, cap, Disk, file, rec, Cardinality(accepted), io.real, io.err)
        /\ file # 0 => Place("no", "store_start", Cursor, mm.finished, cap, Disk, file, rec, Cardinality(accepted), io.real, io.err)
    BY <1>4, StartPlace DEF Stand
  <1>6. CASE file = 0
    <2>1. todo' = <<>> \o Tail(todo) /\ listed' = listed
      BY <1>6 DEF recovery_begin, Then, log_state
    <2>2. todo' = Flush["no"] \o Rest["log_recovered"]
      BY <1>3, <2>1 DEF Flush
    <2> QED BY <1>1, <1>4, <1>5, <1>6, <2>1, <2>2, Onward DEF FlushNames, RestNames, StartRests, EndRests, RecoverRests
  <1>7. CASE file # 0
    <2>1. ~Needs(1)
      BY <1>4, <1>5, ConstantsAre DEF Needs, Stand, Sizes, Vals
    <2>2. todo' = (<<>> \o <<"store_start">>) \o Tail(todo) /\ listed' = TRUE
      BY <1>7, <2>1 DEF recovery_begin, Then
    <2>3. todo' = Flush["no"] \o Rest["store_start"]
      BY <1>3, <2>2, JoinsHold DEF Joins
    <2>4. listed' \in BOOLEAN
      BY <2>2
    <2> QED BY <1>1, <1>4, <1>5, <1>7, <2>3, <2>4, Onward DEF FlushNames, RestNames, StartRests, EndRests, RecoverRests
  <1> QED BY <1>6, <1>7

LEMMA Kept_recovery_end ==
  ASSUME Inv, recovery_end
  PROVE  Inv'
  <1>1. At("end") /\ Stays /\ rec' = rec /\ listed' = listed
    BY DEF recovery_end, alloc, Stays, log_state
  <1>2. PICK f \in FlushNames, k \in RestNames : Called(f, k) /\ Spot("end", f, k, Tail(todo))
    BY <1>1, Standing
  <1>3. f = "no" /\ k = "end" /\ Tail(todo) = Flush["flush"] \o Rest["refresh_log"]
    BY <1>2 DEF Spot
  <1>4. alive /\ Stand("no", "end") /\ rec' \in Recs /\ listed' \in BOOLEAN
    BY <1>1, <1>2, <1>3, StandsAt DEF At
  <1>5. /\ Needs(1) => Place("flush", "store_end", Cursor, mm.finished, cap, Disk, file, rec, Cardinality(accepted), io.real, io.err)
        /\ ~Needs(1) => Place("no", "store_end", Cursor, mm.finished, cap, Disk, file, rec, Cardinality(accepted), io.real, io.err)
    BY <1>1, <1>4, EndPlace DEF Stand, Needs
  <1>6. CASE Needs(1)
    <2>1. todo' = (<<"flush">> \o <<"store_end">>) \o Tail(todo)
      BY <1>6 DEF recovery_end, alloc, Then
    <2>2. todo' = Flush["flush"] \o Rest["store_end"]
      BY <1>3, <2>1, JoinsHold DEF Joins
    <2> QED BY <1>1, <1>4, <1>5, <1>6, <2>2, Onward DEF FlushNames, RestNames, StartRests, EndRests, RecoverRests
  <1>7. CASE ~Needs(1)
    <2>1. todo' = (<<>> \o <<"store_end">>) \o Tail(todo)
      BY <1>7 DEF recovery_end, alloc, Then
    <2>2. todo' = Flush["no"] \o Rest["store_end"]
      BY <1>3, <2>1, JoinsHold DEF Joins
    <2> QED BY <1>1, <1>4, <1>5, <1>7, <2>2, Onward DEF FlushNames, RestNames, StartRests, EndRests, RecoverRests
  <1> QED BY <1>6, <1>7

LEMMA Kept_no_file_to_flush ==
  ASSUME Inv, no_file_to_flush
  PROVE  Inv'
  <1>1. At("flush") /\ Stays /\ rec' = rec /\ listed' = listed /\ file = 0
    BY DEF no_file_to_flush, Stays, log_state
  <1>2. PICK f \in FlushNames, k \in RestNames : Called(f, k) /\ Spot("flush", f, k, Tail(todo))
    BY <1>1, Standing
  <1>3. f = "flush" /\ Tail(todo) = Rest[k]
    BY <1>2 DEF Spot
  <1>4. alive /\ Stand("flush", k) /\ rec' \in Recs /\ listed' \in BOOLEAN
    BY <1>1, <1>2, <1>3, StandsAt DEF At
  <1>5. Place("no", k, Cursor, mm.finished, cap, Disk, file, rec, Cardinality(accepted), io.real, io.err)
    BY <1>1, <1>4, NoFilePlace DEF Stand
  <1>6. todo' = <<>> \o Rest[k]
    BY <1>3 DEF no_file_to_flush, Then
  <1>7. todo' = Flush["no"] \o Rest[k]
    BY <1>6, AnyRest
  <1> QED BY <1>1, <1>4, <1>5, <1>7, Onward DEF FlushNames

LEMMA FilesWith ==
  ASSUME NEW S, NEW q \in Seq(Seq(S)), NEW i \in 1 .. Len(q), NEW x \in Seq(S)
  PROVE  [q EXCEPT ![i] = x] \in Seq(Seq(S)) /\ Len([q EXCEPT ![i] = x]) = Len(q)
  OBVIOUS

MmSet == [cells : Seq(Units(accepted)), finished : Nat, path : Nat]

LEMMA MmWith ==
  ASSUME NEW S, NEW m \in [cells : S, finished : Nat, path : Nat], NEW x \in S, NEW y \in Nat,
         NEW z, z = [m EXCEPT !.cells = x, !.finished = y]
  PROVE  /\ z \in [cells : S, finished : Nat, path : Nat]
         /\ z.cells = x /\ z.finished = y /\ z.path = m.path
  OBVIOUS

\* The types, one by one.
LEMMA KnownParts ==
  ASSUME Known
  PROVE  /\ files \in Seq(Seq(Units(accepted))) /\ Len(files) \in Nat
         /\ mm \in MmSet /\ mm.cells \in Seq(Units(accepted)) /\ Cursor = Len(mm.cells) /\ Cursor \in Nat
         /\ mm.finished \in Nat /\ mm.path \in Nat /\ mm.path <= Len(files)
         /\ io \in [real : Nat, err : Errs] /\ io.real \in Nat /\ io.err \in Errs
         /\ cap \in Nat /\ file \in 0 .. Len(files) /\ rec \in Recs
         /\ drop \in BOOLEAN /\ listed \in BOOLEAN /\ alive \in BOOLEAN
         /\ given_up \subseteq accepted /\ repeated \subseteq accepted /\ spoiled \subseteq accepted
  BY DEF Known, MmSet, Cursor, Recs

LEMMA Typed ==
  ASSUME Known, accepted' = accepted,
         files' \in Seq(Seq(Units(accepted))), mm' \in MmSet, io' \in [real : Nat, err : Errs],
         cap' \in Nat, file' \in 0 .. Len(files'), mm'.path <= Len(files'), rec' \in Recs,
         drop' \in BOOLEAN, listed' \in BOOLEAN, alive' \in BOOLEAN,
         given_up' \subseteq accepted, repeated' \subseteq accepted, spoiled' \subseteq accepted
  PROVE  Known'
  BY DEF Known, MmSet, Recs

LEMMA Kept_flush_write_cache ==
  ASSUME Inv, flush_write_cache
  PROVE  Inv'
  <1>1. /\ At("flush") /\ file # 0 /\ mm' = mm /\ cap' = cap /\ file' = file /\ drop' = drop
        /\ rec' = rec /\ listed' = listed /\ alive' = alive /\ UNCHANGED history
        /\ todo' = <<"keep", "count">> \o Tail(todo)
    BY DEF flush_write_cache, log_state, Then
  <1>2. PICK f \in FlushNames, k \in RestNames : Called(f, k) /\ Spot("flush", f, k, Tail(todo))
    BY <1>1, Standing
  <1>3. f = "flush" /\ Tail(todo) = Rest[k]
    BY <1>2 DEF Spot
  <1>4. alive /\ Stand("flush", k) /\ Known
    BY <1>1, <1>2, <1>3, StandsAt DEF At, Inv
  <1>5. PICK real \in 0 .. mm.finished :
          /\ files' = [files EXCEPT ![file] = @ \o SubSeq(mm.cells, 1, real)]
          /\ \/ real = mm.finished /\ io' = [real |-> real, err |-> "none"]
             \/ io' = [real |-> real, err |-> "full"]
             \/ io' = [real |-> real, err |-> "other"]
    BY DEF flush_write_cache
  <1>6. /\ io' \in [real : Nat, err : Errs] /\ io'.real = real /\ (io'.err = "none" => real = mm.finished)
        /\ io'.real <= mm.finished
    BY <1>4, <1>5, KnownParts DEF Errs
  <1>7. files' \in Seq(Seq(Units(accepted))) /\ Len(files') = Len(files)
    <2>1. real \in Nat /\ real <= Len(mm.cells) /\ mm.cells \in Seq(Units(accepted))
      BY <1>4, <1>5, KnownParts DEF Stand, Sizes, Vals
    <2>2. SubSeq(mm.cells, 1, real) \in Seq(Units(accepted))
      BY <2>1, FrontOf
    <2>3. file \in 1 .. Len(files) /\ files \in Seq(Seq(Units(accepted)))
      BY <1>1, <1>4, KnownParts
    <2>4. files[file] \o SubSeq(mm.cells, 1, real) \in Seq(Units(accepted))
      BY <2>2, <2>3
    <2> QED BY <1>5, <2>3, <2>4, FilesWith
  <1>8. Known'
    <2>1. accepted' = accepted /\ given_up' = given_up /\ repeated' = repeated /\ spoiled' = spoiled
      BY <1>1 DEF history
    <2> QED BY <1>1, <1>4, <1>6, <1>7, <2>1, KnownParts, Typed
  <1>9. Sizes(Cursor, mm.finished, cap, io.real)'
    BY <1>1, <1>4, <1>6 DEF Stand, Sizes, Cursor
  <1>10. Place("keep", k, Cursor, mm.finished, cap, Disk, file, rec, Cardinality(accepted), io'.real, io'.err)
    BY <1>1, <1>4, <1>6, WritePlace DEF Stand
  <1>11. Called("keep", k)'
    <2>1. todo' = Flush["keep"] \o Rest[k]
      BY <1>1, <1>3, AnyRest
    <2>2. Cursor' = Cursor /\ Disk' = Disk /\ accepted' = accepted
      BY <1>1 DEF Cursor, Disk, history
    <2> QED BY <1>1, <1>10, <2>1, <2>2 DEF Called
  <1> QED BY <1>1, <1>4, <1>8, <1>9, <1>11, GoesOn DEF FlushNames

LEMMA Kept_flush_keep ==
  ASSUME Inv, flush_keep
  PROVE  Inv'
  <1>1. /\ At("keep") /\ files' = files /\ cap' = cap /\ file' = file /\ drop' = drop
        /\ rec' = rec /\ listed' = listed /\ alive' = alive /\ io' = io
        /\ accepted' = accepted /\ given_up' = given_up /\ repeated' = repeated
        /\ todo' = <<>> \o Tail(todo)
        /\ mm' = [mm EXCEPT !.cells = KeepUnfinished(KeepUnwritten(@))]
        /\ spoiled' = spoiled \cup
             (IF io.real < mm.finished /\ mm.finished < Cursor THEN EntriesIn(Pending) ELSE {})
    BY DEF flush_keep, log_state, Then
  <1>2. PICK f \in FlushNames, k \in RestNames : Called(f, k) /\ Spot("keep", f, k, Tail(todo))
    BY <1>1, Standing
  <1>3. f = "keep" /\ Tail(todo) = Flush["count"] \o Rest[k]
    BY <1>2 DEF Spot
  <1>4. alive /\ Stand("keep", k) /\ Known
    BY <1>1, <1>2, <1>3, StandsAt DEF At, Inv
  <1> DEFINE S == Units(accepted)  x == KeepUnwritten(mm.cells)  y == KeepUnfinished(x)
  <1>5. /\ mm.cells \in Seq(S) /\ io.real \in Nat /\ mm.finished \in Nat /\ Cursor \in Nat
        /\ io.real <= mm.finished /\ mm.finished <= Cursor /\ Cursor = Len(mm.cells)
    BY <1>4, KnownParts DEF Stand, Sizes
  <1>6. x \in Seq(S) /\ Len(x) = Cursor
    <2>1. CASE io.real < mm.finished
      <3>1. mm.finished - io.real \in Nat /\ io.real + (mm.finished - io.real) <= Len(mm.cells)
        BY <1>5, <2>1
      <3>2. x = MoveDown(mm.cells, io.real, mm.finished - io.real)
        BY <2>1 DEF KeepUnwritten
      <3> HIDE DEF x
      <3> QED BY <1>5, <3>1, <3>2, MovedDown
    <2>2. CASE ~(io.real < mm.finished)
      BY <1>5, <2>2 DEF KeepUnwritten
    <2> QED BY <2>1, <2>2
  <1>7. y \in Seq(S) /\ Len(y) = Cursor
    <2> HIDE DEF x
    <2>1. CASE Cursor > mm.finished
      <3>1. Cursor - mm.finished \in Nat /\ mm.finished + (Cursor - mm.finished) <= Len(x)
        BY <1>5, <1>6, <2>1
      <3>2. y = MoveDown(x, mm.finished, Cursor - mm.finished)
        BY <2>1 DEF KeepUnfinished
      <3> HIDE DEF y
      <3> QED BY <1>5, <1>6, <3>1, <3>2, MovedDown
    <2>2. CASE ~(Cursor > mm.finished)
      BY <1>5, <1>6, <2>2 DEF KeepUnfinished
    <2> QED BY <2>1, <2>2
  <1>8. mm' = [mm EXCEPT !.cells = y] /\ mm \in MmSet
    BY <1>1, <1>4, KnownParts
  <1> HIDE DEF x, y
  <1>9. mm' \in MmSet /\ mm'.cells = y /\ mm'.finished = mm.finished /\ mm'.path = mm.path
    BY <1>7, <1>8 DEF MmSet, S
  <1>10. spoiled' \subseteq accepted
    <2>1. Pending \in Seq(S)
      BY <1>5, FrontOf DEF Pending
    <2>2. EntriesIn(Pending) \subseteq accepted
      BY <2>1, EntriesOf DEF S
    <2> QED BY <1>1, <1>4, <2>2, KnownParts
  <1>11. Known'
    BY <1>1, <1>4, <1>9, <1>10, KnownParts, Typed
  <1>12. Cursor' = Cursor
    BY <1>7, <1>9 DEF Cursor
  <1>13. Sizes(Cursor, mm.finished, cap, io.real)'
    BY <1>1, <1>4, <1>9, <1>12 DEF Stand
  <1>14. Place("count", k, Cursor, mm.finished, cap, Disk, file, rec, Cardinality(accepted), io.real, io.err)
    BY <1>4, KeepPlace DEF Stand
  <1>15. Called("count", k)'
    <2>1. todo' = Flush["count"] \o Rest[k]
      BY <1>1, <1>3, AnyRest DEF FlushNames
    <2>2. Disk' = Disk
      BY <1>1 DEF Disk
    <2> QED BY <1>1, <1>9, <1>12, <1>14, <2>1, <2>2 DEF Called
  <1> QED BY <1>1, <1>4, <1>11, <1>13, <1>15, GoesOn DEF FlushNames

LEMMA Kept_flush_count ==
  ASSUME Inv, flush_count
  PROVE  Inv'
  <1>1. /\ At("count") /\ files' = files /\ file' = file
        /\ rec' = rec /\ listed' = listed /\ alive' = alive
        /\ accepted' = accepted /\ given_up' = given_up /\ repeated' = repeated /\ spoiled' = spoiled
        /\ mm' = [mm EXCEPT !.cells = SubSeq(@, 1, Cursor - io.real), !.finished = @ - io.real]
        /\ cap' = IF cap > Target /\ Cursor - io.real <= Small THEN Target ELSE cap
        /\ io' = [real |-> 0, err |-> "none"]
    BY DEF flush_count, log_state, history
  <1>2. PICK f \in FlushNames, k \in RestNames : Called(f, k) /\ Spot("count", f, k, Tail(todo))
    BY <1>1, Standing
  <1>3. f = "count" /\ Tail(todo) = Rest[k]
    BY <1>2 DEF Spot
  <1>4. alive /\ Stand("count", k) /\ Known
    BY <1>1, <1>2, <1>3, StandsAt DEF At, Inv
  <1> DEFINE c == Cursor - io.real  n == mm.finished - io.real  S == Units(accepted)
             x == SubSeq(mm.cells, 1, c)
  <1>5. /\ mm.cells \in Seq(S) /\ c \in Nat /\ n \in Nat /\ c <= Len(mm.cells)
    BY <1>4, KnownParts DEF Stand, Sizes
  <1>6. x \in Seq(S) /\ Len(x) = c
    BY <1>5, FrontOf
  <1>7. mm \in MmSet /\ mm' = [mm EXCEPT !.cells = x, !.finished = n]
    BY <1>1, <1>4, KnownParts
  <1> HIDE DEF x, n, c
  <1>8. mm' \in MmSet /\ mm'.cells = x /\ mm'.finished = n /\ mm'.path = mm.path
    BY <1>5, <1>6, <1>7 DEF MmSet, S
  <1>9. Cursor' = c
    BY <1>6, <1>8 DEF Cursor
  <1>10. drop' \in BOOLEAN
    BY DEF flush_count
  <1>11. io' \in [real : Nat, err : Errs] /\ io'.real = 0 /\ io'.err = "none"
    BY <1>1 DEF Errs
  <1>12. cap' \in Nat
    BY <1>1, <1>4, ConstantsAre, KnownParts
  <1>13. Known'
    BY <1>1, <1>4, <1>8, <1>10, <1>11, <1>12, KnownParts, Typed
  <1>14. Disk' = IF io.err = "full" \/ (Disk = "full" /\ ~(io.err = "none" /\ io.real = mm.finished)) THEN "full" ELSE "fine"
    <2>1. drop' = (io.err = "full" \/ (drop /\ ~(io.err = "none" /\ io.real = mm.finished)))
      BY DEF flush_count
    <2>2. Disk = "full" <=> drop
      BY DEF Disk
    <2>3. Disk' = IF drop' THEN "full" ELSE "fine"
      BY DEF Disk
    <2> QED BY <2>1, <2>2, <2>3
  <1>15. /\ Sizes(c, n, cap', 0)
         /\ io.err = "other" => Place("open", k, c, n, cap', Disk', file, rec, Cardinality(accepted), 0, "none")
         /\ io.err # "other" => Place("no", k, c, n, cap', Disk', file, rec, Cardinality(accepted), 0, "none")
    <2>1. cap' = IF cap > Target /\ Cursor - io.real <= Small THEN Target ELSE cap
      BY <1>1
    <2> QED BY <1>4, <1>14, <2>1, CountPlace DEF Stand, c, n
  <1>16. Sizes(Cursor, mm.finished, cap, io.real)'
    BY <1>8, <1>9, <1>11, <1>15
  <1>17. CASE io.err = "other"
    <2>1. todo' = <<"open">> \o Tail(todo)
      BY <1>17 DEF flush_count, Then
    <2>2. todo' = Flush["open"] \o Rest[k]
      BY <1>3, <2>1, AnyRest
    <2>3. Called("open", k)'
      BY <1>1, <1>8, <1>9, <1>11, <1>15, <1>17, <2>2 DEF Called
    <2> QED BY <1>1, <1>4, <1>13, <1>16, <2>3, GoesOn DEF FlushNames
  <1>18. CASE io.err # "other"
    <2>1. todo' = <<>> \o Tail(todo)
      BY <1>18 DEF flush_count, Then
    <2>2. todo' = Flush["no"] \o Rest[k]
      BY <1>3, <2>1, AnyRest
    <2>3. Called("no", k)'
      BY <1>1, <1>8, <1>9, <1>11, <1>15, <1>18, <2>2 DEF Called
    <2> QED BY <1>1, <1>4, <1>13, <1>16, <2>3, GoesOn DEF FlushNames
  <1> QED BY <1>17, <1>18

\* A cache that was cleaned.
LEMMA CleanedIs ==
  ASSUME Known
  PROVE  /\ Cleaned \in MmSet /\ Cleaned.cells = <<>> /\ Cleaned.finished = 0 /\ Cleaned.path = mm.path
         /\ \A i \in Nat : /\ [Cleaned EXCEPT !.path = i] \in MmSet
                           /\ [Cleaned EXCEPT !.path = i].cells = <<>>
                           /\ [Cleaned EXCEPT !.path = i].finished = 0
                           /\ [Cleaned EXCEPT !.path = i].path = i
  <1>1. mm \in MmSet
    BY KnownParts
  <1>2. <<>> \in Seq(Units(accepted))
    OBVIOUS
  <1> QED BY <1>1, <1>2 DEF Cleaned, MmSet

LEMMA PendingIs ==
  ASSUME Known, mm.finished <= Cursor
  PROVE  /\ Pending \in Seq(Units(accepted)) /\ Len(Pending) = mm.finished
         /\ EntriesIn(Pending) \subseteq accepted
  <1>1. /\ mm.cells \in Seq(Units(accepted)) /\ mm.finished \in Nat /\ mm.finished <= Len(mm.cells)
    BY KnownParts
  <1>2. Pending \in Seq(Units(accepted)) /\ Len(Pending) = mm.finished
    BY <1>1, FrontOf DEF Pending
  <1>3. EntriesIn(Pending) \subseteq accepted
    BY <1>2, EntriesOf
  <1> QED BY <1>2, <1>3

LEMMA NoFilesYet ==
  ASSUME NEW S, NEW q \in Seq(Seq(S))
  PROVE  Append(q, <<>>) \in Seq(Seq(S)) /\ Len(Append(q, <<>>)) = Len(q) + 1
  <1>1. <<>> \in Seq(S)
    OBVIOUS
  <1> QED BY <1>1

LEMMA EmptyFits ==
  ASSUME NEW cp, cp >= Target, cp \in Nat
  PROVE  Sizes(0, 0, cp, 0)
  BY ConstantsAre DEF Sizes

LEMMA Kept_open_new_indexed_file_by_name ==
  ASSUME Inv, open_new_indexed_file_by_name
  PROVE  Inv'
  <1>1. /\ At("open") /\ Tail(todo) # <<"exit">> /\ cap' = cap /\ drop' = drop
        /\ rec' = rec /\ listed' = listed /\ alive' = alive /\ io' = io
        /\ accepted' = accepted /\ repeated' = repeated /\ spoiled' = spoiled
        /\ given_up' = given_up \cup EntriesIn(Pending)
        /\ todo' = <<>> \o Tail(todo)
    BY DEF open_new_indexed_file_by_name, log_state, Then
  <1>2. PICK f \in FlushNames, k \in RestNames : Called(f, k) /\ Spot("open", f, k, Tail(todo))
    BY <1>1, Standing
  <1>3. alive /\ Stand(f, k) /\ Known
    BY <1>1, <1>2, StandsAt DEF At, Inv
  <1>4. given_up' \subseteq accepted
    BY <1>1, <1>3, KnownParts, PendingIs DEF Stand, Sizes
  <1>5. /\ mm' \in MmSet /\ mm'.cells = <<>> /\ mm'.finished = 0 /\ mm'.path <= Len(files')
        /\ files' \in Seq(Seq(Units(accepted))) /\ file' \in 0 .. Len(files') /\ Len(files') \in Nat
    <2>1. CASE /\ file' = 0 /\ mm' = Cleaned /\ files' = files
      BY <1>3, <2>1, CleanedIs, KnownParts
    <2>2. CASE \E j \in OpenIndexes :
                 /\ file' = j /\ mm' = [Cleaned EXCEPT !.path = j]
                 /\ files' = IF j > Len(files) THEN Append(files, <<>>) ELSE files
      <3>0. PICK i \in OpenIndexes :
                 /\ file' = i /\ mm' = [Cleaned EXCEPT !.path = i]
                 /\ files' = IF i > Len(files) THEN Append(files, <<>>) ELSE files
        BY <2>2
      <3>1. Len(files) \in Nat /\ files \in Seq(Seq(Units(accepted)))
        BY <1>3, KnownParts
      <3>2. i \in 1 .. Len(files) + 1
        BY <3>0, <3>1 DEF OpenIndexes
      <3>3. files' \in Seq(Seq(Units(accepted))) /\ i <= Len(files') /\ Len(files') \in Nat
        BY <3>0, <3>1, <3>2, NoFilesYet
      <3>4. mm' \in MmSet /\ mm'.cells = <<>> /\ mm'.finished = 0 /\ mm'.path = i
        BY <1>3, <3>0, <3>2, CleanedIs
      <3> QED BY <3>0, <3>2, <3>3, <3>4
    <2> QED BY <2>1, <2>2 DEF open_new_indexed_file_by_name
  <1>6. Known'
    BY <1>1, <1>3, <1>4, <1>5, KnownParts, Typed
  <1>7. Cursor' = 0 /\ Disk' = Disk /\ file' \in Nat
    BY <1>1, <1>5 DEF Cursor, Disk
  <1>8. io.real = 0 /\ io.err = "none"
    <2>1. f \notin {"keep", "count"}
      BY <1>2 DEF Spot
    <2> QED BY <1>3, <2>1 DEF Stand, Place
  <1>9. Sizes(Cursor, mm.finished, cap, io.real)'
    BY <1>1, <1>3, <1>5, <1>7, <1>8, EmptyFits DEF Stand, Sizes, Vals
  <1>10. \E l \in RestNames : /\ todo' = Flush["no"] \o Rest[l]
                              /\ Place("no", l, 0, 0, cap, Disk, file', rec, Cardinality(accepted), io.real, io.err)
    <2>1. CASE f = "open" /\ Tail(todo) = Rest[k]
      <3>1. k # "exit"
        <4>1. Rest["exit"] = <<"exit">>
          BY DEF Rest
        <4> QED BY <1>1, <2>1, <4>1
      <3>2. Place("no", k, 0, 0, cap, Disk, file', rec, Cardinality(accepted), io.real, io.err)
        BY <1>3, <1>7, <2>1, <3>1, OpenPlace DEF Stand
      <3>3. todo' = Flush["no"] \o Rest[k]
        BY <1>1, <2>1, AnyRest
      <3> QED BY <3>2, <3>3
    <2>2. CASE f = "no" /\ k = "open_log" /\ Tail(todo) = Rest["log"]
      <3>1. Place("no", "log", 0, 0, cap, Disk, file', rec, Cardinality(accepted), io.real, io.err)
        BY <1>3, <1>7, <2>2, Open_log DEF Stand
      <3>2. "log" \in RestNames
        BY DEF RestNames
      <3> QED BY <1>1, <2>2, <3>1, <3>2, AnyRest
    <2>3. CASE f = "no" /\ k = "open_start" /\ Tail(todo) = Rest["start"]
      <3>1. Place("no", "start", 0, 0, cap, Disk, file', rec, Cardinality(accepted), io.real, io.err)
        BY <1>3, <1>7, <2>3, Open_start DEF Stand
      <3>2. "start" \in RestNames
        BY DEF RestNames, StartRests
      <3> QED BY <1>1, <2>3, <3>1, <3>2, AnyRest
    <2>4. CASE f = "no" /\ k = "open_entry" /\ Tail(todo) = Rest["entry"]
      <3>1. Place("no", "entry", 0, 0, cap, Disk, file', rec, Cardinality(accepted), io.real, io.err)
        BY <1>3, <1>7, <2>4, Open_entry DEF Stand
      <3>2. "entry" \in RestNames
        BY DEF RestNames
      <3> QED BY <1>1, <2>4, <3>1, <3>2, AnyRest
    <2> QED BY <1>2, <2>1, <2>2, <2>3, <2>4 DEF Spot
  <1>11. PICK l \in RestNames : /\ todo' = Flush["no"] \o Rest[l]
                                /\ Place("no", l, 0, 0, cap, Disk, file', rec, Cardinality(accepted), io.real, io.err)
    BY <1>10
  <1>12. Called("no", l)'
    BY <1>1, <1>5, <1>7, <1>11 DEF Called
  <1> QED BY <1>1, <1>3, <1>6, <1>9, <1>12, GoesOn DEF FlushNames

\* The process ends: the finished part of the cache stays in the mapped file, or
\* nothing does.
LEMMA Ends ==
  ASSUME Inv, Gone, files' = files, cap' = cap, accepted' = accepted,
         mm' \in MmSet, mm'.path = mm.path, mm'.finished = Len(mm'.cells), mm'.finished <= mm.finished,
         given_up' \subseteq accepted, repeated' \subseteq accepted, spoiled' \subseteq accepted
  PROVE  Inv'
  <1>1. Known /\ Sizes(Cursor, mm.finished, cap, io.real)
    BY DEF Inv
  <1>2. /\ alive' = FALSE /\ todo' = <<>> /\ file' = 0 /\ drop' = FALSE
        /\ rec' = "not_started" /\ listed' = FALSE /\ io' = [real |-> 0, err |-> "none"]
    BY DEF Gone
  <1>3. io' \in [real : Nat, err : Errs] /\ io'.real = 0 /\ io'.err = "none"
    BY <1>2 DEF Errs
  <1>4. file' \in 0 .. Len(files') /\ mm'.path <= Len(files') /\ cap' \in Nat /\ mm'.finished \in Nat
    BY <1>1, <1>2, KnownParts DEF MmSet
  <1>5. /\ files' \in Seq(Seq(Units(accepted))) /\ rec' \in Recs /\ drop' \in BOOLEAN
        /\ listed' \in BOOLEAN /\ alive' \in BOOLEAN
    BY <1>1, <1>2, KnownParts DEF Recs
  <1>6. Known'
    BY <1>1, <1>3, <1>4, <1>5, Typed
  <1>7. Sizes(Cursor, mm.finished, cap, io.real)'
    <2>1. Cursor' = mm'.finished
      BY DEF Cursor
    <2>2. Vals(Cursor, mm.finished, cap, Disk, file, rec, Cardinality(accepted), io.real, io.err)
      BY <1>1, KnownVals
    <2> QED BY <1>1, <1>3, <1>4, <2>1, <2>2, ConstantsAre DEF Sizes, Vals
  <1>8. Dead'
    BY <1>2, <1>3 DEF Dead
  <1> QED BY <1>2, <1>6, <1>7, <1>8 DEF Inv

\* The mapped file as the kernel keeps it.
LEMMA PendingKept ==
  ASSUME Inv, mm' = [mm EXCEPT !.cells = Pending]
  PROVE  /\ mm' \in MmSet /\ mm'.path = mm.path /\ mm'.finished = Len(mm'.cells)
         /\ mm'.finished <= mm.finished /\ EntriesIn(Pending) \subseteq accepted
         /\ given_up \subseteq accepted /\ repeated \subseteq accepted /\ spoiled \subseteq accepted
  <1>1. Known /\ mm.finished <= Cursor /\ mm \in MmSet /\ mm.finished \in Nat
    BY KnownParts DEF Inv, Sizes
  <1>2. /\ Pending \in Seq(Units(accepted)) /\ Len(Pending) = mm.finished
        /\ EntriesIn(Pending) \subseteq accepted
    BY <1>1, PendingIs
  <1>3. mm' \in MmSet /\ mm'.path = mm.path /\ mm'.finished = mm.finished /\ mm'.cells = Pending
    BY <1>1, <1>2 DEF MmSet
  <1>4. given_up \subseteq accepted /\ repeated \subseteq accepted /\ spoiled \subseteq accepted
    BY <1>1, KnownParts
  <1> QED BY <1>1, <1>2, <1>3, <1>4

LEMMA Kept_crash ==
  ASSUME Inv, crash
  PROVE  Inv'
  <1>1. /\ Gone /\ files' = files /\ cap' = cap /\ accepted' = accepted
        /\ given_up' = given_up /\ spoiled' = spoiled /\ mm' = [mm EXCEPT !.cells = Pending]
        /\ repeated' = repeated \cup (IF At("keep") \/ At("count") THEN EntriesIn(Pending) ELSE {})
    BY DEF crash
  <1>2. repeated' \subseteq accepted
    BY <1>1, PendingKept
  <1> QED BY <1>1, <1>2, PendingKept, Ends

LEMMA Kept_exit ==
  ASSUME Inv, exit
  PROVE  Inv'
  <1>1. /\ Gone /\ files' = files /\ cap' = cap /\ accepted' = accepted /\ repeated' = repeated
        /\ given_up' = given_up /\ spoiled' = spoiled /\ mm' = [mm EXCEPT !.cells = Pending]
    BY DEF exit, history
  <1> QED BY <1>1, PendingKept, Ends

LEMMA Kept_open_in_destructor ==
  ASSUME Inv, open_in_destructor
  PROVE  Inv'
  <1>1. /\ Gone /\ files' = files /\ cap' = cap /\ accepted' = accepted /\ repeated' = repeated
        /\ spoiled' = spoiled /\ mm' = Cleaned /\ given_up' = given_up \cup EntriesIn(Pending)
    BY DEF open_in_destructor
  <1>2. Known /\ mm.finished <= Cursor /\ mm.finished \in Nat
    BY KnownParts DEF Inv, Sizes
  <1>3. given_up' \subseteq accepted /\ repeated' \subseteq accepted /\ spoiled' \subseteq accepted
    BY <1>1, <1>2, PendingIs, KnownParts
  <1>4. mm' \in MmSet /\ mm'.path = mm.path /\ mm'.finished = Len(mm'.cells) /\ mm'.finished <= mm.finished
    BY <1>1, <1>2, CleanedIs
  <1> QED BY <1>1, <1>3, <1>4, Ends

LEMMA Kept_destruct ==
  ASSUME Inv, destruct
  PROVE  Inv'
  <1>1. /\ alive /\ todo = <<>> /\ files' = files /\ cap' = cap /\ file' = file /\ drop' = drop
        /\ rec' = rec /\ listed' = listed /\ io' = io /\ alive' = alive
        /\ accepted' = accepted /\ given_up' = given_up /\ repeated' = repeated /\ spoiled' = spoiled
        /\ mm' = IF mm.finished = 0 THEN [cells |-> <<>>, finished |-> 0, path |-> 0] ELSE mm
        /\ todo' = <<"flush", "exit">>
    BY DEF destruct, log_state, history
  <1>2. Known /\ Stand("no", "idle")
    BY <1>1, Waiting, StandsAt DEF Inv
  <1>3. mm' \in MmSet /\ mm'.path <= Len(files') /\ Sizes(Cursor', mm'.finished, cap, io.real)
    <2>1. CASE mm.finished = 0
      <3>1. <<>> \in Seq(Units(accepted)) /\ Len(<<>>) = 0
        OBVIOUS
      <3>2. mm' \in MmSet /\ mm'.cells = <<>> /\ mm'.finished = 0 /\ mm'.path = 0
        BY <1>1, <2>1, <3>1 DEF MmSet
      <3>3. Cursor' = 0
        BY <3>2 DEF Cursor
      <3>4. io.real = 0 /\ cap >= Target /\ cap \in Nat /\ Len(files) \in Nat
        BY <1>2, <2>1, KnownParts DEF Stand, Sizes
      <3>5. Sizes(0, 0, cap, 0)
        BY <3>4, EmptyFits
      <3> QED BY <1>1, <3>2, <3>3, <3>4, <3>5
    <2>2. CASE mm.finished # 0
      <3>1. mm' = mm
        BY <1>1, <2>2
      <3> QED BY <1>1, <1>2, <3>1, KnownParts DEF Stand, Cursor
    <2> QED BY <2>1, <2>2
  <1>4. Known'
    BY <1>1, <1>2, <1>3, KnownParts, Typed
  <1>5. Sizes(Cursor, mm.finished, cap, io.real)'
    BY <1>1, <1>3
  <1>6. todo' = Flush["flush"] \o Rest["exit"]
    BY <1>1, JoinsHold DEF Joins
  <1>7. io'.real = 0 /\ io'.err = "none"
    BY <1>1, <1>2 DEF Stand, Place
  <1>8. Called("flush", "exit")'
    BY <1>6, <1>7 DEF Called, Place, RecoverRests
  <1> QED BY <1>1, <1>4, <1>5, <1>8, GoesOn DEF FlushNames, RestNames

\* A started appender with an empty cache and no file.
LEMMA FreshPlace ==
  ASSUME NEW d, NEW a
  PROVE  Place("no", "idle", 0, 0, Target, d, 0, "not_started", a, 0, "none") /\ Sizes(0, 0, Target, 0)
  BY ConstantsAre DEF Sizes, Place, Work, Way, EndRests, StartRests, RecoverRests

LEMMA Fresh ==
  ASSUME Known', alive', todo' = <<>>, mm'.cells = <<>>, mm'.finished = 0, cap' = Target, file' = 0,
         rec' = "not_started", io'.real = 0, io'.err = "none"
  PROVE  Inv'
  <1>1. Cursor' = 0
    BY DEF Cursor
  <1>2. /\ Place("no", "idle", 0, 0, Target, Disk', 0, "not_started", Cardinality(accepted'), 0, "none")
        /\ Sizes(0, 0, Target, 0)
    BY FreshPlace
  <1>3. todo' = Flush["no"] \o Rest["idle"]
    BY JoinsHold DEF Joins
  <1>4. Called("no", "idle")'
    BY <1>1, <1>2, <1>3 DEF Called
  <1>5. Sizes(Cursor, mm.finished, cap, io.real)'
    BY <1>1, <1>2
  <1> QED BY <1>4, <1>5, GoesOn DEF FlushNames, RestNames

LEMMA Kept_init_impl ==
  ASSUME Inv, init_impl
  PROVE  Inv'
  <1>1. /\ ~alive /\ alive' = TRUE /\ files' = files /\ drop' = drop /\ rec' = rec /\ listed' = listed
        /\ io' = io /\ accepted' = accepted /\ repeated' = repeated /\ spoiled' = spoiled
    BY DEF init_impl, log_state
  <1>2. /\ Known /\ Sizes(Cursor, mm.finished, cap, io.real) /\ todo = <<>> /\ file = 0
        /\ rec = "not_started" /\ io.real = 0 /\ io.err = "none"
    BY <1>1 DEF Inv, Dead
  <1>3. mm.finished <= Cursor /\ mm.finished \in Nat
    BY <1>2, KnownParts DEF Sizes
  <1>4. CASE /\ file' = mm.path /\ todo' = <<"recover", "flush", "recovered">>
             /\ mm' = mm /\ cap' = cap /\ given_up' = given_up
    <2>1. file' \in 0 .. Len(files')
      BY <1>1, <1>2, <1>4, KnownParts
    <2>2. Known'
      BY <1>1, <1>2, <1>4, <2>1, KnownParts, Typed
    <2>3. Cursor' = Cursor
      BY <1>4 DEF Cursor
    <2>4. Sizes(Cursor, mm.finished, cap, io.real)'
      BY <1>1, <1>2, <1>4, <2>3
    <2>5. todo' = Flush["no"] \o Rest["recover"]
      BY <1>4, JoinsHold DEF Joins
    <2>6. io'.real = 0 /\ io'.err = "none" /\ rec' = "not_started"
      BY <1>1, <1>2
    <2>7. Called("no", "recover")'
      BY <2>5, <2>6 DEF Called, Place, RecoverRests
    <2> QED BY <1>1, <2>2, <2>4, <2>7, GoesOn DEF FlushNames, RestNames, RecoverRests
  <1>5. CASE /\ mm' = Cleaned /\ cap' = Target /\ file' = file /\ todo' = todo
             /\ given_up' = given_up \cup EntriesIn(Pending)
    <2>1. mm' \in MmSet /\ mm'.cells = <<>> /\ mm'.finished = 0 /\ mm'.path = mm.path
      BY <1>2, <1>5, CleanedIs
    <2>2. given_up' \subseteq accepted /\ file' \in 0 .. Len(files') /\ cap' \in Nat
      BY <1>1, <1>2, <1>3, <1>5, PendingIs, KnownParts, ConstantsAre
    <2>3. Known'
      BY <1>1, <1>2, <2>1, <2>2, KnownParts, Typed
    <2> QED BY <1>1, <1>2, <1>5, <2>1, <2>3, Fresh
  <1> QED BY <1>4, <1>5 DEF init_impl

\* A marker that is written directly.
LEMMA Directly ==
  ASSUME Known, DirectWrite(Start)
  PROVE  files' \in Seq(Seq(Units(accepted))) /\ Len(files') = Len(files)
  <1>1. files \in Seq(Seq(Units(accepted))) /\ file \in 0 .. Len(files)
    BY KnownParts
  <1>2. CASE files' = files
    BY <1>1, <1>2
  <1>3. CASE file # 0 /\ files' = [files EXCEPT ![file] = Append(@, Start)]
    <2>1. file \in 1 .. Len(files)
      BY <1>1, <1>3
    <2>2. Start \in Units(accepted)
      BY DEF Start, Units
    <2>3. Append(files[file], Start) \in Seq(Units(accepted))
      BY <1>1, <2>1, <2>2
    <2> QED BY <1>1, <1>3, <2>1, <2>3, FilesWith
  <1> QED BY <1>2, <1>3 DEF DirectWrite

LEMMA Kept_recovery_start_marker ==
  ASSUME Inv, recovery_start_marker
  PROVE  Inv'
  <1>1. /\ At("recover") /\ todo' = <<>> \o Tail(todo) /\ DirectWrite(Start)
        /\ mm' = mm /\ cap' = cap /\ file' = file /\ drop' = drop /\ rec' = rec /\ listed' = listed
        /\ io' = io /\ alive' = alive
        /\ accepted' = accepted /\ given_up' = given_up /\ repeated' = repeated /\ spoiled' = spoiled
    BY DEF recovery_start_marker, log_state, history, Then
  <1>2. PICK f \in FlushNames, k \in RestNames : Called(f, k) /\ Spot("recover", f, k, Tail(todo))
    BY <1>1, Standing
  <1>3. f = "no" /\ k = "recover" /\ Tail(todo) = Flush["flush"] \o Rest["recovered"]
    BY <1>2 DEF Spot
  <1>4. alive /\ Stand("no", "recover") /\ Known
    BY <1>1, <1>2, <1>3, StandsAt DEF At, Inv
  <1>5. files' \in Seq(Seq(Units(accepted))) /\ Len(files') = Len(files)
    BY <1>1, <1>4, Directly
  <1>6. Known'
    BY <1>1, <1>4, <1>5, KnownParts, Typed
  <1>7. Cursor' = Cursor
    BY <1>1 DEF Cursor
  <1>8. Sizes(Cursor, mm.finished, cap, io.real)'
    BY <1>1, <1>4, <1>7 DEF Stand
  <1>9. io'.real = 0 /\ io'.err = "none" /\ rec' = "not_started"
    BY <1>1, <1>4 DEF Stand, Place, RecoverRests
  <1>10. "flush" \in FlushNames /\ "recovered" \in RestNames
    BY DEF FlushNames, RestNames, RecoverRests
  <1>11. todo' = Flush["flush"] \o Rest["recovered"]
    BY <1>1, <1>3, <1>10, AnyRest
  <1>12. Called("flush", "recovered")'
    BY <1>9, <1>11 DEF Called, Place, RecoverRests
  <1> QED BY <1>1, <1>4, <1>6, <1>8, <1>10, <1>12, GoesOn

\* Either end of a recovery leaves an empty cache.
LEMMA Recovered ==
  ASSUME Inv, At("recovered"), todo' = <<>> \o Tail(todo), file' = 0, mm' = Cleaned, cap' = Target,
         files' \in Seq(Seq(Units(accepted))), Len(files') = Len(files), drop' = drop,
         rec' = rec, listed' = listed, io' = io, alive' = alive, accepted' = accepted,
         given_up' \subseteq accepted, repeated' = repeated, spoiled' = spoiled
  PROVE  Inv'
  <1>2. PICK f \in FlushNames, k \in RestNames : Called(f, k) /\ Spot("recovered", f, k, Tail(todo))
    BY Standing
  <1>3. f = "no" /\ k = "recovered" /\ Tail(todo) = Rest["idle"]
    BY <1>2 DEF Spot
  <1>4. alive /\ Stand("no", "recovered") /\ Known
    BY <1>2, <1>3, StandsAt DEF At, Inv
  <1>5. mm' \in MmSet /\ mm'.cells = <<>> /\ mm'.finished = 0 /\ mm'.path = mm.path
    BY <1>4, CleanedIs
  <1>6. file' \in 0 .. Len(files') /\ cap' \in Nat /\ mm'.path <= Len(files')
    BY <1>4, <1>5, KnownParts, ConstantsAre
  <1>7. Known'
    BY <1>4, <1>5, <1>6, KnownParts, Typed
  <1>8. io'.real = 0 /\ io'.err = "none" /\ rec' = "not_started"
    BY <1>4 DEF Stand, Place, RecoverRests
  <1>9. todo' = <<>>
    BY <1>3 DEF Rest
  <1> QED BY <1>4, <1>5, <1>7, <1>8, <1>9, Fresh

LEMMA Kept_recovery_end_marker ==
  ASSUME Inv, recovery_end_marker
  PROVE  Inv'
  <1>1. /\ At("recovered") /\ todo' = <<>> \o Tail(todo) /\ DirectWrite(Start)
        /\ file' = 0 /\ mm' = Cleaned /\ cap' = Target /\ drop' = drop /\ rec' = rec /\ listed' = listed
        /\ io' = io /\ alive' = alive
        /\ accepted' = accepted /\ given_up' = given_up /\ repeated' = repeated /\ spoiled' = spoiled
    BY DEF recovery_end_marker, log_state, history, Then
  <1>2. Known
    BY DEF Inv
  <1>3. files' \in Seq(Seq(Units(accepted))) /\ Len(files') = Len(files)
    BY <1>1, <1>2, Directly
  <1>4. given_up' \subseteq accepted
    BY <1>1, <1>2, KnownParts
  <1> QED BY <1>1, <1>3, <1>4, Recovered

LEMMA Kept_recovery_failed ==
  ASSUME Inv, recovery_failed
  PROVE  Inv'
  <1>1. /\ At("recovered") /\ todo' = <<>> \o Tail(todo) /\ files' = files
        /\ file' = 0 /\ mm' = Cleaned /\ cap' = Target /\ drop' = drop /\ rec' = rec /\ listed' = listed
        /\ io' = io /\ alive' = alive
        /\ accepted' = accepted /\ repeated' = repeated /\ spoiled' = spoiled
        /\ given_up' = given_up \cup EntriesIn(Pending)
    BY DEF recovery_failed, log_state, Then
  <1>2. Known /\ mm.finished <= Cursor /\ mm.finished \in Nat
    BY KnownParts DEF Inv, Sizes
  <1>3. files' \in Seq(Seq(Units(accepted))) /\ Len(files') = Len(files)
    BY <1>1, <1>2, KnownParts
  <1>4. given_up' \subseteq accepted
    BY <1>1, <1>2, KnownParts, PendingIs
  <1> QED BY <1>1, <1>3, <1>4, Recovered

\* A text is put behind what is in the cache.
LEMMA Stored ==
  ASSUME Known, NEW B, accepted \subseteq B, NEW text \in Seq(Units(B)), NEW n \in Nat,
         Store(text, n)
  PROVE  /\ mm' \in [cells : Seq(Units(B)), finished : Nat, path : Nat]
         /\ mm'.finished = n /\ mm'.path = mm.path /\ Cursor' = Cursor + Len(text)
         /\ cap' \in Nat /\ (Needs(Len(text)) => cap' >= Cursor + Len(text))
         /\ (~Needs(Len(text)) => cap' = cap)
  <1> DEFINE S == Seq(Units(B))  x == mm.cells \o text
  <1>1. /\ mm.cells \in Seq(Units(accepted)) /\ mm \in MmSet /\ Cursor \in Nat /\ cap \in Nat
        /\ Cursor = Len(mm.cells)
    BY KnownParts
  <1>2. mm.cells \in Seq(Units(B))
    BY <1>1, MoreUnits
  <1>3. x \in Seq(Units(B)) /\ Len(x) = Cursor + Len(text)
    BY <1>1, <1>2
  <1>4. mm' = [mm EXCEPT !.cells = x, !.finished = n]
    BY DEF Store
  <1>5. mm \in [cells : S, finished : Nat, path : Nat]
    BY <1>1, <1>2 DEF MmSet
  <1> HIDE DEF x
  <1>6. /\ mm' \in [cells : S, finished : Nat, path : Nat]
        /\ mm'.cells = x /\ mm'.finished = n /\ mm'.path = mm.path
    BY <1>3, <1>4, <1>5, MmWith
  <1>7. Cursor' = Cursor + Len(text)
    BY <1>3, <1>6 DEF Cursor
  <1>8. /\ cap' \in Nat /\ (Needs(Len(text)) => cap' >= Cursor + Len(text))
        /\ (~Needs(Len(text)) => cap' = cap)
    <2>1. Cursor + Len(text) \in Nat
      BY <1>1
    <2>2. /\ PowerOfTwo(Cursor + Len(text)) \in Nat
          /\ PowerOfTwo(Cursor + Len(text)) >= Cursor + Len(text)
      BY <2>1, RoundUp
    <2>3. cap' = IF Needs(Len(text)) THEN PowerOfTwo(Cursor + Len(text)) ELSE cap
      BY DEF Store
    <2> QED BY <1>1, <2>2, <2>3
  <1> QED BY <1>6, <1>7, <1>8

LEMMA Kept_store_entry ==
  ASSUME Inv, store_entry
  PROVE  Inv'
  <1>1. /\ At("store") /\ todo' = <<>> \o Tail(todo) /\ Store(Entry(Number), Cursor + 2)
        /\ files' = files /\ file' = file /\ drop' = drop /\ rec' = rec /\ listed' = listed
        /\ io' = io /\ alive' = alive /\ given_up' = given_up /\ repeated' = repeated /\ spoiled' = spoiled
        /\ accepted' = accepted \cup {Number}
    BY DEF store_entry, log_state, Then
  <1>2. PICK f \in FlushNames, k \in RestNames : Called(f, k) /\ Spot("store", f, k, Tail(todo))
    BY <1>1, Standing
  <1>3. f = "no" /\ k = "store" /\ Tail(todo) = Rest["idle"]
    BY <1>2 DEF Spot
  <1>4. alive /\ Stand("no", "store") /\ Known
    BY <1>1, <1>2, <1>3, StandsAt DEF At, Inv
  <1> DEFINE a == Cardinality(accepted)
  <1>5. a \in Nat /\ a <= MaxEntries /\ accepted = 1 .. a /\ Number = a + 1 /\ Cursor \in Nat
    BY <1>4, KnownParts, ConstantsAre DEF Known, Number
  <1> HIDE DEF a
  <1>6. accepted' = 1 .. a + 1
    BY <1>1, <1>5
  <1>7. Cardinality(accepted') = a + 1
    <2>1. Cardinality(1 .. a + 1) = a + 1
      BY <1>5, FS_Interval
    <2> QED BY <1>6, <2>1
  <1>8. Entry(Number) \in Seq(Units(accepted')) /\ Len(Entry(Number)) = 2
    <2>1. <<Number, 1>> \in Units(accepted') /\ <<Number, 2>> \in Units(accepted')
      BY <1>1 DEF Units
    <2> QED BY <2>1 DEF Entry
  <1>9. accepted \subseteq accepted'
    BY <1>1
  <1>10. Cursor + 2 \in Nat
    BY <1>5
  <1>11. /\ mm' \in [cells : Seq(Units(accepted')), finished : Nat, path : Nat]
         /\ mm'.finished = Cursor + 2 /\ mm'.path = mm.path /\ Cursor' = Cursor + 2
         /\ cap' \in Nat /\ (Needs(2) => cap' >= Cursor + 2) /\ (~Needs(2) => cap' = cap)
    <2>1. Store(Entry(Number), Cursor + 2)
      BY <1>1
    <2> DEFINE t == Entry(Number)  B == accepted'
    <2>2. t \in Seq(Units(B)) /\ Len(t) = 2 /\ accepted \subseteq B
      BY <1>8, <1>9
    <2> HIDE DEF t, B
    <2>3. Store(t, Cursor + 2)
      BY <2>1 DEF t
    <2>4. /\ mm' \in [cells : Seq(Units(B)), finished : Nat, path : Nat]
          /\ mm'.finished = Cursor + 2 /\ mm'.path = mm.path /\ Cursor' = Cursor + Len(t)
          /\ cap' \in Nat /\ (Needs(Len(t)) => cap' >= Cursor + Len(t)) /\ (~Needs(Len(t)) => cap' = cap)
      BY <1>4, <1>10, <2>2, <2>3, Stored
    <2> QED BY <2>2, <2>4 DEF B
  <1>12. /\ Place("no", "idle", Cursor + 2, Cursor + 2, cap', Disk, file, rec, a + 1, io.real, io.err)
         /\ Sizes(Cursor + 2, Cursor + 2, cap', io.real)
         /\ a < MaxEntries
    <2>1. /\ Vals(Cursor, mm.finished, cap, Disk, file, rec, a, io.real, io.err)
          /\ Sizes(Cursor, mm.finished, cap, io.real)
          /\ Place("no", "store", Cursor, mm.finished, cap, Disk, file, rec, a, io.real, io.err)
      BY <1>4 DEF Stand, a
    <2>2. cap' \in Nat /\ (Cursor + 2 > cap => cap' >= Cursor + 2) /\ (~(Cursor + 2 > cap) => cap' = cap)
      BY <1>11 DEF Needs
    <2> QED BY <2>1, <2>2, StorePlace
  <1>13. Known'
    <2>1. Cardinality(accepted') \in 0 .. MaxEntries /\ accepted' = 1 .. Cardinality(accepted')
      BY <1>5, <1>6, <1>7, <1>12, ConstantsAre
    <2>2. files' \in Seq(Seq(Units(accepted')))
      BY <1>1, <1>4, <1>9, KnownParts, MoreUnits
    <2>3. /\ given_up' \subseteq accepted' /\ repeated' \subseteq accepted' /\ spoiled' \subseteq accepted'
      BY <1>1, <1>4, KnownParts
    <2>4. /\ io' \in [real : Nat, err : Errs] /\ file' \in 0 .. Len(files') /\ mm'.path <= Len(files')
          /\ rec' \in Recs /\ drop' \in BOOLEAN /\ listed' \in BOOLEAN /\ alive' \in BOOLEAN
      BY <1>1, <1>4, <1>11, KnownParts
    <2> QED BY <1>11, <2>1, <2>2, <2>3, <2>4 DEF Known, Recs
  <1>14. Sizes(Cursor, mm.finished, cap, io.real)'
    BY <1>1, <1>11, <1>12
  <1>15. todo' = Flush["no"] \o Rest["idle"]
    <2>1. "idle" \in RestNames
      BY DEF RestNames
    <2> QED BY <1>1, <1>3, <2>1, AnyRest
  <1>16. Disk' = Disk
    BY <1>1 DEF Disk
  <1>17. Called("no", "idle")'
    BY <1>1, <1>7, <1>11, <1>12, <1>15, <1>16 DEF Called
  <1> QED BY <1>1, <1>4, <1>13, <1>14, <1>17, GoesOn DEF FlushNames, RestNames

LEMMA Kept_store_marker ==
  ASSUME Inv, store_marker
  PROVE  Inv'
  <1>1. /\ todo' = <<>> \o Tail(todo)
        /\ files' = files /\ file' = file /\ drop' = drop /\ rec' = rec /\ listed' = listed
        /\ io' = io /\ alive' = alive /\ accepted' = accepted
        /\ given_up' = given_up /\ repeated' = repeated /\ spoiled' = spoiled
    BY DEF store_marker, log_state, history, Then
  <1>2. Known /\ mm.finished \in Nat /\ Disk' = Disk
    BY <1>1, KnownParts DEF Inv, Disk
  <1> DEFINE B == accepted
  <1>3. ASSUME NEW m \in {Start, End}, Store(<<m>>, mm.finished)
        PROVE  /\ mm' \in MmSet /\ mm'.finished = mm.finished /\ mm'.path = mm.path /\ Cursor' = Cursor + 1
               /\ cap' \in Nat /\ (Cursor + 1 > cap => cap' >= Cursor + 1)
               /\ (~(Cursor + 1 > cap) => cap' = cap)
    <2> DEFINE t == <<m>>
    <2>1. t \in Seq(Units(B)) /\ Len(t) = 1 /\ accepted \subseteq B
      <3>1. m \in Units(B)
        BY DEF Start, End, Units
      <3> QED BY <3>1
    <2>2. Store(t, mm.finished)
      BY <1>3
    <2> HIDE DEF t, B
    <2>3. /\ mm' \in [cells : Seq(Units(B)), finished : Nat, path : Nat]
          /\ mm'.finished = mm.finished /\ mm'.path = mm.path /\ Cursor' = Cursor + Len(t)
          /\ cap' \in Nat /\ (Needs(Len(t)) => cap' >= Cursor + Len(t)) /\ (~Needs(Len(t)) => cap' = cap)
      BY <1>2, <2>1, <2>2, Stored
    <2> QED BY <2>1, <2>3 DEF B, MmSet, Needs
  <1>4. ASSUME mm' \in MmSet, mm'.path = mm.path, cap' \in Nat PROVE Known'
    BY <1>1, <1>2, <1>4, KnownParts, Typed
  <1>5. CASE At("store_start") /\ Store(<<Start>>, mm.finished)
    <2>1. PICK f \in FlushNames, k \in RestNames : Called(f, k) /\ Spot("store_start", f, k, Tail(todo))
      BY <1>5, Standing
    <2>2. f = "no" /\ k = "store_start" /\ Tail(todo) = Rest["log_recovered"]
      BY <2>1 DEF Spot
    <2>3. alive /\ Stand("no", "store_start")
      BY <1>5, <2>1, <2>2, StandsAt DEF At
    <2>4. /\ mm' \in MmSet /\ mm'.finished = mm.finished /\ mm'.path = mm.path /\ Cursor' = Cursor + 1
          /\ cap' \in Nat /\ (~(Cursor + 1 > cap) => cap' = cap)
      BY <1>3, <1>5
    <2>5. /\ ~(Cursor + 1 > cap)
          /\ Place("no", "log_recovered", Cursor + 1, mm.finished, cap, Disk, file, rec, Cardinality(accepted), io.real, io.err)
          /\ Sizes(Cursor + 1, mm.finished, cap, io.real)
      BY <2>3, StoreStartPlace DEF Stand
    <2>6. cap' = cap
      BY <2>4, <2>5
    <2>7. Known' /\ Sizes(Cursor, mm.finished, cap, io.real)'
      BY <1>1, <1>4, <2>4, <2>5, <2>6
    <2>8. "log_recovered" \in RestNames
      BY DEF RestNames
    <2>9. todo' = Flush["no"] \o Rest["log_recovered"]
      BY <1>1, <2>2, <2>8, AnyRest
    <2>10. Called("no", "log_recovered")'
      BY <1>1, <1>2, <2>4, <2>5, <2>6, <2>9 DEF Called
    <2> QED BY <1>1, <2>3, <2>7, <2>8, <2>10, GoesOn DEF FlushNames
  <1>6. CASE At("store_end") /\ Store(<<End>>, mm.finished)
    <2>1. PICK f \in FlushNames, k \in RestNames : Called(f, k) /\ Spot("store_end", f, k, Tail(todo))
      BY <1>6, Standing
    <2>2. f = "no" /\ k = "store_end" /\ Tail(todo) = Flush["flush"] \o Rest["refresh_log"]
      BY <2>1 DEF Spot
    <2>3. alive /\ Stand("no", "store_end")
      BY <1>6, <2>1, <2>2, StandsAt DEF At
    <2>4. /\ mm' \in MmSet /\ mm'.finished = mm.finished /\ mm'.path = mm.path /\ Cursor' = Cursor + 1
          /\ cap' \in Nat /\ (Cursor + 1 > cap => cap' >= Cursor + 1) /\ (~(Cursor + 1 > cap) => cap' = cap)
      BY <1>3, <1>6
    <2>5. /\ Place("flush", "refresh_log", Cursor + 1, mm.finished, cap', Disk, file, rec, Cardinality(accepted), io.real, io.err)
          /\ Sizes(Cursor + 1, mm.finished, cap', io.real)
      BY <2>3, <2>4, StoreEndPlace DEF Stand
    <2>7. Known' /\ Sizes(Cursor, mm.finished, cap, io.real)'
      BY <1>1, <1>4, <2>4, <2>5
    <2>8. "refresh_log" \in RestNames /\ "flush" \in FlushNames
      BY DEF RestNames, FlushNames
    <2>9. todo' = Flush["flush"] \o Rest["refresh_log"]
      BY <1>1, <2>2, <2>8, AnyRest
    <2>10. Called("flush", "refresh_log")'
      BY <1>1, <1>2, <2>4, <2>5, <2>9 DEF Called
    <2> QED BY <1>1, <2>3, <2>7, <2>8, <2>10, GoesOn
  <1> QED BY <1>5, <1>6 DEF store_marker

-----------------------------------------------------------------------------
(* The theorem.                                                            *)

LEMMA Starts == Init => Inv
  <1> SUFFICES ASSUME Init PROVE Inv
    OBVIOUS
  <1>1. /\ files = <<>> /\ mm = [cells |-> <<>>, finished |-> 0, path |-> 0]
        /\ cap = Target /\ file = 0 /\ drop = FALSE
        /\ rec = "not_started" /\ listed = FALSE
        /\ todo = <<>> /\ io = [real |-> 0, err |-> "none"] /\ alive = TRUE
        /\ accepted = {} /\ given_up = {} /\ repeated = {} /\ spoiled = {}
    BY DEF Init
  <1>2. Cardinality(accepted) = 0 /\ accepted = 1 .. 0
    BY <1>1, FS_EmptySet
  <1>3. /\ mm.cells = <<>> /\ mm.finished = 0 /\ mm.path = 0 /\ io.real = 0 /\ io.err = "none" /\ Cursor = 0
    BY <1>1 DEF Cursor
  <1>4. <<>> \in Seq(Units(accepted)) /\ <<>> \in Seq(Seq(Units(accepted))) /\ Len(files) = 0
    BY <1>1
  <1>5. mm \in [cells : Seq(Units(accepted)), finished : Nat, path : Nat] /\ io \in [real : Nat, err : Errs]
    BY <1>1, <1>4 DEF Errs
  <1>6. Known
    <2>1. Cardinality(accepted) \in 0 .. MaxEntries /\ accepted = 1 .. Cardinality(accepted)
      BY <1>2, ConstantsAre
    <2>2. files \in Seq(Seq(Units(accepted)))
      BY <1>1, <1>4
    <2>3. cap \in Nat /\ file \in 0 .. Len(files) /\ mm.path <= Len(files)
      BY <1>1, <1>3, <1>4, ConstantsAre
    <2>4. /\ rec \in {"not_started", "in_recovering", "recovered"}
          /\ drop \in BOOLEAN /\ listed \in BOOLEAN /\ alive \in BOOLEAN
          /\ given_up \subseteq accepted /\ repeated \subseteq accepted /\ spoiled \subseteq accepted
      BY <1>1
    <2> QED BY <1>5, <2>1, <2>2, <2>3, <2>4 DEF Known
  <1>7. /\ Place("no", "idle", 0, 0, Target, Disk, 0, "not_started", Cardinality(accepted), 0, "none")
        /\ Sizes(0, 0, Target, 0)
    BY FreshPlace
  <1>8. todo = Flush["no"] \o Rest["idle"]
    BY <1>1, JoinsHold DEF Joins
  <1>9. Called("no", "idle")
    BY <1>1, <1>3, <1>7, <1>8 DEF Called
  <1> QED BY <1>1, <1>3, <1>6, <1>7, <1>9 DEF Inv, FlushNames, RestNames

LEMMA Kept_stuttering ==
  ASSUME Inv, UNCHANGED vars
  PROVE  Inv'
  <1>1. /\ Stays /\ rec' = rec /\ listed' = listed /\ todo' = todo
        /\ Cursor' = Cursor /\ Disk' = Disk
    BY DEF vars, Stays, log_state, history, Cursor, Disk
  <1>2. rec \in Recs /\ listed \in BOOLEAN
    BY DEF Inv, Known, Recs
  <1>3. Known' /\ Sizes(Cursor, mm.finished, cap, io.real)'
    BY <1>1, <1>2, Light DEF Stays
  <1>4. CASE alive
    <2>1. PICK f \in FlushNames, k \in RestNames : Called(f, k)
      BY <1>4 DEF Inv
    <2>2. Called(f, k)' /\ alive'
      BY <1>1, <1>4, <2>1 DEF Called, Stays, history
    <2> QED BY <1>3, <2>2, GoesOn
  <1>5. CASE ~alive
    <2>1. Dead
      BY <1>5 DEF Inv
    <2>2. Dead' /\ ~alive'
      BY <1>1, <1>5, <2>1 DEF Dead, Stays
    <2> QED BY <1>3, <2>2 DEF Inv
  <1> QED BY <1>4, <1>5

LEMMA Inductive == Inv /\ [Next]_vars => Inv'
  <1> SUFFICES ASSUME Inv, [Next]_vars PROVE Inv'
    OBVIOUS
  <1>1. CASE Call
    BY <1>1, Kept_log_impl, Kept_refresh_file_handle, Kept_open_new_indexed_file_by_name,
       Kept_alloc_entry, Kept_refuse_entry, Kept_store_entry, Kept_recovery_begin, Kept_recovery_end,
       Kept_store_marker, Kept_flush_write_cache, Kept_no_file_to_flush, Kept_flush_keep,
       Kept_flush_count, Kept_exit, Kept_open_in_destructor, Kept_recovery_start_marker,
       Kept_recovery_end_marker, Kept_recovery_failed DEF Call
  <1>2. CASE process_new \/ process_recovered \/ flush_appenders_cache \/ crash \/ destruct \/ init_impl
    BY <1>2, Kept_process_new, Kept_process_recovered, Kept_flush_appenders_cache, Kept_crash,
       Kept_destruct, Kept_init_impl
  <1>3. CASE UNCHANGED vars
    BY <1>3, Kept_stuttering
  <1> QED BY <1>1, <1>2, <1>3 DEF Next

LEMMA Bounded == Inv => CacheBounded
  <1> SUFFICES ASSUME Inv PROVE CacheBounded
    OBVIOUS
  <1>1. Known /\ Sizes(Cursor, mm.finished, cap, io.real)
    BY DEF Inv
  <1>2. ASSUME NEW i \in DOMAIN files PROVE EntriesIn(files[i]) \subseteq accepted
    <2>1. files[i] \in Seq(Units(accepted))
      BY <1>1, KnownParts
    <2> QED BY <2>1, EntriesOf
  <1>3. ToSet(todo) \subseteq Steps
    <2>1. todo \in Seq(Steps)
      <3>1. CASE alive
        <4>1. PICK f \in FlushNames, k \in RestNames : todo = Flush[f] \o Rest[k]
          BY <3>1 DEF Inv, Called
        <4>2. Flush[f] \in Seq(Steps)
          BY FlushIs
        <4>3. Rest[k] \in Seq(Steps)
          BY RestIs
        <4> QED BY <4>1, <4>2, <4>3
      <3>2. CASE ~alive
        <4>1. todo = <<>>
          BY <3>2 DEF Inv, Dead
        <4> QED BY <4>1
      <3> QED BY <3>1, <3>2
    <2> QED BY <2>1 DEF ToSet
  <1>4. /\ mm.finished \in 0 .. Cursor /\ mm.path \in 0 .. Len(files)
        /\ Cursor <= cap /\ io.real \in 0 .. mm.finished /\ io.err \in {"none", "full", "other"}
        /\ file \in 0 .. Len(files) /\ Cursor <= Target + 2 + Extra
    BY <1>1, KnownParts DEF Sizes, Errs
  <1>5. /\ rec \in {"not_started", "in_recovering", "recovered"}
        /\ {drop, listed, alive} \subseteq BOOLEAN
        /\ given_up \cup repeated \cup spoiled \subseteq accepted
    BY <1>1, KnownParts DEF Recs
  <1>6. accepted \subseteq 1 .. MaxEntries
    BY <1>1, ConstantsAre DEF Known
  <1> QED BY <1>2, <1>3, <1>4, <1>5, <1>6 DEF CacheBounded, TypeOK, Extra

\* The write cache never holds more than its target, the one entry that met the
\* full disk and a recovery marker, its cursors are in order and its texts are
\* those of accepted entries: for every size of the cache and of the files, every
\* number of entries, and every order of short writes, failed opens, rolled files,
\* crashes, orderly ends and recoveries (log_impl, alloc_write_cache,
\* flush_write_cache).
THEOREM CacheAlwaysBounded == Spec => []CacheBounded
  BY Starts, Inductive, Bounded, PTL DEF Spec

-----------------------------------------------------------------------------
(* Losses.  As long as nothing failed, a flush writes all that is finished;  *)
(* so the cache is empty wherever it is dropped: before a file is opened and *)
(* after a recovery.  Without a file it is empty anyway, and the path of a   *)
(* cache that is not empty is known.                                         *)

Calm == spent["full"] = 0 /\ spent["errors"] = 0

\* n is finished, fl the file, p the file of the path, r and e what the running
\* write said.
Lossless(f, k, n, fl, p, r, e) ==
  /\ f # "open"
  /\ f \in {"keep", "count"} => e = "none" /\ r = n /\ fl # 0
  /\ f = "no" /\ k \in {"open_log", "open_start", "open_entry", "recovered"} => n = 0
  /\ fl = 0 => n = 0
  /\ k \in {"store", "recover", "recovered"} => fl # 0
  /\ fl # 0 /\ k # "exit" => p # 0

Runs(f, k) ==
  /\ todo = Flush[f] \o Rest[k]
  /\ Lossless(f, k, mm.finished, file, mm.path, io.real, io.err)

LossInv ==
  Calm => /\ given_up = {}
          /\ mm.finished > 0 => mm.path # 0
          /\ alive => \E f \in FlushNames, k \in RestNames : Runs(f, k)

Accounts == {"full", "errors", "ends", "days"}
SpentOK == spent \in [Accounts -> Nat]

LEMMA Accounting ==
  ASSUME SpentOK
  PROVE  /\ UNCHANGED spent => SpentOK' /\ (Calm' => Calm)
         /\ \A w \in Accounts : Spend(w) => SpentOK' /\ (Calm' => Calm)
         /\ Spend("full") \/ Spend("errors") => ~Calm'
  <1>1. UNCHANGED spent => SpentOK' /\ (Calm' => Calm)
    BY DEF SpentOK, Calm
  <1>2. ASSUME NEW w \in Accounts, Spend(w)
        PROVE  SpentOK' /\ spent'[w] = spent[w] + 1 /\ \A v \in Accounts : v # w => spent'[v] = spent[v]
    BY <1>2 DEF Spend, SpentOK
  <1>3. ASSUME NEW w \in Accounts PROVE spent[w] \in Nat
    BY DEF SpentOK
  <1>4. "full" \in Accounts /\ "errors" \in Accounts
    BY DEF Accounts
  <1>5. ASSUME NEW w \in Accounts, Spend(w), Calm' PROVE w # "full" /\ w # "errors"
    BY <1>2, <1>3, <1>5 DEF Calm
  <1>6. ASSUME NEW w \in Accounts, Spend(w), Calm' PROVE Calm
    BY <1>2, <1>4, <1>5, <1>6 DEF Calm
  <1>7. Spend("full") \/ Spend("errors") => ~Calm'
    BY <1>4, <1>5
  <1> QED BY <1>1, <1>2, <1>6, <1>7

\* No step gives back what the environment has done.
LEMMA Quieter ==
  ASSUME SpentOK, [Next]_vars
  PROVE  SpentOK' /\ (Calm' => Calm)
  <1>1. UNCHANGED spent \/ \E w \in Accounts : Spend(w)
    BY DEF Next, Call, vars, process_new, process_recovered, flush_appenders_cache, log_impl,
       refresh_file_handle, open_new_indexed_file_by_name, alloc_entry, alloc, refuse_entry, store_entry,
       recovery_begin, recovery_end, store_marker, flush_write_cache, no_file_to_flush, flush_keep,
       flush_count, exit, open_in_destructor, recovery_start_marker, recovery_end_marker, recovery_failed,
       crash, destruct, init_impl, DirectWrite, Accounts
  <1> QED BY <1>1, Accounting

LEMMA NothingPending ==
  ASSUME Known, mm.finished = 0
  PROVE  EntriesIn(Pending) = {}
  <1>1. Cursor \in Nat
    BY KnownParts
  <1>2. Pending \in Seq(Units(accepted)) /\ Len(Pending) = 0
    BY <1>1, PendingIs
  <1>3. DOMAIN Pending = {}
    BY <1>2
  <1>4. ToSet(Pending) = {}
    BY <1>3 DEF ToSet
  <1> QED BY <1>4 DEF EntriesIn

LEMMA RunsAt ==
  ASSUME LossInv, Calm, NEW h, At(h)
  PROVE  \E f \in FlushNames, k \in RestNames :
            /\ Lossless(f, k, mm.finished, file, mm.path, io.real, io.err)
            /\ Spot(h, f, k, Tail(todo))
  <1>1. alive /\ todo # <<>> /\ Head(todo) = h
    BY DEF At
  <1>2. PICK f \in FlushNames, k \in RestNames : Runs(f, k)
    BY <1>1 DEF LossInv
  <1>3. todo = Flush[f] \o Rest[k]
    BY <1>2 DEF Runs
  <1>4. Spot(Head(todo), f, k, Tail(todo))
    BY <1>1, <1>3, Where
  <1> QED BY <1>1, <1>2, <1>4 DEF Runs

LEMMA RunsIdle ==
  ASSUME LossInv, Calm, alive, todo = <<>>
  PROVE  Lossless("no", "idle", mm.finished, file, mm.path, io.real, io.err)
  <1>1. PICK f \in FlushNames, k \in RestNames : Runs(f, k)
    BY DEF LossInv
  <1>2. Flush[f] \o Rest[k] = <<>>
    BY <1>1 DEF Runs
  <1>3. f = "no" /\ k = "idle"
    BY <1>2, NothingLeft
  <1> QED BY <1>1, <1>3 DEF Runs

LEMMA RunsOn ==
  ASSUME given_up' = {}, mm'.finished > 0 => mm'.path # 0,
         NEW f \in FlushNames, NEW k \in RestNames, todo' = Flush[f] \o Rest[k],
         Lossless(f, k, mm'.finished, file', mm'.path, io'.real, io'.err)
  PROVE  LossInv'
  <1>1. Runs(f, k)'
    BY DEF Runs
  <1> QED BY <1>1 DEF LossInv

\* Steps that leave the cache, the file and the losses alone.
Same == mm' = mm /\ file' = file /\ io' = io /\ given_up' = given_up
LEMMA RunsSame ==
  ASSUME LossInv, Calm, Same,
         NEW f \in FlushNames, NEW k \in RestNames, todo' = Flush[f] \o Rest[k],
         Lossless(f, k, mm.finished, file, mm.path, io.real, io.err)
  PROVE  LossInv'
  BY RunsOn DEF LossInv, Same

LEMMA Loss_process ==
  ASSUME LossInv, Calm, Inv, process_new \/ process_recovered \/ flush_appenders_cache
  PROVE  LossInv'
  <1>1. alive /\ todo = <<>> /\ Same
    BY DEF process_new, process_recovered, flush_appenders_cache, Same, history
  <1>2. Lossless("no", "idle", mm.finished, file, mm.path, io.real, io.err)
    BY <1>1, RunsIdle
  <1>3. \/ todo' = Flush["no"] \o Rest["log"]
        \/ todo' = Flush["flush"] \o Rest["refresh_log"]
        \/ todo' = Flush["no"] \o Rest["end"]
        \/ todo' = Flush["flush"] \o Rest["refresh_start"]
        \/ todo' = Flush["no"] \o Rest["log_recovered"]
        \/ todo' = Flush["flush"] \o Rest["idle"]
    <2>1. CASE process_new
      <3>1. rec \in Recs
        BY DEF Inv, Known, Recs
      <3>2. \/ todo' = ((<<>> \o <<>>) \o <<"log">>)
            \/ todo' = ((<<>> \o NewBegin) \o <<"log">>)
            \/ todo' = ((<<"end">> \o NewBegin) \o <<"log">>)
        BY <2>1, <3>1 DEF process_new, Recs
      <3> QED BY <3>2, JoinsHold DEF Joins
    <2>2. CASE process_recovered
      <3>1. \/ todo' = (RecoveryBegin \o <<"log_recovered">>)
            \/ todo' = (<<>> \o <<"log_recovered">>)
        BY <2>2 DEF process_recovered
      <3> QED BY <3>1, JoinsHold DEF Joins
    <2>3. CASE flush_appenders_cache
      BY <2>3, JoinsHold DEF Joins, flush_appenders_cache
    <2> QED BY <2>1, <2>2, <2>3
  <1>4. /\ Lossless("no", "log", mm.finished, file, mm.path, io.real, io.err)
        /\ Lossless("flush", "refresh_log", mm.finished, file, mm.path, io.real, io.err)
        /\ Lossless("no", "end", mm.finished, file, mm.path, io.real, io.err)
        /\ Lossless("flush", "refresh_start", mm.finished, file, mm.path, io.real, io.err)
        /\ Lossless("no", "log_recovered", mm.finished, file, mm.path, io.real, io.err)
        /\ Lossless("flush", "idle", mm.finished, file, mm.path, io.real, io.err)
    BY <1>2 DEF Lossless
  <1> QED BY <1>1, <1>3, <1>4, RunsSame DEF FlushNames, RestNames, StartRests, EndRests, RecoverRests

LEMMA Loss_log_impl ==
  ASSUME LossInv, Calm, log_impl
  PROVE  LossInv'
  <1>1. PICK h \in {"log", "log_recovered"} : At(h)
    BY DEF log_impl
  <1>2. PICK f \in FlushNames, k \in RestNames :
          Lossless(f, k, mm.finished, file, mm.path, io.real, io.err) /\ Spot(h, f, k, Tail(todo))
    BY <1>1, RunsAt
  <1>3. f = "no" /\ k \in {"log", "log_recovered"} /\ Tail(todo) = Rest["idle"]
    BY <1>1, <1>2 DEF Spot
  <1>4. Same
    BY DEF log_impl, Same, history
  <1>5. todo' = <<>> \o Tail(todo) \/ todo' = <<"refresh", "entry">> \o Tail(todo)
    BY DEF log_impl, Then
  <1>6. todo' = Flush["no"] \o Rest["idle"] \/ todo' = Flush["no"] \o Rest["refresh_entry"]
    <2>1. <<>> \o Rest["idle"] = Flush["no"] \o Rest["idle"]
      BY DEF Flush
    <2>2. <<"refresh", "entry">> \o Rest["idle"] = Flush["no"] \o Rest["refresh_entry"]
      BY JoinsHold DEF Joins
    <2> QED BY <1>3, <1>5, <2>1, <2>2
  <1>7. Lossless("no", "idle", mm.finished, file, mm.path, io.real, io.err) /\ Lossless("no", "refresh_entry", mm.finished, file, mm.path, io.real, io.err)
    BY <1>2, <1>3 DEF Lossless
  <1> QED BY <1>4, <1>6, <1>7, RunsSame DEF FlushNames, RestNames, StartRests, EndRests, RecoverRests

LEMMA Loss_refresh_file_handle ==
  ASSUME LossInv, Calm, refresh_file_handle
  PROVE  LossInv'
  <1>1. At("refresh") /\ Same
    BY DEF refresh_file_handle, Same, history
  <1>2. PICK f \in FlushNames, k \in RestNames :
          Lossless(f, k, mm.finished, file, mm.path, io.real, io.err) /\ Spot("refresh", f, k, Tail(todo))
    BY <1>1, RunsAt
  <1>3. /\ f = "no"
        /\ \/ k = "refresh_log" /\ Tail(todo) = Rest["log"]
           \/ k = "refresh_start" /\ Tail(todo) = Rest["start"]
           \/ k = "refresh_entry" /\ Tail(todo) = Rest["entry"]
    BY <1>2 DEF Spot
  <1>4. \/ todo' = <<>> \o Tail(todo)
        \/ file = 0 /\ todo' = <<"open">> \o Tail(todo)
        \/ todo' = <<"flush", "open">> \o Tail(todo)
    BY DEF refresh_file_handle, Then, NewFile, NeedCreateNewFile
  <1>5. CASE k = "refresh_log" /\ Tail(todo) = Rest["log"]
    <2>1. /\ Lossless("no", "log", mm.finished, file, mm.path, io.real, io.err)
          /\ Lossless("flush", "open_log", mm.finished, file, mm.path, io.real, io.err)
          /\ file = 0 => Lossless("no", "open_log", mm.finished, file, mm.path, io.real, io.err)
      BY <1>2, <1>3, <1>5 DEF Lossless
    <2>2. /\ <<"open">> \o Rest["log"] = Flush["no"] \o Rest["open_log"]
          /\ <<"flush", "open">> \o Rest["log"] = Flush["flush"] \o Rest["open_log"]
      BY JoinsHold DEF Joins
    <2>3. <<>> \o Rest["log"] = Flush["no"] \o Rest["log"]
      BY DEF Flush
    <2>4. \/ todo' = Flush["no"] \o Rest["log"]
          \/ file = 0 /\ todo' = Flush["no"] \o Rest["open_log"]
          \/ todo' = Flush["flush"] \o Rest["open_log"]
      BY <1>4, <1>5, <2>2, <2>3
    <2> QED BY <1>1, <2>1, <2>4, RunsSame DEF FlushNames, RestNames, StartRests, EndRests, RecoverRests
  <1>6. CASE k = "refresh_start" /\ Tail(todo) = Rest["start"]
    <2>1. /\ Lossless("no", "start", mm.finished, file, mm.path, io.real, io.err)
          /\ Lossless("flush", "open_start", mm.finished, file, mm.path, io.real, io.err)
          /\ file = 0 => Lossless("no", "open_start", mm.finished, file, mm.path, io.real, io.err)
      BY <1>2, <1>3, <1>6 DEF Lossless
    <2>2. /\ <<"open">> \o Rest["start"] = Flush["no"] \o Rest["open_start"]
          /\ <<"flush", "open">> \o Rest["start"] = Flush["flush"] \o Rest["open_start"]
      BY JoinsHold DEF Joins
    <2>3. <<>> \o Rest["start"] = Flush["no"] \o Rest["start"]
      BY DEF Flush
    <2>4. \/ todo' = Flush["no"] \o Rest["start"]
          \/ file = 0 /\ todo' = Flush["no"] \o Rest["open_start"]
          \/ todo' = Flush["flush"] \o Rest["open_start"]
      BY <1>4, <1>6, <2>2, <2>3
    <2> QED BY <1>1, <2>1, <2>4, RunsSame DEF FlushNames, RestNames, StartRests, EndRests, RecoverRests
  <1>7. CASE k = "refresh_entry" /\ Tail(todo) = Rest["entry"]
    <2>1. /\ Lossless("no", "entry", mm.finished, file, mm.path, io.real, io.err)
          /\ Lossless("flush", "open_entry", mm.finished, file, mm.path, io.real, io.err)
          /\ file = 0 => Lossless("no", "open_entry", mm.finished, file, mm.path, io.real, io.err)
      BY <1>2, <1>3, <1>7 DEF Lossless
    <2>2. /\ <<"open">> \o Rest["entry"] = Flush["no"] \o Rest["open_entry"]
          /\ <<"flush", "open">> \o Rest["entry"] = Flush["flush"] \o Rest["open_entry"]
      BY JoinsHold DEF Joins
    <2>3. <<>> \o Rest["entry"] = Flush["no"] \o Rest["entry"]
      BY DEF Flush
    <2>4. \/ todo' = Flush["no"] \o Rest["entry"]
          \/ file = 0 /\ todo' = Flush["no"] \o Rest["open_entry"]
          \/ todo' = Flush["flush"] \o Rest["open_entry"]
      BY <1>4, <1>7, <2>2, <2>3
    <2> QED BY <1>1, <2>1, <2>4, RunsSame DEF FlushNames, RestNames, StartRests, EndRests, RecoverRests
  <1> QED BY <1>3, <1>5, <1>6, <1>7

LEMMA Loss_alloc ==
  ASSUME Inv, LossInv, Calm, alloc_entry \/ refuse_entry \/ recovery_begin \/ recovery_end
  PROVE  LossInv'
  <1>1. Same
    BY DEF alloc_entry, refuse_entry, recovery_begin, recovery_end, alloc, Same, history
  <1>2. CASE alloc_entry \/ refuse_entry
    <2>1. At("entry")
      BY <1>2 DEF alloc_entry, alloc, refuse_entry
    <2>2. PICK f \in FlushNames, k \in RestNames :
            Lossless(f, k, mm.finished, file, mm.path, io.real, io.err) /\ Spot("entry", f, k, Tail(todo))
      BY <2>1, RunsAt
    <2>3. f = "no" /\ k = "entry" /\ Tail(todo) = Rest["idle"]
      BY <2>2 DEF Spot
    <2>4. \/ file # 0 /\ todo' = (<<"flush">> \o <<"store">>) \o Tail(todo)
          \/ file # 0 /\ todo' = (<<>> \o <<"store">>) \o Tail(todo)
          \/ todo' = <<>> \o Tail(todo)
      BY <1>2 DEF alloc_entry, alloc, refuse_entry, Then
    <2>5. \/ file # 0 /\ todo' = Flush["flush"] \o Rest["store"]
          \/ file # 0 /\ todo' = Flush["no"] \o Rest["store"]
          \/ todo' = Flush["no"] \o Rest["idle"]
      <3>1. /\ (<<"flush">> \o <<"store">>) \o Rest["idle"] = Flush["flush"] \o Rest["store"]
            /\ (<<>> \o <<"store">>) \o Rest["idle"] = Flush["no"] \o Rest["store"]
        BY JoinsHold DEF Joins
      <3>2. <<>> \o Rest["idle"] = Flush["no"] \o Rest["idle"]
        BY DEF Flush
      <3> QED BY <2>3, <2>4, <3>1, <3>2
    <2>6. /\ file # 0 => Lossless("flush", "store", mm.finished, file, mm.path, io.real, io.err)
          /\ file # 0 => Lossless("no", "store", mm.finished, file, mm.path, io.real, io.err)
          /\ Lossless("no", "idle", mm.finished, file, mm.path, io.real, io.err)
      BY <2>2, <2>3 DEF Lossless
    <2> QED BY <1>1, <2>5, <2>6, RunsSame DEF FlushNames, RestNames, StartRests, EndRests, RecoverRests
  <1>3. CASE recovery_end
    <2>1. At("end")
      BY <1>3 DEF recovery_end, alloc
    <2>2. PICK f \in FlushNames, k \in RestNames :
            Lossless(f, k, mm.finished, file, mm.path, io.real, io.err) /\ Spot("end", f, k, Tail(todo))
      BY <2>1, RunsAt
    <2>3. f = "no" /\ k = "end" /\ Tail(todo) = Flush["flush"] \o Rest["refresh_log"]
      BY <2>2 DEF Spot
    <2>4. \/ todo' = (<<"flush">> \o <<"store_end">>) \o Tail(todo)
          \/ todo' = (<<>> \o <<"store_end">>) \o Tail(todo)
      BY <1>3 DEF recovery_end, alloc, Then
    <2>5. \/ todo' = Flush["flush"] \o Rest["store_end"]
          \/ todo' = Flush["no"] \o Rest["store_end"]
      BY <2>3, <2>4, JoinsHold DEF Joins
    <2>6. /\ Lossless("flush", "store_end", mm.finished, file, mm.path, io.real, io.err)
          /\ Lossless("no", "store_end", mm.finished, file, mm.path, io.real, io.err)
      BY <2>2, <2>3 DEF Lossless
    <2> QED BY <1>1, <2>5, <2>6, RunsSame DEF FlushNames, RestNames, StartRests, EndRests, RecoverRests
  <1>4. CASE recovery_begin
    <2>1. At("start")
      BY <1>4 DEF recovery_begin
    <2>2. PICK f \in FlushNames, k \in RestNames :
            Lossless(f, k, mm.finished, file, mm.path, io.real, io.err) /\ Spot("start", f, k, Tail(todo))
      BY <2>1, RunsAt
    <2>3. f = "no" /\ k = "start" /\ Tail(todo) = Rest["log_recovered"]
      BY <2>2 DEF Spot
    <2>4. ~Needs(1)
      <3>1. PICK g \in FlushNames, l \in RestNames : Called(g, l) /\ Spot("start", g, l, Tail(todo))
        BY <2>1, Standing
      <3>2. Called("no", "start")
        BY <3>1 DEF Spot
      <3>3. Stand("no", "start")
        BY <3>2, StandsAt
      <3>4. Cursor = 0
        BY <3>3, StartPlace DEF Stand
      <3> QED BY <3>3, <3>4, ConstantsAre DEF Needs, Stand, Sizes, Vals
    <2>5. todo' = <<>> \o Tail(todo) \/ todo' = (<<>> \o <<"store_start">>) \o Tail(todo)
      BY <1>4, <2>4 DEF recovery_begin, Then
    <2>6. todo' = Flush["no"] \o Rest["log_recovered"] \/ todo' = Flush["no"] \o Rest["store_start"]
      <3>1. (<<>> \o <<"store_start">>) \o Rest["log_recovered"] = Flush["no"] \o Rest["store_start"]
        BY JoinsHold DEF Joins
      <3>2. <<>> \o Rest["log_recovered"] = Flush["no"] \o Rest["log_recovered"]
        BY DEF Flush
      <3> QED BY <2>3, <2>5, <3>1, <3>2
    <2>7. /\ Lossless("no", "log_recovered", mm.finished, file, mm.path, io.real, io.err)
          /\ Lossless("no", "store_start", mm.finished, file, mm.path, io.real, io.err)
      BY <2>2, <2>3 DEF Lossless
    <2> QED BY <1>1, <2>6, <2>7, RunsSame DEF FlushNames, RestNames, StartRests, EndRests, RecoverRests
  <1> QED BY <1>2, <1>3, <1>4

LEMMA Loss_flush_write_cache ==
  ASSUME Inv, SpentOK, LossInv, Calm, flush_write_cache, Calm'
  PROVE  LossInv'
  <1>1. /\ At("flush") /\ file # 0 /\ mm' = mm /\ file' = file /\ given_up' = given_up
        /\ todo' = <<"keep", "count">> \o Tail(todo)
    BY DEF flush_write_cache, history, Then
  <1>2. PICK f \in FlushNames, k \in RestNames :
          Lossless(f, k, mm.finished, file, mm.path, io.real, io.err) /\ Spot("flush", f, k, Tail(todo))
    BY <1>1, RunsAt
  <1>3. f = "flush" /\ Tail(todo) = Rest[k]
    BY <1>2 DEF Spot
  <1>4. ~Spend("full") /\ ~Spend("errors")
    BY Accounting
  <1>5. io' = [real |-> mm.finished, err |-> "none"]
    BY <1>4 DEF flush_write_cache
  <1>6. io'.real = mm.finished /\ io'.err = "none"
    BY <1>5
  <1>7. Lossless("keep", k, mm'.finished, file', mm'.path, io'.real, io'.err)
    BY <1>1, <1>2, <1>3, <1>6 DEF Lossless
  <1>8. todo' = Flush["keep"] \o Rest[k]
    BY <1>1, <1>3, AnyRest
  <1>9. given_up' = {} /\ (mm'.finished > 0 => mm'.path # 0)
    BY <1>1 DEF LossInv
  <1> QED BY <1>7, <1>8, <1>9, RunsOn DEF FlushNames

LEMMA Loss_no_file_to_flush ==
  ASSUME LossInv, Calm, no_file_to_flush
  PROVE  LossInv'
  <1>1. At("flush") /\ file = 0 /\ Same /\ todo' = <<>> \o Tail(todo)
    BY DEF no_file_to_flush, history, Then, Same
  <1>2. PICK f \in FlushNames, k \in RestNames :
          Lossless(f, k, mm.finished, file, mm.path, io.real, io.err) /\ Spot("flush", f, k, Tail(todo))
    BY <1>1, RunsAt
  <1>3. f = "flush" /\ Tail(todo) = Rest[k]
    BY <1>2 DEF Spot
  <1>4. Lossless("no", k, mm.finished, file, mm.path, io.real, io.err)
    BY <1>1, <1>2, <1>3 DEF Lossless
  <1>5. todo' = Flush["no"] \o Rest[k]
    BY <1>1, <1>3, AnyRest
  <1> QED BY <1>1, <1>4, <1>5, RunsSame DEF FlushNames

LEMMA Loss_flush_keep ==
  ASSUME Inv, LossInv, Calm, flush_keep
  PROVE  LossInv'
  <1>1. /\ At("keep") /\ file' = file /\ io' = io /\ given_up' = given_up /\ todo' = <<>> \o Tail(todo)
        /\ mm' = [mm EXCEPT !.cells = KeepUnfinished(KeepUnwritten(@))]
    BY DEF flush_keep, Then
  <1>2. PICK f \in FlushNames, k \in RestNames :
          Lossless(f, k, mm.finished, file, mm.path, io.real, io.err) /\ Spot("keep", f, k, Tail(todo))
    BY <1>1, RunsAt
  <1>3. f = "keep" /\ Tail(todo) = Flush["count"] \o Rest[k]
    BY <1>2 DEF Spot
  <1>4. mm \in MmSet
    BY KnownParts DEF Inv
  <1>5. mm'.finished = mm.finished /\ mm'.path = mm.path
    BY <1>1, <1>4 DEF MmSet
  <1>6. Lossless("count", k, mm'.finished, file', mm'.path, io'.real, io'.err)
    BY <1>1, <1>2, <1>3, <1>5 DEF Lossless
  <1>7. todo' = Flush["count"] \o Rest[k]
    BY <1>1, <1>3, AnyRest DEF FlushNames
  <1>8. given_up' = {} /\ (mm'.finished > 0 => mm'.path # 0)
    BY <1>1, <1>5 DEF LossInv
  <1> QED BY <1>6, <1>7, <1>8, RunsOn DEF FlushNames

LEMMA Loss_flush_count ==
  ASSUME Inv, LossInv, Calm, flush_count
  PROVE  LossInv'
  <1>1. /\ At("count") /\ file' = file /\ given_up' = given_up /\ io' = [real |-> 0, err |-> "none"]
        /\ todo' = (IF io.err = "other" THEN <<"open">> ELSE <<>>) \o Tail(todo)
        /\ mm' = [mm EXCEPT !.cells = SubSeq(@, 1, Cursor - io.real), !.finished = @ - io.real]
    BY DEF flush_count, Then, history
  <1>2. PICK f \in FlushNames, k \in RestNames :
          Lossless(f, k, mm.finished, file, mm.path, io.real, io.err) /\ Spot("count", f, k, Tail(todo))
    BY <1>1, RunsAt
  <1>3. f = "count" /\ Tail(todo) = Rest[k]
    BY <1>2 DEF Spot
  <1>4. mm \in MmSet /\ mm.finished \in Nat
    BY KnownParts DEF Inv
  <1>5. io.err = "none" /\ io.real = mm.finished /\ file # 0
    BY <1>2, <1>3 DEF Lossless
  <1>6. mm'.finished = mm.finished - io.real /\ mm'.path = mm.path
    BY <1>1, <1>4 DEF MmSet
  <1>7. mm'.finished = 0
    BY <1>4, <1>5, <1>6
  <1>8. Lossless("no", k, mm'.finished, file', mm'.path, io'.real, io'.err)
    BY <1>1, <1>2, <1>3, <1>5, <1>6, <1>7 DEF Lossless
  <1>9. todo' = Flush["no"] \o Rest[k]
    <2>1. todo' = <<>> \o Tail(todo)
      BY <1>1, <1>5
    <2> QED BY <1>3, <2>1, AnyRest
  <1>10. given_up' = {} /\ (mm'.finished > 0 => mm'.path # 0)
    BY <1>1, <1>7 DEF LossInv
  <1> QED BY <1>8, <1>9, <1>10, RunsOn DEF FlushNames

\* Nothing is in the cache that a new file takes over.
LEMMA Loss_open_new_indexed_file_by_name ==
  ASSUME Inv, SpentOK, LossInv, Calm, open_new_indexed_file_by_name, Calm'
  PROVE  LossInv'
  <1>1. /\ At("open") /\ io' = io /\ given_up' = given_up \cup EntriesIn(Pending) /\ todo' = <<>> \o Tail(todo)
    BY DEF open_new_indexed_file_by_name, Then
  <1>2. PICK f \in FlushNames, k \in RestNames :
          Lossless(f, k, mm.finished, file, mm.path, io.real, io.err) /\ Spot("open", f, k, Tail(todo))
    BY <1>1, RunsAt
  <1>3. ~Spend("full") /\ ~Spend("errors")
    BY Accounting
  <1>4. PICK i \in OpenIndexes : file' = i /\ mm' = [Cleaned EXCEPT !.path = i]
    BY <1>3 DEF open_new_indexed_file_by_name
  <1>5. i \in Nat /\ i # 0
    <2>1. Len(files) \in Nat
      BY KnownParts DEF Inv
    <2> QED BY <1>4, <2>1 DEF OpenIndexes
  <1>6. mm'.finished = 0 /\ mm'.path = i
    BY <1>4, <1>5, CleanedIs DEF Inv
  <1>7. \E l \in {"log", "start", "entry"} :
          /\ f = "no" /\ k = (CASE l = "log" -> "open_log" [] l = "start" -> "open_start" [] OTHER -> "open_entry")
          /\ Tail(todo) = Rest[l]
    BY <1>2 DEF Spot, Lossless
  <1>8. PICK l \in {"log", "start", "entry"} : Tail(todo) = Rest[l]
    BY <1>7
  <1>9. mm.finished = 0
    BY <1>2, <1>7 DEF Lossless
  <1>10. given_up' = {}
    BY <1>1, <1>9, NothingPending DEF Inv, LossInv
  <1>11. l \in RestNames
    BY DEF RestNames, StartRests
  <1>12. todo' = Flush["no"] \o Rest[l]
    BY <1>1, <1>8, <1>11, AnyRest
  <1>13. Lossless("no", l, mm'.finished, file', mm'.path, io'.real, io'.err)
    BY <1>4, <1>5, <1>6 DEF Lossless
  <1>14. mm'.finished > 0 => mm'.path # 0
    BY <1>6
  <1> QED BY <1>10, <1>11, <1>12, <1>13, <1>14, RunsOn DEF FlushNames

LEMMA Loss_store_entry ==
  ASSUME Inv, LossInv, Calm, store_entry
  PROVE  LossInv'
  <1>1. /\ At("store") /\ file' = file /\ io' = io /\ given_up' = given_up /\ todo' = <<>> \o Tail(todo)
        /\ Store(Entry(Number), Cursor + 2)
    BY DEF store_entry, Then
  <1>2. PICK f \in FlushNames, k \in RestNames :
          Lossless(f, k, mm.finished, file, mm.path, io.real, io.err) /\ Spot("store", f, k, Tail(todo))
    BY <1>1, RunsAt
  <1>3. f = "no" /\ k = "store" /\ Tail(todo) = Rest["idle"]
    BY <1>2 DEF Spot
  <1>4. mm \in MmSet
    BY KnownParts DEF Inv
  <1>5. mm'.path = mm.path
    BY <1>1, <1>4 DEF Store, MmSet
  <1>6. file # 0 /\ mm.path # 0
    BY <1>2, <1>3 DEF Lossless
  <1>7. Lossless("no", "idle", mm'.finished, file', mm'.path, io'.real, io'.err)
    BY <1>1, <1>5, <1>6 DEF Lossless
  <1>8. todo' = Flush["no"] \o Rest["idle"]
    BY <1>1, <1>3 DEF Flush
  <1>9. given_up' = {} /\ (mm'.finished > 0 => mm'.path # 0)
    BY <1>1, <1>5, <1>6 DEF LossInv
  <1> QED BY <1>7, <1>8, <1>9, RunsOn DEF FlushNames, RestNames

LEMMA Loss_store_marker ==
  ASSUME Inv, LossInv, Calm, store_marker
  PROVE  LossInv'
  <1>1. /\ file' = file /\ io' = io /\ given_up' = given_up /\ todo' = <<>> \o Tail(todo)
        /\ mm'.finished = mm.finished /\ mm'.path = mm.path
    <2>1. mm \in MmSet
      BY KnownParts DEF Inv
    <2>2. \/ mm' = [mm EXCEPT !.cells = @ \o <<Start>>, !.finished = mm.finished]
          \/ mm' = [mm EXCEPT !.cells = @ \o <<End>>, !.finished = mm.finished]
      BY DEF store_marker, Store
    <2>3. mm'.finished = mm.finished /\ mm'.path = mm.path
      BY <2>1, <2>2 DEF MmSet
    <2> QED BY <2>3 DEF store_marker, Then, history
  <1>2. given_up' = {} /\ (mm'.finished > 0 => mm'.path # 0)
    BY <1>1 DEF LossInv
  <1>3. CASE At("store_start")
    <2>1. PICK f \in FlushNames, k \in RestNames :
            Lossless(f, k, mm.finished, file, mm.path, io.real, io.err) /\ Spot("store_start", f, k, Tail(todo))
      BY <1>3, RunsAt
    <2>2. f = "no" /\ k = "store_start" /\ Tail(todo) = Rest["log_recovered"]
      BY <2>1 DEF Spot
    <2>3. Lossless("no", "log_recovered", mm'.finished, file', mm'.path, io'.real, io'.err)
      BY <1>1, <2>1, <2>2 DEF Lossless
    <2>4. todo' = Flush["no"] \o Rest["log_recovered"]
      BY <1>1, <2>2 DEF Flush
    <2> QED BY <1>2, <2>3, <2>4, RunsOn DEF FlushNames, RestNames
  <1>4. CASE At("store_end")
    <2>1. PICK f \in FlushNames, k \in RestNames :
            Lossless(f, k, mm.finished, file, mm.path, io.real, io.err) /\ Spot("store_end", f, k, Tail(todo))
      BY <1>4, RunsAt
    <2>2. f = "no" /\ k = "store_end" /\ Tail(todo) = Flush["flush"] \o Rest["refresh_log"]
      BY <2>1 DEF Spot
    <2>3. Lossless("flush", "refresh_log", mm'.finished, file', mm'.path, io'.real, io'.err)
      BY <1>1, <2>1, <2>2 DEF Lossless
    <2>4. "refresh_log" \in RestNames /\ "flush" \in FlushNames
      BY DEF RestNames, FlushNames
    <2>5. todo' = Flush["flush"] \o Rest["refresh_log"]
      BY <1>1, <2>2, <2>4, AnyRest
    <2> QED BY <1>2, <2>3, <2>4, <2>5, RunsOn
  <1> QED BY <1>3, <1>4 DEF store_marker

\* A process that has ended.
LEMMA LossEnded ==
  ASSUME alive' = FALSE, given_up' = {}, mm'.finished > 0 => mm'.path # 0
  PROVE  LossInv'
  BY DEF LossInv

LEMMA Loss_ends ==
  ASSUME Inv, LossInv, Calm, crash \/ exit \/ open_in_destructor
  PROVE  LossInv'
  <1>1. mm \in MmSet /\ given_up = {} /\ (mm.finished > 0 => mm.path # 0)
    BY KnownParts DEF Inv, LossInv
  <1>2. alive' = FALSE
    BY DEF crash, exit, open_in_destructor, Gone
  <1>3. CASE crash \/ exit
    <2>1. mm' = [mm EXCEPT !.cells = Pending] /\ given_up' = given_up
      BY <1>3 DEF crash, exit, history
    <2>2. mm'.finished = mm.finished /\ mm'.path = mm.path
      BY <1>1, <2>1 DEF MmSet
    <2> QED BY <1>1, <1>2, <2>1, <2>2, LossEnded
  <1>4. CASE open_in_destructor
    <2>1. At("open") /\ Tail(todo) = <<"exit">>
      BY <1>4 DEF open_in_destructor
    <2>2. PICK f \in FlushNames, k \in RestNames :
            Lossless(f, k, mm.finished, file, mm.path, io.real, io.err) /\ Spot("open", f, k, Tail(todo))
      BY <2>1, RunsAt
    <2>3. Tail(todo) = Rest["log"] \/ Tail(todo) = Rest["start"] \/ Tail(todo) = Rest["entry"]
      BY <2>2 DEF Spot, Lossless
    <2>4. /\ Rest["log"] = <<"log">> /\ Rest["start"] = <<"start", "log_recovered">>
          /\ Rest["entry"] = <<"entry">>
      BY DEF Rest
    <2>5. <<"exit">> # <<"log">> /\ <<"exit">> # <<"entry">> /\ <<"exit">> # <<"start", "log_recovered">>
      OBVIOUS
    <2> QED BY <2>1, <2>3, <2>4, <2>5
  <1> QED BY <1>3, <1>4

LEMMA Loss_destruct ==
  ASSUME Inv, LossInv, Calm, destruct
  PROVE  LossInv'
  <1>1. /\ alive /\ todo = <<>> /\ file' = file /\ io' = io /\ given_up' = given_up
        /\ mm' = IF mm.finished = 0 THEN [cells |-> <<>>, finished |-> 0, path |-> 0] ELSE mm
        /\ todo' = <<"flush", "exit">>
    BY DEF destruct, history
  <1>2. Lossless("no", "idle", mm.finished, file, mm.path, io.real, io.err)
    BY <1>1, RunsIdle
  <1>3. mm'.finished = mm.finished /\ (mm'.finished > 0 => mm'.path = mm.path)
    <2>1. CASE mm.finished = 0
      BY <1>1, <2>1
    <2>2. CASE mm.finished # 0
      BY <1>1, <2>2
    <2> QED BY <2>1, <2>2
  <1>4. Lossless("flush", "exit", mm'.finished, file', mm'.path, io'.real, io'.err)
    BY <1>1, <1>2, <1>3 DEF Lossless
  <1>5. todo' = Flush["flush"] \o Rest["exit"]
    BY <1>1, JoinsHold DEF Joins
  <1>6. given_up' = {} /\ (mm'.finished > 0 => mm'.path # 0)
    BY <1>1, <1>3 DEF LossInv
  <1> QED BY <1>4, <1>5, <1>6, RunsOn DEF FlushNames, RestNames

\* A started process: what is to be recovered has a path, and its file opens.
LEMMA Loss_init_impl ==
  ASSUME Inv, SpentOK, LossInv, Calm, init_impl, Calm'
  PROVE  LossInv'
  <1>1. ~alive /\ io' = io /\ given_up = {} /\ (mm.finished > 0 => mm.path # 0)
    BY DEF init_impl, LossInv
  <1>2. Known /\ file = 0 /\ todo = <<>> /\ mm.finished \in Nat
    BY <1>1, KnownParts DEF Inv, Dead
  <1>3. ~Spend("full") /\ ~Spend("errors")
    BY Accounting
  <1>4. CASE /\ mm.path # 0 /\ mm.finished > 0
             /\ file' = mm.path
             /\ todo' = <<"recover", "flush", "recovered">>
             /\ mm' = mm /\ given_up' = given_up
    <2>1. Lossless("no", "recover", mm'.finished, file', mm'.path, io'.real, io'.err)
      BY <1>4 DEF Lossless
    <2>2. todo' = Flush["no"] \o Rest["recover"]
      BY <1>4, JoinsHold DEF Joins
    <2>3. given_up' = {} /\ (mm'.finished > 0 => mm'.path # 0)
      BY <1>1, <1>4
    <2> QED BY <2>1, <2>2, <2>3, RunsOn DEF FlushNames, RestNames, RecoverRests
  <1>5. CASE /\ ~(mm.path # 0 /\ mm.finished > 0)
             /\ mm' = Cleaned /\ given_up' = given_up \cup EntriesIn(Pending)
             /\ file' = file /\ todo' = todo
    <2>1. mm.finished = 0
      BY <1>1, <1>2, <1>5
    <2>2. given_up' = {}
      BY <1>1, <1>2, <1>5, <2>1, NothingPending
    <2>3. mm'.finished = 0
      BY <1>2, <1>5, CleanedIs
    <2>4. Lossless("no", "idle", mm'.finished, file', mm'.path, io'.real, io'.err)
      BY <1>2, <1>5, <2>3 DEF Lossless
    <2>5. todo' = Flush["no"] \o Rest["idle"]
      BY <1>2, <1>5, JoinsHold DEF Joins
    <2>6. mm'.finished > 0 => mm'.path # 0
      BY <2>3
    <2> QED BY <2>2, <2>4, <2>5, <2>6, RunsOn DEF FlushNames, RestNames
  <1> QED BY <1>3, <1>4, <1>5 DEF init_impl

LEMMA Loss_recovery_start_marker ==
  ASSUME LossInv, Calm, recovery_start_marker
  PROVE  LossInv'
  <1>1. At("recover") /\ Same /\ todo' = <<>> \o Tail(todo)
    BY DEF recovery_start_marker, Same, Then, history
  <1>2. PICK f \in FlushNames, k \in RestNames :
          Lossless(f, k, mm.finished, file, mm.path, io.real, io.err) /\ Spot("recover", f, k, Tail(todo))
    BY <1>1, RunsAt
  <1>3. f = "no" /\ k = "recover" /\ Tail(todo) = Flush["flush"] \o Rest["recovered"]
    BY <1>2 DEF Spot
  <1>4. Lossless("flush", "recovered", mm.finished, file, mm.path, io.real, io.err)
    BY <1>2, <1>3 DEF Lossless
  <1>5. "flush" \in FlushNames /\ "recovered" \in RestNames
    BY DEF FlushNames, RestNames, RecoverRests
  <1>6. todo' = Flush["flush"] \o Rest["recovered"]
    BY <1>1, <1>3, <1>5, AnyRest
  <1> QED BY <1>1, <1>4, <1>5, <1>6, RunsSame

\* The flush of a recovery has written everything.
LEMMA Loss_recovered ==
  ASSUME Inv, LossInv, Calm, recovery_end_marker \/ recovery_failed
  PROVE  LossInv'
  <1>1. At("recovered") /\ io' = io /\ todo' = <<>> \o Tail(todo) /\ file' = 0 /\ mm' = Cleaned
    BY DEF recovery_end_marker, recovery_failed, Then
  <1>2. PICK f \in FlushNames, k \in RestNames :
          Lossless(f, k, mm.finished, file, mm.path, io.real, io.err) /\ Spot("recovered", f, k, Tail(todo))
    BY <1>1, RunsAt
  <1>3. f = "no" /\ k = "recovered" /\ Tail(todo) = Rest["idle"]
    BY <1>2 DEF Spot
  <1>4. mm.finished = 0
    BY <1>2, <1>3 DEF Lossless
  <1>5. given_up' = given_up /\ given_up = {}
    BY <1>4 DEF recovery_end_marker, recovery_failed, history, LossInv
  <1>6. mm'.finished = 0
    BY <1>1, CleanedIs DEF Inv
  <1>7. Lossless("no", "idle", mm'.finished, file', mm'.path, io'.real, io'.err)
    BY <1>1, <1>6 DEF Lossless
  <1>8. todo' = Flush["no"] \o Rest["idle"]
    BY <1>1, <1>3 DEF Flush
  <1>9. given_up' = {} /\ (mm'.finished > 0 => mm'.path # 0)
    BY <1>5, <1>6
  <1> QED BY <1>7, <1>8, <1>9, RunsOn DEF FlushNames, RestNames

LEMMA LossStarts == Init => SpentOK /\ LossInv
  <1> SUFFICES ASSUME Init PROVE SpentOK /\ LossInv
    OBVIOUS
  <1>1. /\ mm = [cells |-> <<>>, finished |-> 0, path |-> 0] /\ file = 0 /\ todo = <<>>
        /\ io = [real |-> 0, err |-> "none"] /\ given_up = {}
        /\ spent = [w \in {"full", "errors", "ends", "days"} |-> 0]
    BY DEF Init
  <1>2. SpentOK
    BY <1>1 DEF SpentOK, Accounts
  <1>3. mm.finished = 0
    BY <1>1
  <1>4. Lossless("no", "idle", mm.finished, file, mm.path, io.real, io.err)
    BY <1>1, <1>3 DEF Lossless
  <1>5. Runs("no", "idle")
    BY <1>1, <1>4, JoinsHold DEF Joins, Runs
  <1> QED BY <1>1, <1>2, <1>3, <1>5 DEF LossInv, FlushNames, RestNames

LEMMA LossKept == Inv /\ SpentOK /\ LossInv /\ [Next]_vars => SpentOK' /\ LossInv'
  <1> SUFFICES ASSUME Inv, SpentOK, LossInv, [Next]_vars PROVE SpentOK' /\ LossInv'
    OBVIOUS
  <1>1. SpentOK' /\ (Calm' => Calm)
    BY Quieter
  <1>2. CASE ~Calm'
    BY <1>1, <1>2 DEF LossInv
  <1>3. CASE Calm'
    <2>1. Calm
      BY <1>1, <1>3
    <2>2. CASE log_impl
      BY <1>1, <2>1, <2>2, Loss_log_impl
    <2>3. CASE refresh_file_handle
      BY <1>1, <2>1, <2>3, Loss_refresh_file_handle
    <2>4. CASE open_new_indexed_file_by_name
      BY <1>1, <1>3, <2>1, <2>4, Loss_open_new_indexed_file_by_name
    <2>5. CASE alloc_entry \/ refuse_entry \/ recovery_begin \/ recovery_end
      BY <1>1, <2>1, <2>5, Loss_alloc
    <2>6. CASE store_entry
      BY <1>1, <2>1, <2>6, Loss_store_entry
    <2>7. CASE store_marker
      BY <1>1, <2>1, <2>7, Loss_store_marker
    <2>8. CASE flush_write_cache
      BY <1>1, <1>3, <2>1, <2>8, Loss_flush_write_cache
    <2>9. CASE no_file_to_flush
      BY <1>1, <2>1, <2>9, Loss_no_file_to_flush
    <2>10. CASE flush_keep
      BY <1>1, <2>1, <2>10, Loss_flush_keep
    <2>11. CASE flush_count
      BY <1>1, <2>1, <2>11, Loss_flush_count
    <2>12. CASE crash \/ exit \/ open_in_destructor
      BY <1>1, <2>1, <2>12, Loss_ends
    <2>13. CASE recovery_start_marker
      BY <1>1, <2>1, <2>13, Loss_recovery_start_marker
    <2>14. CASE recovery_end_marker \/ recovery_failed
      BY <1>1, <2>1, <2>14, Loss_recovered
    <2>15. CASE process_new \/ process_recovered \/ flush_appenders_cache
      BY <1>1, <2>1, <2>15, Loss_process
    <2>16. CASE destruct
      BY <1>1, <2>1, <2>16, Loss_destruct
    <2>17. CASE init_impl
      BY <1>1, <1>3, <2>1, <2>17, Loss_init_impl
    <2>18. CASE UNCHANGED vars
      <3>1. /\ mm' = mm /\ file' = file /\ io' = io /\ given_up' = given_up /\ todo' = todo
            /\ alive' = alive
        BY <2>18 DEF vars, history
      <3>2. ASSUME NEW f, NEW k, Runs(f, k) PROVE Runs(f, k)'
        BY <3>1, <3>2 DEF Runs
      <3> QED BY <1>1, <2>1, <3>1, <3>2 DEF LossInv
    <2>19. LossInv'
      BY <2>2, <2>3, <2>4, <2>5, <2>6, <2>7, <2>8, <2>9, <2>10, <2>11, <2>12, <2>13, <2>14, <2>15,
         <2>16, <2>17, <2>18 DEF Next, Call
    <2> QED BY <1>1, <2>19
  <1> QED BY <1>2, <1>3

LEMMA LossFollows == LossInv => LossNeedsFault
  BY DEF LossInv, Calm, LossNeedsFault

\* An entry that the cache accepted is dropped only after a write or an open
\* failed: rolling files, the end of a day, crashes at any step, orderly ends and
\* recoveries alone lose nothing, in any number and order, for every size of cache
\* and files (open_new_indexed_file_by_name and try_recover, which clean the cache).
THEOREM LossAlwaysNeedsFault == Spec => []LossNeedsFault
  <1>1. Init => Inv /\ SpentOK /\ LossInv
    BY Starts, LossStarts
  <1>2. (Inv /\ SpentOK /\ LossInv) /\ [Next]_vars => (Inv /\ SpentOK /\ LossInv)'
    BY Inductive, LossKept
  <1> QED BY <1>1, <1>2, LossFollows, PTL DEF Spec

=============================================================================
