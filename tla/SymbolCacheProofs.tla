-------------------------- MODULE SymbolCacheProofs --------------------------
(***************************************************************************)
(* What holds of SymbolCache for every interval, every time a request may  *)
(* take, any number of parts and of notifications, and for ever.           *)
(***************************************************************************)
EXTENDS SymbolCache, SequenceTheorems, TLAPS

USE LeavesAssumption, TimesAssumption

-----------------------------------------------------------------------------
(* Symbols and what is stored for them *)

LEMMA Kinds ==
  /\ Parts(Struct) = Leaves /\ Parsed(Struct) = Symbols /\ Struct \in Symbols
  /\ \A l \in Leaves : l \in Symbols /\ l # Struct /\ Parts(l) = {l} /\ Parsed(l) = {l}
  /\ \A s \in Symbols : s # Struct => s \in Leaves
BY DEF Parts, Parsed, Symbols

LEMMA Times == /\ Interval \in Nat /\ Timeout \in Nat /\ MaxTime \in Nat /\ MaxNotes \in Nat
               /\ Never = -1
BY DEF Never

\* A sample of a leaf is a value, and no "".
LEMMA SampleIsValue ==
  ASSUME NEW l \in Leaves, NEW sample \in [Leaves -> Values]
  PROVE  /\ NewLeaf(l, sample) \in SampleOf(l) /\ NewLeaf(l, sample)[l] = sample[l]
         /\ NewLeaf(l, sample) # NoValue /\ sample[l] \in Values
<1>1. NewLeaf(l, sample) = [x \in {l} |-> sample[x]] /\ sample[l] \in Values
  BY DEF NewLeaf
<1>2. NewLeaf(l, sample) \in [{l} -> Values \cup {0}]
  BY <1>1
<1>3. {l} \in SUBSET Leaves
  OBVIOUS
<1>4. NoValue \notin [{l} -> Values \cup {0}]
  BY <1>3, NoValueAssumption
<1> QED
  BY <1>1, <1>2, <1>4, Kinds DEF SampleOf

\* GetJSON of a structure: a value per part, that of the part if it has one.
LEMMA JSONIsValue ==
  ASSUME TypeOK, NEW sample \in [Leaves -> Values]
  PROVE  /\ JSON(sample) \in SampleOf(Struct) /\ JSON(sample) # NoValue
         /\ \A l \in Leaves : JSON(sample)[l] = IF LeafAfter(l, sample) = NoValue THEN 0
                                                ELSE LeafAfter(l, sample)[l]
<1>1. \A l \in Leaves : JSON(sample)[l] = IF LeafAfter(l, sample) = NoValue THEN 0
                                         ELSE LeafAfter(l, sample)[l]
  BY DEF JSON
<1>2. ASSUME NEW l \in Leaves, LeafAfter(l, sample) # NoValue
      PROVE  LeafAfter(l, sample)[l] \in Values \cup {0}
  <2>1. CASE TooSoon(l)
    <3>1. LeafAfter(l, sample) = Value[l]
      BY <2>1 DEF LeafAfter
    <3>2. Value[l] \in [{l} -> Values \cup {0}]
      BY <1>2, <3>1, Kinds DEF TypeOK, SampleOf
    <3> QED
      BY <3>1, <3>2
  <2>2. CASE ~TooSoon(l)
    BY <2>2, SampleIsValue DEF LeafAfter
  <2> QED
    BY <2>1, <2>2
<1>3. \A l \in Leaves : JSON(sample)[l] \in Values \cup {0}
  BY <1>1, <1>2
<1>4. JSON(sample) \in [Leaves -> Values \cup {0}]
  BY <1>3 DEF JSON
<1>5. NoValue \notin [Leaves -> Values \cup {0}]
  BY NoValueAssumption
<1> QED
  BY <1>1, <1>4, <1>5, Kinds DEF SampleOf

\* parse: what is parsed and not throttled gets its new value, all else keeps its own.
LEMMA Parsing ==
  ASSUME NEW s \in Symbols, NEW sample, Parse(s, sample), NEW x \in Symbols
  PROVE  Value'[x] = IF x \in Parsed(s) /\ ~TooSoon(x) THEN NewValue(x, sample) ELSE Value[x]
BY DEF Parse, Updated

-----------------------------------------------------------------------------
(* What was true stays true *)

\* Time goes on, and the history grows with it.
Grows ==
  /\ now' >= now
  /\ \A l \in Leaves : \A v \in Values : lastHad'[l][v] >= lastHad[l][v]
  /\ \A l \in Leaves : noted'[l] >= noted[l]
  /\ \A s \in Symbols : touched'[s] >= touched[s]

LEMMA StaysBacked ==
  ASSUME TypeOK, TypeOK', Grows, NEW l \in Leaves, NEW v, NEW t \in Int
  PROVE  /\ Backed(lastHad[l], v, t) => Backed(lastHad'[l], v, t)
         /\ Had(lastHad[l], v, t) => Had(lastHad'[l], v, t)
         /\ noted[l] >= t => noted'[l] >= t
         /\ noted[l] > t => noted'[l] > t
<1>1. noted[l] \in Int /\ noted'[l] \in Int /\ noted'[l] >= noted[l]
  BY Times DEF TypeOK, Grows
<1>2. ASSUME v \in Values
      PROVE  /\ lastHad[l][v] \in Int /\ lastHad'[l][v] \in Int /\ lastHad'[l][v] >= lastHad[l][v]
             /\ lastHad[l][v] # Never => lastHad[l][v] >= 0
  BY <1>2, Times DEF TypeOK, Grows
<1>3. v \in Values /\ lastHad[l][v] # Never => lastHad'[l][v] # Never
  BY <1>2, Times
<1> QED
  BY <1>1, <1>2, <1>3 DEF Backed, Had

LEMMA LeafStays ==
  ASSUME TypeOK, TypeOK', Grows, LeavesBacked, NEW l \in Leaves, Value[l] # NoValue
  PROVE  \/ Backed(lastHad'[l], Value[l][l], LastUpdateTime[l] - Timeout)
         \/ noted'[l] >= LastUpdateTime[l]
<1>1. LastUpdateTime[l] \in Int /\ LastUpdateTime[l] - Timeout \in Int
  BY Times, Kinds DEF TypeOK
<1>2. \/ Backed(lastHad[l], Value[l][l], LastUpdateTime[l] - Timeout)
      \/ noted[l] >= LastUpdateTime[l]
  BY DEF LeavesBacked
<1> QED
  BY <1>1, <1>2, StaysBacked

LEMMA StructStays ==
  ASSUME TypeOK, TypeOK', Grows, StructBacked, Value'[Struct] = Value[Struct],
         LastUpdateTime'[Struct] = LastUpdateTime[Struct]
  PROVE  StructBacked'
<1>1. ASSUME Value[Struct] # NoValue, NEW l \in Leaves
      PROVE  \/ Backed(lastHad'[l], Value[Struct][l], LastUpdateTime[Struct] - Interval - Timeout)
             \/ noted'[l] >= LastUpdateTime[Struct] - Interval
             \/ Value[Struct][l] = 0 /\ touched'[l] >= LastUpdateTime[Struct]
  <2>1. LastUpdateTime[Struct] - Interval \in Int
        /\ LastUpdateTime[Struct] - Interval - Timeout \in Int /\ LastUpdateTime[Struct] \in Int
    <3>1. LastUpdateTime[Struct] \in Int
      BY Kinds DEF TypeOK
    <3> QED
      BY <3>1, Times
  <2>2. \/ Backed(lastHad[l], Value[Struct][l], LastUpdateTime[Struct] - Interval - Timeout)
        \/ noted[l] >= LastUpdateTime[Struct] - Interval
        \/ Value[Struct][l] = 0 /\ touched[l] >= LastUpdateTime[Struct]
    BY <1>1 DEF StructBacked
  <2>3. touched[l] >= LastUpdateTime[Struct] => touched'[l] >= LastUpdateTime[Struct]
    <3>1. touched[l] \in Int /\ touched'[l] \in Int /\ touched'[l] >= touched[l]
      BY Kinds DEF TypeOK, Grows
    <3> QED
      BY <2>1, <3>1
  <2> QED
    BY <2>1, <2>2, <2>3, StaysBacked
<1> QED
  BY <1>1 DEF StructBacked

LEMMA CacheStays ==
  ASSUME TypeOK, TypeOK', Grows, UNCHANGED cacheVars, LeavesBacked, StructBacked
  PROVE  LeavesBacked' /\ StructBacked'
<1>1. Value' = Value /\ LastUpdateTime' = LastUpdateTime
  BY DEF cacheVars
<1>2. LeavesBacked'
  BY <1>1, LeafStays DEF LeavesBacked
<1> QED
  BY <1>1, <1>2, StructStays

LEMMA AnswerStays ==
  ASSUME TypeOK, TypeOK', Grows, answer' = answer, ReadsAreFresh
  PROVE  ReadsAreFresh'
<1> DEFINE oldest == answer.called - MaxAge(answer.sym)
<1>1. oldest \in Int
  BY Times DEF TypeOK, MaxAge
<1>2. ASSUME NEW l \in Parts(answer.sym)
      PROVE  l \in Leaves
  <2>1. answer.sym \in Symbols
    BY DEF TypeOK
  <2> QED
    BY <1>2, <2>1, Kinds
<1> HIDE DEF oldest
<1>3. ASSUME NEW l \in Parts(answer.sym),
             \/ Had(lastHad[l], answer.value[l], oldest)
             \/ noted[l] > oldest
             \/ answer.value[l] = 0 /\ l \in answer.hurried
      PROVE  \/ Had(lastHad'[l], answer.value[l], oldest)
             \/ noted'[l] > oldest
             \/ answer.value[l] = 0 /\ l \in answer.hurried
  BY <1>1, <1>2, <1>3, StaysBacked
<1> QED
  BY <1>3 DEF ReadsAreFresh, oldest

\* A notification handled, or none: what arrived last is still what was newest.
LEMMA NewestStays ==
  ASSUME NewestArrived, UNCHANGED <<handled, lastUpdate>>,
         \A s \in Subscribed : calm'[s] => calm[s],
         \A n \in handled : notes'[n] = notes[n]
  PROVE  NewestArrived'
<1>1. ASSUME NEW s \in Subscribed, calm'[s], {n \in handled : notes'[n].sym = s} # {}
      PROVE  \E n \in {n \in handled : notes'[n].sym = s} :
               /\ \A m \in {m \in handled : notes'[m].sym = s} : m <= n
               /\ lastUpdate[s] = [l \in Parts(s) |-> notes'[n].sample[l]]
  <2>1. {n \in handled : notes'[n].sym = s} = Handled(s)
    BY DEF Handled
  <2>2. PICK n \in Handled(s) : /\ \A m \in Handled(s) : m <= n
                                /\ lastUpdate[s] = [l \in Parts(s) |-> notes[n].sample[l]]
    BY <1>1, <2>1 DEF NewestArrived
  <2>3. notes'[n] = notes[n]
    BY <2>2 DEF Handled
  <2> QED
    BY <2>1, <2>2, <2>3
<1> QED
  BY <1>1 DEF NewestArrived, Handled

-----------------------------------------------------------------------------
(* The invariant: steps that parse nothing *)

LEMMA InvInit == Init => Inv
<1>1. SUFFICES ASSUME Init PROVE Inv
  OBVIOUS
<1>2. variable \in [Leaves -> Values] /\ now = 0
  BY <1>1 DEF Init
<1>3. ASSUME NEW l \in Leaves
      PROVE  /\ lastHad[l] = [v \in Values |-> IF v = variable[l] THEN 0 ELSE Never]
             /\ variable[l] \in Values
  BY <1>1, <1>2 DEF Init
<1>4. TypeOK
  <2>1. lastHad \in [Leaves -> [Values -> Never .. now]]
    BY <1>1, <1>2, Times DEF Init
  <2>2. notes \in Seq([sym : Subscribed, sample : [Leaves -> Values]]) /\ handled \subseteq DOMAIN notes
    BY <1>1 DEF Init
  <2>3. /\ LastUpdateTime \in [Symbols -> 0 .. now] /\ noted \in [Leaves -> Never .. now]
        /\ touched \in [Symbols -> 0 .. now] /\ calm \in [Symbols -> BOOLEAN]
        /\ DOMAIN lastUpdate = Symbols
    BY <1>1, <1>2, Times DEF Init
  <2>4. answer.sym \in Symbols /\ answer.called \in 0 .. now
    BY <1>1, <1>2, Kinds DEF Init, NoAnswer
  <2>5. (\A s \in Symbols : Value[s] = NoValue) /\ reading = Idle
    BY <1>1 DEF Init
  <2>6. now \in 0 .. MaxTime
    BY <1>2, Times
  <2> QED
    BY <1>2, <2>1, <2>2, <2>3, <2>4, <2>5, <2>6 DEF TypeOK
<1>5. OnTime
  <2>1. \A l \in Leaves : lastHad[l][variable[l]] = now
    BY <1>2, <1>3
  <2> QED
    BY <1>1, <2>1 DEF Init, OnTime
<1>6. ReadInTime /\ LeavesBacked /\ StructBacked
  BY <1>1, Kinds DEF Init, ReadInTime, LeavesBacked, StructBacked
<1>7. ReadsAreFresh
  BY <1>1, Kinds DEF Init, NoAnswer, ReadsAreFresh
<1>8. NewestArrived
  BY <1>1 DEF Init, NewestArrived, Handled
<1> QED
  BY <1>4, <1>5, <1>6, <1>7, <1>8 DEF Inv

\* A step that changes neither cache nor clock nor history.
Same == UNCHANGED <<now, variable, cacheVars, history>>

LEMMA SameGrows ==
  ASSUME TypeOK, Same
  PROVE  Grows
<1>1. now \in Int /\ \A l \in Leaves : noted[l] \in Int /\ \A v \in Values : lastHad[l][v] \in Int
  BY Times DEF TypeOK
<1>2. \A s \in Symbols : touched[s] \in Int
  BY DEF TypeOK
<1> QED
  BY <1>1, <1>2 DEF Same, history, Grows

LEMMA InvSame ==
  ASSUME Inv, Same, TypeOK', ReadInTime', handled' = handled, \A n \in handled : notes'[n] = notes[n]
  PROVE  Inv'
<1>1. TypeOK /\ OnTime /\ LeavesBacked /\ StructBacked /\ ReadsAreFresh /\ NewestArrived
  BY DEF Inv
<1>2. Grows
  BY <1>1, SameGrows
<1>3. LeavesBacked' /\ StructBacked'
  BY <1>1, <1>2, CacheStays DEF Same
<1>4. ReadsAreFresh'
  BY <1>1, <1>2, AnswerStays DEF Same, history
<1>5. NewestArrived'
  BY <1>1, NewestStays DEF Same, history
<1>6. OnTime'
  BY <1>1 DEF OnTime, Same, history, cacheVars
<1> QED
  BY <1>3, <1>4, <1>5, <1>6 DEF Inv

LEMMA InvReadStart ==
  ASSUME Inv, NEW s \in Symbols, ReadStart(s)
  PROVE  Inv'
<1>1. TypeOK
  BY DEF Inv
<1>2. /\ Same /\ reading' = [sym |-> s, start |-> now, sample |-> NoValue] /\ ~Cached(s)
      /\ notes' = notes /\ handled' = handled
  BY DEF ReadStart, Same, noteVars
<1>3. now \in Nat /\ now \in 0 .. now /\ LastUpdateTime[s] \in Int
  BY <1>1, Times DEF TypeOK
<1>4. TypeOK'
  <2>1. reading' \in [sym : Symbols, start : 0 .. now', sample : {NoValue} \cup [Leaves -> Values]]
    BY <1>2, <1>3 DEF Same
  <2> QED
    BY <1>1, <1>2, <2>1 DEF TypeOK, Same, cacheVars, history
<1>5. ReadInTime'
  <2>1. Value[s] # NoValue => now - LastUpdateTime[s] >= Interval
    BY <1>2, <1>3, Times DEF Cached
  <2>2. now - now <= Timeout
    BY <1>3, Times
  <2> QED
    BY <1>2, <2>1, <2>2 DEF ReadInTime, Same, cacheVars
<1> QED
  BY <1>2, <1>4, <1>5, InvSame

LEMMA InvDeviceReads ==
  ASSUME Inv, DeviceReads
  PROVE  Inv'
<1>1. TypeOK /\ OnTime /\ ReadInTime
  BY DEF Inv
<1>2. /\ Same /\ reading # Idle /\ reading' = [reading EXCEPT !.sample = variable]
      /\ notes' = notes /\ handled' = handled
  BY DEF DeviceReads, Same, noteVars
<1>3. /\ reading \in [sym : Symbols, start : 0 .. now, sample : {NoValue} \cup [Leaves -> Values]]
      /\ variable \in [Leaves -> Values] /\ now \in Nat
  BY <1>1, <1>2, Times DEF TypeOK
<1>4. reading'.sym = reading.sym /\ reading'.start = reading.start /\ reading'.sample = variable
  BY <1>2, <1>3
<1>5. TypeOK'
  <2>1. reading' \in [sym : Symbols, start : 0 .. now', sample : {NoValue} \cup [Leaves -> Values]]
    BY <1>2, <1>3 DEF Same
  <2> QED
    BY <1>1, <1>2, <2>1 DEF TypeOK, Same, cacheVars, history
<1>6. ReadInTime'
  <2>1. ASSUME NEW l \in Leaves PROVE Backed(lastHad[l], variable[l], reading.start)
    <3>1. lastHad[l][variable[l]] = now /\ variable[l] \in Values
      BY <1>1, <1>3 DEF OnTime
    <3> QED
      BY <1>3, <3>1, Times DEF Backed
  <2> QED
    BY <1>1, <1>2, <1>4, <2>1 DEF ReadInTime, Same, cacheVars, history
<1> QED
  BY <1>2, <1>5, <1>6, InvSame

LEMMA InvReadFails ==
  ASSUME Inv, ReadFails
  PROVE  Inv'
<1>1. Same /\ reading' = Idle /\ notes' = notes /\ handled' = handled
  BY DEF ReadFails, Same, noteVars
<1>2. TypeOK'
  BY <1>1 DEF Inv, TypeOK, Same, cacheVars, history
<1>3. ReadInTime'
  BY <1>1 DEF ReadInTime
<1> QED
  BY <1>1, <1>2, <1>3, InvSame

LEMMA InvDeviceNotifies ==
  ASSUME Inv, NEW s \in Subscribed, DeviceNotifies(s)
  PROVE  Inv'
<1>1. TypeOK /\ ReadInTime
  BY DEF Inv
<1>2. Same /\ reading' = reading /\ notes' = Append(notes, [sym |-> s, sample |-> variable])
      /\ handled' = handled
  BY DEF DeviceNotifies, Same
<1> DEFINE Note == [sym : Subscribed, sample : [Leaves -> Values]]
<1>3. notes \in Seq(Note) /\ [sym |-> s, sample |-> variable] \in Note /\ handled \subseteq DOMAIN notes
  BY <1>1 DEF TypeOK
<1> HIDE DEF Note
<1>4. notes' \in Seq(Note) /\ DOMAIN notes \subseteq DOMAIN notes' /\ \A n \in DOMAIN notes : notes'[n] = notes[n]
  BY <1>2, <1>3
<1>5. TypeOK'
  <2>1. notes' \in Seq([sym : Subscribed, sample : [Leaves -> Values]]) /\ handled' \subseteq DOMAIN notes'
    BY <1>2, <1>3, <1>4 DEF Note
  <2> QED
    BY <1>1, <1>2, <2>1 DEF TypeOK, Same, cacheVars, history
<1>6. ReadInTime'
  BY <1>1, <1>2 DEF ReadInTime, Same, cacheVars, history
<1>7. \A n \in handled : notes'[n] = notes[n]
  BY <1>3, <1>4
<1> QED
  BY <1>2, <1>5, <1>6, <1>7, InvSame

\* The stored value that ReadFromSymbol serves is younger than Interval, and
\* what it was made of not much older.
LEMMA InvReadCached ==
  ASSUME Inv, NEW s \in Symbols, ReadCached(s)
  PROVE  Inv'
<1>1. TypeOK /\ OnTime /\ ReadInTime /\ LeavesBacked /\ StructBacked /\ NewestArrived
  BY DEF Inv
<1>2. /\ UNCHANGED <<now, variable, cacheVars, reading, noteVars, lastHad, noted, touched, lastUpdate, calm>>
      /\ Value' = Value /\ Cached(s)
      /\ answer' = [sym |-> s, value |-> Value[s], called |-> now,
                    hurried |-> {x \in Parsed(s) : now - touched[x] <= Interval}]
  BY DEF ReadCached, cacheVars, Answers
<1>3. /\ now \in Nat /\ \A x \in Symbols : LastUpdateTime[x] \in Int /\ touched[x] \in Int
      /\ \A l \in Leaves : noted[l] \in Int /\ \A v \in Values : lastHad[l][v] \in Int
  BY <1>1, Times DEF TypeOK
<1>4. TypeOK'
  BY <1>1, <1>2, <1>3 DEF TypeOK, cacheVars, noteVars
<1>5. /\ OnTime' /\ ReadInTime' /\ LeavesBacked' /\ StructBacked' /\ NewestArrived'
  BY <1>1, <1>2 DEF OnTime, ReadInTime, LeavesBacked, StructBacked, NewestArrived, Handled,
                    cacheVars, noteVars
<1>6. now - LastUpdateTime[s] < Interval /\ Value[s] # NoValue
  BY <1>2 DEF Cached
<1> DEFINE oldest == now - MaxAge(s)
           hurried == {x \in Parsed(s) : now - touched[x] <= Interval}
<1>7. ASSUME NEW l \in Parts(s)
      PROVE  \/ Had(lastHad[l], Value[s][l], oldest)
             \/ noted[l] > oldest
             \/ Value[s][l] = 0 /\ l \in hurried
  <2>1. CASE s = Struct
    <3>1. l \in Leaves /\ l \in Parsed(s) /\ l \in Symbols
      BY <1>7, <2>1, Kinds
    <3>2. oldest = now - (2 * Interval + Timeout)
      BY <2>1 DEF MaxAge
    <3> HIDE DEF oldest
    <3>3. \/ Backed(lastHad[l], Value[s][l], LastUpdateTime[s] - Interval - Timeout)
          \/ noted[l] >= LastUpdateTime[s] - Interval
          \/ Value[s][l] = 0 /\ touched[l] >= LastUpdateTime[s]
      BY <1>1, <1>6, <2>1, <3>1 DEF StructBacked
    <3>4. CASE Backed(lastHad[l], Value[s][l], LastUpdateTime[s] - Interval - Timeout)
      BY <1>3, <1>6, <3>1, <3>2, <3>4, Times DEF Backed, Had
    <3>5. CASE noted[l] >= LastUpdateTime[s] - Interval
      BY <1>3, <1>6, <3>1, <3>2, <3>5, Times
    <3>6. CASE Value[s][l] = 0 /\ touched[l] >= LastUpdateTime[s]
      BY <1>3, <1>6, <3>1, <3>6, Times
    <3> QED
      BY <3>3, <3>4, <3>5, <3>6
  <2>2. CASE s # Struct
    <3>1. s \in Leaves /\ l = s
      BY <1>7, <2>2, Kinds
    <3>2. oldest = now - (Interval + Timeout)
      BY <2>2 DEF MaxAge
    <3> HIDE DEF oldest
    <3>3. \/ Backed(lastHad[l], Value[s][l], LastUpdateTime[s] - Timeout)
          \/ noted[l] >= LastUpdateTime[s]
      BY <1>1, <1>6, <3>1 DEF LeavesBacked
    <3>4. CASE Backed(lastHad[l], Value[s][l], LastUpdateTime[s] - Timeout)
      BY <1>3, <1>6, <3>1, <3>2, <3>4, Times DEF Backed, Had
    <3>5. CASE noted[l] >= LastUpdateTime[s]
      BY <1>3, <1>6, <3>1, <3>2, <3>5, Times
    <3> QED
      BY <3>3, <3>4, <3>5
  <2> QED
    BY <2>1, <2>2
<1>8. ReadsAreFresh'
  BY <1>2, <1>6, <1>7 DEF ReadsAreFresh
<1> QED
  BY <1>4, <1>5, <1>8 DEF Inv

\* Steps in which only time and the variables go on.
LEMMA InvGoesOn ==
  ASSUME Inv, Grows, TypeOK', OnTime', reading # Idle => now' - reading.start <= Timeout,
         UNCHANGED <<cacheVars, reading, noteVars, noted, touched, answer, lastUpdate, calm>>
  PROVE  Inv'
<1>1. TypeOK /\ ReadInTime /\ LeavesBacked /\ StructBacked /\ ReadsAreFresh /\ NewestArrived
  BY DEF Inv
<1>2. LeavesBacked' /\ StructBacked'
  BY <1>1, CacheStays
<1>3. ReadsAreFresh'
  BY <1>1, AnswerStays
<1>4. NewestArrived'
  BY <1>1, NewestStays DEF noteVars
<1>5. ReadInTime'
  <2>1. ASSUME reading # Idle, reading.sample # NoValue, NEW l \in Leaves
        PROVE  Backed(lastHad'[l], reading.sample[l], reading.start)
    <3>1. reading.start \in Int /\ Backed(lastHad[l], reading.sample[l], reading.start)
      BY <1>1, <2>1 DEF TypeOK, ReadInTime
    <3> QED
      BY <1>1, <3>1, StaysBacked
  <2> QED
    BY <1>1, <2>1 DEF ReadInTime, cacheVars
<1> QED
  BY <1>2, <1>3, <1>4, <1>5 DEF Inv

LEMMA InvDeviceChanges ==
  ASSUME Inv, NEW l \in Leaves, NEW v \in Values, DeviceChanges(l, v)
  PROVE  Inv'
<1>1. TypeOK /\ OnTime /\ ReadInTime
  BY DEF Inv
<1>2. /\ UNCHANGED <<cacheVars, reading, noteVars, noted, touched, answer, lastUpdate, calm>>
      /\ now' = now /\ variable' = [variable EXCEPT ![l] = v]
      /\ lastHad' = [lastHad EXCEPT ![l][v] = now]
  BY DEF DeviceChanges
<1>3. /\ lastHad \in [Leaves -> [Values -> Never .. now]] /\ variable \in [Leaves -> Values]
      /\ now \in Nat /\ \A x \in Leaves : noted[x] \in Int
      /\ \A s \in Symbols : touched[s] \in Int
  BY <1>1, Times DEF TypeOK
<1>4. /\ lastHad'[l] = [lastHad[l] EXCEPT ![v] = now] /\ lastHad[l] \in [Values -> Never .. now]
      /\ \A x \in Leaves : x # l => lastHad'[x] = lastHad[x]
  BY <1>2, <1>3
<1>5. lastHad' \in [Leaves -> [Values -> Never .. now]] /\ variable' \in [Leaves -> Values]
  <2>1. now \in Never .. now
    BY <1>3, Times
  <2>2. lastHad'[l] \in [Values -> Never .. now]
    BY <1>4, <2>1
  <2> QED
    BY <1>2, <1>3, <1>4, <2>2
<1>6. Grows
  <2>1. ASSUME NEW x \in Leaves, NEW w \in Values
        PROVE  lastHad'[x][w] >= lastHad[x][w]
    <3>1. lastHad[x][w] \in Never .. now
      BY <1>3
    <3>2. lastHad'[x][w] = lastHad[x][w] \/ lastHad'[x][w] = now
      BY <1>4
    <3> QED
      BY <1>3, <3>1, <3>2, Times
  <2> QED
    BY <1>2, <1>3, <2>1 DEF Grows
<1>7. OnTime'
  <2>1. ASSUME NEW x \in Leaves PROVE lastHad'[x][variable'[x]] = now
    <3>1. CASE x = l
      BY <1>2, <1>3, <1>4, <3>1
    <3>2. CASE x # l
      BY <1>1, <1>2, <1>3, <1>4, <3>2 DEF OnTime
    <3> QED
      BY <3>1, <3>2
  <2> QED
    BY <1>1, <1>2, <2>1 DEF OnTime, cacheVars
<1>8. TypeOK'
  BY <1>1, <1>2, <1>5 DEF TypeOK, cacheVars, noteVars
<1>9. reading # Idle => now' - reading.start <= Timeout
  BY <1>1, <1>2 DEF ReadInTime
<1> QED
  BY <1>2, <1>6, <1>7, <1>8, <1>9, InvGoesOn

LEMMA InvTick ==
  ASSUME Inv, Tick
  PROVE  Inv'
<1>1. TypeOK /\ OnTime /\ ReadInTime
  BY DEF Inv
<1>2. /\ UNCHANGED <<variable, cacheVars, reading, noteVars, noted, touched, answer, lastUpdate, calm>>
      /\ now < MaxTime /\ now' = now + 1 /\ (reading # Idle => now - reading.start < Timeout)
      /\ lastHad' = [l \in Leaves |-> [lastHad[l] EXCEPT ![variable[l]] = now + 1]]
  BY DEF Tick
<1>3. /\ lastHad \in [Leaves -> [Values -> Never .. now]] /\ variable \in [Leaves -> Values]
      /\ now \in Nat /\ noted \in [Leaves -> Never .. now]
      /\ \A s \in Symbols : touched[s] \in Int
  BY <1>1, Times DEF TypeOK
<1>4. now' \in 0 .. MaxTime /\ 0 .. now \subseteq 0 .. now' /\ Never .. now \subseteq Never .. now'
      /\ now' \in Never .. now'
  BY <1>2, <1>3, Times
<1>5. ASSUME NEW l \in Leaves
      PROVE  /\ lastHad'[l] \in [Values -> Never .. now'] /\ lastHad'[l][variable[l]] = now'
             /\ \A v \in Values : lastHad'[l][v] >= lastHad[l][v]
  <2>1. lastHad'[l] = [lastHad[l] EXCEPT ![variable[l]] = now']
        /\ lastHad[l] \in [Values -> Never .. now] /\ variable[l] \in Values
    BY <1>2, <1>3
  <2>2. ASSUME NEW v \in Values
        PROVE  lastHad'[l][v] \in Never .. now' /\ lastHad'[l][v] >= lastHad[l][v]
    <3>1. lastHad[l][v] \in Never .. now
      BY <2>1
    <3>2. lastHad'[l][v] = lastHad[l][v] \/ lastHad'[l][v] = now'
      BY <2>1
    <3> QED
      BY <1>2, <1>3, <1>4, <3>1, <3>2, Times
  <2> QED
    BY <2>1, <2>2
<1>6. lastHad' \in [Leaves -> [Values -> Never .. now']]
  BY <1>2, <1>5
<1>7. Grows
  <2>1. \A l \in Leaves : noted[l] \in Int
    BY <1>3, Times
  <2> QED
    BY <1>2, <1>3, <1>5, <2>1 DEF Grows
<1>8. OnTime'
  BY <1>1, <1>2, <1>5 DEF OnTime, cacheVars
<1>9. TypeOK'
  <2>1. /\ LastUpdateTime \in [Symbols -> 0 .. now'] /\ noted \in [Leaves -> Never .. now']
        /\ touched \in [Symbols -> 0 .. now'] /\ answer.called \in 0 .. now'
    BY <1>1, <1>3, <1>4 DEF TypeOK
  <2>2. reading = Idle \/ reading \in [sym : Symbols, start : 0 .. now',
                                       sample : {NoValue} \cup [Leaves -> Values]]
    BY <1>1, <1>4 DEF TypeOK
  <2> QED
    BY <1>1, <1>2, <1>4, <1>6, <2>1, <2>2 DEF TypeOK, cacheVars, noteVars
<1>10. reading # Idle => now' - reading.start <= Timeout
  <2>1. reading # Idle => reading.start \in Int
    BY <1>1 DEF TypeOK
  <2> QED
    BY <1>2, <1>3, <2>1, Times
<1> QED
  BY <1>2, <1>7, <1>8, <1>9, <1>10, InvGoesOn

-----------------------------------------------------------------------------
(* The invariant: steps that parse *)

\* What parse stores is a value of its symbol.
LEMMA ParseTyped ==
  ASSUME TypeOK, NEW s \in Symbols, NEW sample \in [Leaves -> Values], Parse(s, sample)
  PROVE  \A x \in Symbols : Value'[x] = NoValue \/ Value'[x] \in SampleOf(x)
<1>1. TAKE x \in Symbols
<1>2. Value[x] = NoValue \/ Value[x] \in SampleOf(x)
  BY DEF TypeOK
<1>3. NewValue(x, sample) \in SampleOf(x)
  <2>1. CASE x = Struct
    BY <2>1, JSONIsValue DEF NewValue
  <2>2. CASE x # Struct
    BY <2>2, Kinds, SampleIsValue DEF NewValue
  <2> QED
    BY <2>1, <2>2
<1> QED
  BY <1>2, <1>3, Parsing

LEMMA Touching ==
  ASSUME TypeOK, NEW S \in SUBSET Symbols, NEW orderly \in BOOLEAN, Touch(S, orderly)
  PROVE  /\ touched' \in [Symbols -> 0 .. now] /\ calm' \in [Symbols -> BOOLEAN]
         /\ \A x \in Symbols : touched'[x] = IF x \in S THEN now ELSE touched[x]
         /\ \A x \in Symbols : touched'[x] >= touched[x]
         /\ \A x \in Symbols : calm'[x] => calm[x] /\ (Parsed(x) \cap S # {} => orderly)
<1>1. now \in 0 .. now /\ touched \in [Symbols -> 0 .. now] /\ calm \in [Symbols -> BOOLEAN]
  BY Times DEF TypeOK
<1>2. \A x \in Symbols : touched'[x] = IF x \in S THEN now ELSE touched[x]
  BY DEF Touch
<1>3. touched' \in [Symbols -> 0 .. now] /\ \A x \in Symbols : touched'[x] >= touched[x]
  BY <1>1 DEF Touch
<1>4. calm' = [x \in Symbols |-> calm[x] /\ (Parsed(x) \cap S # {} => orderly)]
  BY DEF Touch
<1>5. /\ calm' \in [Symbols -> BOOLEAN]
      /\ \A x \in Symbols : calm'[x] => calm[x] /\ (Parsed(x) \cap S # {} => orderly)
  BY <1>4
<1> QED
  BY <1>2, <1>3, <1>5

\* The parts of the JSON that a request brought: values the device held after
\* the call, values that were stored Interval ago at most, or 0.
LEMMA JSONBacked ==
  ASSUME TypeOK, OnTime, LeavesBacked, NEW sample \in [Leaves -> Values], NEW start \in 0 .. now,
         now - start <= Timeout, NEW l \in Leaves, Backed(lastHad[l], sample[l], start)
  PROVE  \/ Backed(lastHad[l], JSON(sample)[l], now - Interval - Timeout)
         \/ noted[l] >= now - Interval
         \/ JSON(sample)[l] = 0 /\ now - touched[l] <= Interval
<1>1. /\ now \in Nat /\ start \in Int /\ start <= now /\ LastUpdateTime[l] \in Int /\ touched[l] \in Int
      /\ LastUpdateTime[l] <= touched[l] /\ noted[l] \in Int
      /\ \A v \in Values : lastHad[l][v] \in Int
  BY Times, Kinds DEF TypeOK, OnTime
<1>2. JSON(sample)[l] = IF LeafAfter(l, sample) = NoValue THEN 0 ELSE LeafAfter(l, sample)[l]
  BY JSONIsValue
<1>3. CASE ~TooSoon(l)
  <2>1. JSON(sample)[l] = sample[l]
    BY <1>2, <1>3, SampleIsValue DEF LeafAfter
  <2> QED
    BY <1>1, <2>1, Times DEF Backed
<1>4. CASE TooSoon(l)
  <2>1. LeafAfter(l, sample) = Value[l] /\ now - LastUpdateTime[l] <= Interval
    BY <1>4 DEF LeafAfter, TooSoon
  <2>2. CASE Value[l] = NoValue
    BY <1>1, <1>2, <2>1, <2>2, Times
  <2>3. CASE Value[l] # NoValue
    <3>1. JSON(sample)[l] = Value[l][l]
      BY <1>2, <2>1, <2>3
    <3>2. \/ Backed(lastHad[l], Value[l][l], LastUpdateTime[l] - Timeout)
          \/ noted[l] >= LastUpdateTime[l]
      BY <2>3 DEF LeavesBacked
    <3>3. CASE Backed(lastHad[l], Value[l][l], LastUpdateTime[l] - Timeout)
      BY <1>1, <2>1, <3>1, <3>3, Times DEF Backed
    <3>4. CASE noted[l] >= LastUpdateTime[l]
      BY <1>1, <2>1, <3>4, Times
    <3> QED
      BY <3>2, <3>3, <3>4
  <2> QED
    BY <2>2, <2>3
<1> QED
  BY <1>3, <1>4

LEMMA InvReadDone ==
  ASSUME Inv, ReadDone
  PROVE  Inv'
<1> DEFINE s == reading.sym
           start == reading.start
           sample == reading.sample
<1>1. TypeOK /\ OnTime /\ ReadInTime /\ LeavesBacked /\ StructBacked /\ NewestArrived
  BY DEF Inv
<1>2. /\ reading # Idle /\ sample # NoValue /\ now > start /\ reading' = Idle
      /\ Parse(s, sample) /\ Touch(Parsed(s), Spaced(Parsed(s)))
      /\ LastUpdateTime' = [x \in Symbols |->
            IF x = s THEN start ELSE IF x \in Updated(s, sample) THEN now ELSE LastUpdateTime[x]]
      /\ answer' = [sym |-> s, value |-> Value'[s], called |-> start,
                    hurried |-> {x \in Parsed(s) : now - touched[x] <= Interval}]
      /\ now' = now /\ variable' = variable /\ notes' = notes /\ handled' = handled
      /\ lastHad' = lastHad /\ noted' = noted /\ lastUpdate' = lastUpdate
  BY DEF ReadDone, Answers, noteVars
<1>3. s \in Symbols /\ start \in 0 .. now /\ sample \in [Leaves -> Values]
  BY <1>1, <1>2 DEF TypeOK
<1>4. /\ now - start <= Timeout
      /\ Value[s] # NoValue => start - LastUpdateTime[s] >= Interval
      /\ \A l \in Leaves : Backed(lastHad[l], sample[l], start)
  BY <1>1, <1>2 DEF ReadInTime
<1> HIDE DEF s, start, sample
<1>5. /\ now \in Nat /\ start \in Int
      /\ \A x \in Symbols : LastUpdateTime[x] \in 0 .. now /\ touched[x] \in Int
      /\ \A l \in Leaves : noted[l] \in Int /\ \A v \in Values : lastHad[l][v] \in Int
  BY <1>1, <1>3, Times DEF TypeOK
<1>6. Parsed(s) \in SUBSET Symbols /\ s \in Parsed(s) /\ Spaced(Parsed(s)) \in BOOLEAN
  BY <1>3, Kinds DEF Spaced, Parsed
<1>7. /\ touched' \in [Symbols -> 0 .. now] /\ calm' \in [Symbols -> BOOLEAN]
      /\ \A x \in Symbols : touched'[x] = IF x \in Parsed(s) THEN now ELSE touched[x]
      /\ \A x \in Symbols : touched'[x] >= touched[x]
      /\ \A x \in Symbols : calm'[x] => calm[x]
  <2> DEFINE S == Parsed(s)
             orderly == Spaced(Parsed(s))
  <2> HIDE DEF S, orderly
  <2>1. TypeOK /\ S \in SUBSET Symbols /\ orderly \in BOOLEAN /\ Touch(S, orderly)
    BY <1>1, <1>2, <1>6 DEF S, orderly
  <2>2. /\ touched' \in [Symbols -> 0 .. now] /\ calm' \in [Symbols -> BOOLEAN]
        /\ \A x \in Symbols : touched'[x] = IF x \in S THEN now ELSE touched[x]
        /\ \A x \in Symbols : touched'[x] >= touched[x]
        /\ \A x \in Symbols : calm'[x] => calm[x] /\ (Parsed(x) \cap S # {} => orderly)
    BY <2>1, Touching
  <2> QED
    BY <2>2 DEF S
\* The symbol that was read is not throttled if it has a value.
<1>8. ASSUME Value'[s] # NoValue
      PROVE  Value'[s] = NewValue(s, sample)
  <2>1. CASE ~TooSoon(s)
    BY <1>2, <1>3, <1>6, <2>1, Parsing
  <2>2. CASE TooSoon(s)
    <3>1. Value[s] # NoValue
      BY <1>2, <1>3, <1>8, <2>2, Parsing
    <3>2. start - LastUpdateTime[s] >= Interval /\ now - LastUpdateTime[s] <= Interval
      BY <1>4, <2>2, <3>1 DEF TooSoon
    <3> QED
      BY <1>2, <1>3, <1>5, <3>2, Times
  <2> QED
    BY <2>1, <2>2
<1>9. \A x \in Symbols :
         LastUpdateTime'[x] = IF x = s THEN start ELSE IF x \in Updated(s, sample) THEN now
                                                                          ELSE LastUpdateTime[x]
  BY <1>2
<1>10. TypeOK'
  <2>1. LastUpdateTime' \in [Symbols -> 0 .. now]
    <3>1. now \in 0 .. now /\ \A x \in Symbols : LastUpdateTime[x] \in 0 .. now
      BY <1>5
    <3> QED
      BY <1>2, <1>3, <3>1
  <2>2. \A x \in Symbols : Value'[x] = NoValue \/ Value'[x] \in SampleOf(x)
    BY <1>1, <1>2, <1>3, ParseTyped
  <2>3. answer'.sym \in Symbols /\ answer'.called \in 0 .. now
    BY <1>2, <1>3
  <2> QED
    BY <1>1, <1>2, <1>7, <2>1, <2>2, <2>3 DEF TypeOK
<1>11. Grows
  BY <1>2, <1>5, <1>7 DEF Grows
<1>12. OnTime'
  <2>1. ASSUME NEW x \in Symbols PROVE LastUpdateTime'[x] <= touched'[x]
    <3>1. LastUpdateTime[x] <= touched[x] /\ LastUpdateTime[x] \in Int /\ touched[x] \in Int
      BY <1>1, <1>5 DEF OnTime
    <3>2. CASE x \in Parsed(s)
      <4>1. LastUpdateTime'[x] <= now
        BY <1>2, <1>5, <1>9, <3>1
      <4> QED
        BY <1>7, <3>2, <4>1
    <3>3. CASE x \notin Parsed(s)
      BY <1>6, <1>7, <1>9, <3>1, <3>3 DEF Updated
    <3> QED
      BY <3>2, <3>3
  <2> QED
    BY <1>1, <1>2, <2>1 DEF OnTime
<1>13. ReadInTime'
  BY <1>2 DEF ReadInTime
<1>14. LeavesBacked'
  <2>1. ASSUME NEW l \in Leaves, Value'[l] # NoValue
        PROVE  \/ Backed(lastHad'[l], Value'[l][l], LastUpdateTime'[l] - Timeout)
               \/ noted'[l] >= LastUpdateTime'[l]
    <3>1. l \in Symbols
      BY Kinds
    <3>2. Backed(lastHad[l], sample[l], start) /\ NewLeaf(l, sample)[l] = sample[l]
      BY <1>3, <1>4, SampleIsValue
    <3>3. CASE l = s
      <4>1. Value'[l][l] = sample[l] /\ LastUpdateTime'[l] = start
        BY <1>8, <1>9, <2>1, <3>1, <3>2, <3>3, Kinds DEF NewValue
      <4> QED
        BY <1>2, <1>5, <3>2, <4>1, Times DEF Backed
    <3>4. CASE l # s /\ l \in Updated(s, sample)
      <4>1. Value'[l] = NewLeaf(l, sample) /\ LastUpdateTime'[l] = now
        BY <1>2, <1>9, <3>1, <3>4, Kinds DEF NewValue, Parse
      <4>2. Value'[l][l] = sample[l]
        BY <3>2, <4>1
      <4> QED
        BY <1>2, <1>4, <1>5, <3>2, <4>1, <4>2, Times DEF Backed
    <3>5. CASE l # s /\ l \notin Updated(s, sample)
      <4>1. Value'[l] = Value[l] /\ LastUpdateTime'[l] = LastUpdateTime[l]
        BY <1>2, <1>9, <3>1, <3>5 DEF Parse
      <4> QED
        BY <1>1, <1>10, <1>11, <2>1, <4>1, LeafStays
    <3> QED
      BY <3>3, <3>4, <3>5
  <2> QED
    BY <2>1 DEF LeavesBacked
\* A structure that was read.
<1>15. ASSUME s = Struct, Value'[s] # NoValue, NEW l \in Leaves
       PROVE  \/ Backed(lastHad[l], Value'[s][l], now - Interval - Timeout)
              \/ noted[l] >= now - Interval
              \/ Value'[s][l] = 0 /\ now - touched[l] <= Interval
  <2>1. Value'[s] = JSON(sample)
    BY <1>8, <1>15 DEF NewValue
  <2>2. Backed(lastHad[l], sample[l], start)
    BY <1>4
  <2> QED
    BY <1>1, <1>3, <1>4, <2>1, <2>2, JSONBacked
<1>16. StructBacked'
  <2>1. CASE s = Struct
    <3>1. ASSUME Value'[Struct] # NoValue, NEW l \in Leaves
          PROVE  \/ Backed(lastHad'[l], Value'[Struct][l], LastUpdateTime'[Struct] - Interval - Timeout)
                 \/ noted'[l] >= LastUpdateTime'[Struct] - Interval
                 \/ Value'[Struct][l] = 0 /\ touched'[l] >= LastUpdateTime'[Struct]
      <4>1. LastUpdateTime'[Struct] = start /\ touched'[l] = now
        BY <1>7, <1>9, <2>1, Kinds
      <4>2. CASE Backed(lastHad[l], Value'[s][l], now - Interval - Timeout)
        BY <1>2, <1>5, <2>1, <4>1, <4>2, Times DEF Backed
      <4>3. CASE noted[l] >= now - Interval
        BY <1>2, <1>5, <4>1, <4>3, Times
      <4>4. CASE Value'[s][l] = 0
        BY <1>2, <1>5, <2>1, <4>1, <4>4
      <4> QED
        BY <1>15, <2>1, <3>1, <4>2, <4>3, <4>4
    <3> QED
      BY <3>1 DEF StructBacked
  <2>2. CASE s # Struct
    <3>1. Struct \notin Parsed(s) /\ Struct \in Symbols
      BY <1>3, <2>2, Kinds
    <3>2. Value'[Struct] = Value[Struct] /\ LastUpdateTime'[Struct] = LastUpdateTime[Struct]
      BY <1>2, <1>9, <2>2, <3>1 DEF Parse, Updated
    <3> QED
      BY <1>1, <1>10, <1>11, <3>2, StructStays
  <2> QED
    BY <2>1, <2>2
<1>17. ReadsAreFresh'
  <2> DEFINE oldest == start - MaxAge(s)
             hurried == {x \in Parsed(s) : now - touched[x] <= Interval}
  <2>1. Value'[s] = NoValue => s \in hurried
    <3>1. ASSUME Value'[s] = NoValue PROVE now - touched[s] <= Interval
      <4>1. NewValue(s, sample) # NoValue
        BY <1>1, <1>3, Kinds, JSONIsValue, SampleIsValue DEF NewValue
      <4>2. TooSoon(s)
        BY <1>2, <1>3, <1>6, <3>1, <4>1, Parsing
      <4>3. now - LastUpdateTime[s] <= Interval /\ LastUpdateTime[s] <= touched[s]
            /\ LastUpdateTime[s] \in Int /\ touched[s] \in Int
        BY <1>1, <1>3, <1>5, <4>2 DEF TooSoon, OnTime
      <4> QED
        BY <1>5, <4>3, Times
    <3> QED
      BY <1>6, <3>1
  <2>2. ASSUME Value'[s] # NoValue, NEW l \in Parts(s)
        PROVE  \/ Had(lastHad[l], Value'[s][l], oldest)
               \/ noted[l] > oldest
               \/ Value'[s][l] = 0 /\ l \in hurried
    <3>1. CASE s = Struct
      <4>1. l \in Leaves /\ l \in Parsed(s) /\ oldest = start - (2 * Interval + Timeout)
        BY <2>2, <3>1, Kinds DEF MaxAge
      <4> HIDE DEF oldest
      <4>2. CASE Backed(lastHad[l], Value'[s][l], now - Interval - Timeout)
        BY <1>2, <1>5, <4>1, <4>2, Times DEF Backed, Had
      <4>3. CASE noted[l] >= now - Interval
        BY <1>2, <1>5, <4>1, <4>3, Times
      <4>4. CASE Value'[s][l] = 0 /\ now - touched[l] <= Interval
        BY <4>1, <4>4
      <4> QED
        BY <1>15, <2>2, <3>1, <4>1, <4>2, <4>3, <4>4
    <3>2. CASE s # Struct
      <4>1. l = s /\ l \in Leaves /\ oldest = start - (Interval + Timeout)
        BY <1>3, <2>2, <3>2, Kinds DEF MaxAge
      <4> HIDE DEF oldest
      <4>2. Value'[s] = NewLeaf(l, sample)
        BY <1>8, <2>2, <3>2, <4>1 DEF NewValue
      <4>3. Value'[s][l] = sample[l]
        BY <1>3, <4>1, <4>2, SampleIsValue
      <4>4. Backed(lastHad[l], sample[l], start)
        BY <1>4, <4>1
      <4> QED
        BY <1>2, <1>4, <1>5, <4>1, <4>3, <4>4, Times DEF Backed, Had
    <3> QED
      BY <3>1, <3>2
  <2> QED
    BY <1>2, <2>1, <2>2 DEF ReadsAreFresh
<1>18. NewestArrived'
  <2>1. \A x \in Subscribed : calm'[x] => calm[x]
    BY <1>7
  <2> QED
    BY <1>1, <1>2, <2>1, NewestStays
<1> QED
  BY <1>10, <1>12, <1>13, <1>14, <1>16, <1>17, <1>18 DEF Inv

LEMMA InvHandleNotification ==
  ASSUME Inv, NEW n, HandleNotification(n)
  PROVE  Inv'
<1> DEFINE s == notes[n].sym
           sample == notes[n].sample
           orderly == Spaced(Parsed(s)) /\ \A m \in handled : notes[m].sym = s => m < n
<1>1. TypeOK /\ OnTime /\ LeavesBacked /\ StructBacked /\ ReadsAreFresh /\ NewestArrived
  BY DEF Inv
<1>2. /\ reading = Idle /\ n \in DOMAIN notes /\ n \notin handled /\ handled' = handled \cup {n}
      /\ Parse(s, sample) /\ Touch(Parsed(s), orderly)
      /\ LastUpdateTime' = [x \in Symbols |-> IF x \in Updated(s, sample) THEN now
                                                                     ELSE LastUpdateTime[x]]
      /\ lastUpdate' = [lastUpdate EXCEPT ![s] = Value'[s]]
      /\ noted' = [l \in Leaves |-> IF l \in Parts(s) THEN now ELSE noted[l]]
      /\ now' = now /\ variable' = variable /\ reading' = reading /\ notes' = notes
      /\ lastHad' = lastHad /\ answer' = answer
  BY DEF HandleNotification
<1>3. s \in Subscribed /\ s \in Symbols /\ sample \in [Leaves -> Values]
  <2> DEFINE Note == [sym : Subscribed, sample : [Leaves -> Values]]
  <2>1. notes \in Seq(Note) /\ n \in 1 .. Len(notes)
    BY <1>1, <1>2 DEF TypeOK
  <2> HIDE DEF Note
  <2>2. notes[n] \in Note
    BY <2>1, ElementOfSeq
  <2>3. notes[n].sym \in Subscribed /\ notes[n].sample \in [Leaves -> Values]
    BY <2>2 DEF Note
  <2> QED
    BY <2>3, Kinds DEF Symbols
<1>4. orderly \in BOOLEAN /\ Parsed(s) \in SUBSET Symbols /\ s \in Parsed(s)
  BY <1>3, Kinds DEF Parsed
<1>5. orderly => Spaced(Parsed(s)) /\ \A m \in handled : notes[m].sym = s => m < n
  OBVIOUS
<1>7. n \in {m \in handled' : notes[m].sym = s} /\ notes[n].sample = sample
  BY <1>2
<1>8. \A x : x # s => {m \in handled' : notes[m].sym = x} = {m \in handled : notes[m].sym = x}
  BY <1>2
<1> HIDE DEF s, sample, orderly
<1>9. /\ now \in Nat /\ noted \in [Leaves -> Never .. now]
      /\ \A x \in Symbols : LastUpdateTime[x] \in 0 .. now /\ touched[x] \in 0 .. now
      /\ \A l \in Leaves : \A v \in Values : lastHad[l][v] \in Int
  BY <1>1, Times DEF TypeOK
<1>10. /\ touched' \in [Symbols -> 0 .. now] /\ calm' \in [Symbols -> BOOLEAN]
       /\ \A x \in Symbols : touched'[x] = IF x \in Parsed(s) THEN now ELSE touched[x]
       /\ \A x \in Symbols : touched'[x] >= touched[x]
       /\ \A x \in Symbols : calm'[x] => calm[x] /\ (Parsed(x) \cap Parsed(s) # {} => orderly)
  <2> DEFINE S == Parsed(s)
  <2> HIDE DEF S
  <2>1. TypeOK /\ S \in SUBSET Symbols /\ orderly \in BOOLEAN /\ Touch(S, orderly)
    BY <1>1, <1>2, <1>4 DEF S
  <2>2. /\ touched' \in [Symbols -> 0 .. now] /\ calm' \in [Symbols -> BOOLEAN]
        /\ \A x \in Symbols : touched'[x] = IF x \in S THEN now ELSE touched[x]
        /\ \A x \in Symbols : touched'[x] >= touched[x]
        /\ \A x \in Symbols : calm'[x] => calm[x] /\ (Parsed(x) \cap S # {} => orderly)
    BY <2>1, Touching
  <2> QED
    BY <2>2 DEF S
<1>11. /\ \A x \in Symbols : LastUpdateTime'[x] = IF x \in Updated(s, sample) THEN now
                                                                      ELSE LastUpdateTime[x]
       /\ LastUpdateTime' \in [Symbols -> 0 .. now]
  <2>1. now \in 0 .. now
    BY <1>9
  <2> QED
    BY <1>2, <1>9, <2>1
<1>12. /\ noted' \in [Leaves -> Never .. now]
       /\ \A l \in Leaves : noted'[l] = IF l \in Parts(s) THEN now ELSE noted[l]
  <2>1. now \in Never .. now
    BY <1>9, Times
  <2> QED
    BY <1>2, <1>9, <2>1
<1>13. TypeOK'
  <2>1. \A x \in Symbols : Value'[x] = NoValue \/ Value'[x] \in SampleOf(x)
    BY <1>1, <1>2, <1>3, ParseTyped
  <2>2. handled' \subseteq DOMAIN notes' /\ DOMAIN lastUpdate' = Symbols
    BY <1>1, <1>2 DEF TypeOK
  <2> QED
    BY <1>1, <1>2, <1>10, <1>11, <1>12, <2>1, <2>2 DEF TypeOK
<1>14. Grows
  <2>1. \A l \in Leaves : noted[l] \in Never .. now /\ noted'[l] >= noted[l]
    BY <1>9, <1>12, Times
  <2> QED
    BY <1>2, <1>9, <1>10, <2>1 DEF Grows
<1>15. OnTime'
  <2>1. ASSUME NEW x \in Symbols PROVE LastUpdateTime'[x] <= touched'[x]
    <3>1. LastUpdateTime[x] <= touched[x] /\ LastUpdateTime[x] \in 0 .. now /\ touched[x] \in 0 .. now
      BY <1>1, <1>9 DEF OnTime
    <3>2. CASE x \in Parsed(s)
      <4>1. LastUpdateTime'[x] \in 0 .. now /\ touched'[x] = now
        BY <1>10, <1>11, <3>2
      <4> QED
        BY <1>9, <4>1
    <3>3. CASE x \notin Parsed(s)
      BY <1>10, <1>11, <3>1, <3>3 DEF Updated
    <3> QED
      BY <3>2, <3>3
  <2> QED
    BY <1>1, <1>2, <2>1 DEF OnTime
<1>16. ReadInTime'
  BY <1>2 DEF ReadInTime
<1>17. LeavesBacked'
  <2>1. ASSUME NEW l \in Leaves, Value'[l] # NoValue
        PROVE  \/ Backed(lastHad'[l], Value'[l][l], LastUpdateTime'[l] - Timeout)
               \/ noted'[l] >= LastUpdateTime'[l]
    <3>1. CASE l \in Parts(s)
      <4>1. noted'[l] = now /\ LastUpdateTime'[l] \in 0 .. now
        BY <1>11, <1>12, <3>1, Kinds
      <4> QED
        BY <1>9, <4>1
    <3>2. CASE l \notin Parts(s)
      <4>1. l \notin Parsed(s)
        BY <1>3, <3>2, Kinds DEF Parsed
      <4>2. Value'[l] = Value[l] /\ LastUpdateTime'[l] = LastUpdateTime[l]
        BY <1>2, <1>11, <4>1, Kinds DEF Parse, Updated
      <4> QED
        BY <1>1, <1>13, <1>14, <2>1, <4>2, LeafStays
    <3> QED
      BY <3>1, <3>2
  <2> QED
    BY <2>1 DEF LeavesBacked
<1>18. StructBacked'
  <2>1. CASE s = Struct
    <3>1. ASSUME NEW l \in Leaves PROVE noted'[l] >= LastUpdateTime'[Struct] - Interval
      <4>1. noted'[l] = now /\ LastUpdateTime'[Struct] \in 0 .. now
        BY <1>11, <1>12, <2>1, Kinds
      <4> QED
        BY <1>9, <4>1, Times
    <3> QED
      BY <3>1 DEF StructBacked
  <2>2. CASE s # Struct
    <3>1. Struct \notin Parsed(s) /\ Struct \in Symbols
      BY <1>3, <2>2, Kinds
    <3>2. Value'[Struct] = Value[Struct] /\ LastUpdateTime'[Struct] = LastUpdateTime[Struct]
      BY <1>2, <1>11, <3>1 DEF Parse, Updated
    <3> QED
      BY <1>1, <1>13, <1>14, <3>2, StructStays
  <2> QED
    BY <2>1, <2>2
<1>19. ReadsAreFresh'
  BY <1>1, <1>2, <1>13, <1>14, AnswerStays
\* What came in order and not too fast was not throttled, nor were its parts.
<1>20. ASSUME orderly
       PROVE  Value'[s] = [l \in Parts(s) |-> sample[l]]
  <2>1. ASSUME NEW x \in Parsed(s) PROVE ~TooSoon(x)
    <3>1. now - touched[x] > Interval
      BY <1>5, <1>20, <2>1 DEF Spaced
    <3>2. LastUpdateTime[x] <= touched[x] /\ LastUpdateTime[x] \in 0 .. now /\ touched[x] \in 0 .. now
      BY <1>1, <1>4, <1>9, <2>1 DEF OnTime
    <3> QED
      BY <1>9, <3>1, <3>2, Times DEF TooSoon
  <2>2. Value'[s] = NewValue(s, sample)
    BY <1>2, <1>3, <1>4, <2>1, Parsing
  <2>3. CASE s = Struct
    <3>1. ASSUME NEW l \in Leaves
          PROVE  (IF LeafAfter(l, sample) = NoValue THEN 0 ELSE LeafAfter(l, sample)[l]) = sample[l]
      <4>1. ~TooSoon(l)
        BY <2>1, <2>3, Kinds
      <4>2. LeafAfter(l, sample) = NewLeaf(l, sample)
        BY <4>1 DEF LeafAfter
      <4> QED
        BY <1>3, <4>2, SampleIsValue
    <3>2. Value'[s] = JSON(sample)
      BY <2>2, <2>3 DEF NewValue
    <3> QED
      BY <2>3, <3>1, <3>2, Kinds DEF JSON
  <2>4. CASE s # Struct
    <3>1. Value'[s] = NewLeaf(s, sample) /\ Parts(s) = {s}
      BY <1>3, <2>2, <2>4, Kinds DEF NewValue
    <3> QED
      BY <3>1 DEF NewLeaf
  <2> QED
    BY <2>3, <2>4
<1>21. NewestArrived'
  <2>1. ASSUME NEW x \in Subscribed, calm'[x], {m \in handled' : notes[m].sym = x} # {}
        PROVE  \E k \in {m \in handled' : notes[m].sym = x} :
                 /\ \A m \in {m \in handled' : notes[m].sym = x} : m <= k
                 /\ lastUpdate'[x] = [l \in Parts(x) |-> notes[k].sample[l]]
    <3>1. CASE x = s
      <4>1. orderly
        BY <1>3, <1>4, <1>10, <2>1, <3>1
      <4>2. lastUpdate'[s] = [l \in Parts(s) |-> notes[n].sample[l]]
        BY <1>1, <1>2, <1>3, <1>7, <1>20, <4>1 DEF TypeOK
      <4>3. ASSUME NEW m \in handled', notes[m].sym = s PROVE m <= n
        <5>1. m \in Int /\ n \in Int
          <6>1. handled' \subseteq DOMAIN notes /\ n \in DOMAIN notes
            BY <1>2, <1>13 DEF TypeOK
          <6>2. DOMAIN notes = 1 .. Len(notes)
            BY <1>1 DEF TypeOK
          <6> QED
            BY <4>3, <6>1, <6>2
        <5>2. m \in handled => m < n
          BY <1>5, <4>1, <4>3
        <5> QED
          BY <1>2, <5>1, <5>2
      <4> QED
        BY <1>7, <3>1, <4>2, <4>3
    <3>2. CASE x # s
      <4>1. {m \in handled' : notes[m].sym = x} = Handled(x) /\ lastUpdate'[x] = lastUpdate[x]
        BY <1>1, <1>2, <1>8, <3>2 DEF Handled, TypeOK
      <4>2. calm[x]
        BY <1>10, <2>1
      <4> QED
        BY <1>1, <2>1, <4>1, <4>2 DEF NewestArrived
    <3> QED
      BY <3>1, <3>2
  <2> QED
    BY <1>2, <2>1 DEF NewestArrived, Handled
<1> QED
  BY <1>13, <1>15, <1>16, <1>17, <1>18, <1>19, <1>21 DEF Inv

-----------------------------------------------------------------------------
(* Theorems *)

LEMMA InvNext ==
  ASSUME Inv, [Next]_vars
  PROVE  Inv'
<1>1. ASSUME NEW s \in Symbols, ReadCached(s) \/ ReadStart(s) PROVE Inv'
  BY <1>1, InvReadCached, InvReadStart
<1>2. ASSUME DeviceReads \/ ReadDone \/ ReadFails PROVE Inv'
  BY <1>2, InvDeviceReads, InvReadDone, InvReadFails
<1>3. ASSUME NEW n \in 1 .. MaxNotes, HandleNotification(n) PROVE Inv'
  BY <1>3, InvHandleNotification
<1>4. ASSUME NEW l \in Leaves, NEW v \in Values, DeviceChanges(l, v) PROVE Inv'
  BY <1>4, InvDeviceChanges
<1>5. ASSUME NEW s \in Subscribed, DeviceNotifies(s) PROVE Inv'
  BY <1>5, InvDeviceNotifies
<1>6. ASSUME Tick PROVE Inv'
  BY <1>6, InvTick
<1>7. ASSUME UNCHANGED vars PROVE Inv'
  <2>1. Same /\ reading' = reading /\ notes' = notes /\ handled' = handled
    BY <1>7 DEF vars, noteVars, Same
  <2>2. TypeOK /\ ReadInTime
    BY DEF Inv
  <2>3. TypeOK' /\ ReadInTime'
    BY <2>1, <2>2 DEF TypeOK, ReadInTime, Same, cacheVars, history
  <2> QED
    BY <2>1, <2>3, InvSame
<1> QED
  BY <1>1, <1>2, <1>3, <1>4, <1>5, <1>6, <1>7 DEF Next

\* What the cache of values rests on, in parse and ReadFromSymbol: a request is
\* only made when its value will not be throttled, LastUpdateTime tells how old
\* a value can be, and that of a structure how old its parts can be.
THEOREM Invariance == Spec => []Inv
<1>1. Init => Inv
  BY InvInit
<1>2. Inv /\ [Next]_vars => Inv'
  BY InvNext
<1> QED
  BY <1>1, <1>2, PTL DEF Spec

\* ReadFromSymbol returns what was true of the device, no longer before the call
\* than the intervals that are passed and the time of two requests allow.
THEOREM ReadsStayFresh == Spec => []ReadsAreFresh
<1>1. Inv => ReadsAreFresh
  BY DEF Inv
<1> QED
  BY <1>1, Invariance, PTL

\* handleNotification gives the subscriber what the device sent last, if nothing
\* was parsed too soon after something else or in another order.
THEOREM SubscribersHaveTheNewest == Spec => []UpdatesArrive
<1>1. ASSUME Inv, NEW s \in Subscribed, calm[s], {n \in DOMAIN notes : notes[n].sym = s} # {},
             {n \in DOMAIN notes : notes[n].sym = s} \subseteq handled
      PROVE  lastUpdate[s] = [l \in Parts(s) |->
                                notes[Newest({n \in DOMAIN notes : notes[n].sym = s})].sample[l]]
  <2> DEFINE sent == {n \in DOMAIN notes : notes[n].sym = s}
  <2>1. NewestArrived /\ handled \subseteq DOMAIN notes /\ DOMAIN notes \subseteq Int
    BY <1>1 DEF Inv, TypeOK
  <2>2. sent = Handled(s)
    BY <1>1, <2>1 DEF Handled
  <2>3. sent \subseteq Int
    BY <2>1
  <2> HIDE DEF sent
  <2>4. PICK k \in sent : /\ \A m \in sent : m <= k
                          /\ lastUpdate[s] = [l \in Parts(s) |-> notes[k].sample[l]]
    BY <1>1, <2>1, <2>2 DEF NewestArrived, sent
  <2>5. Newest(sent) \in sent /\ \A m \in sent : m <= Newest(sent)
    BY <2>4 DEF Newest
  <2>6. Newest(sent) = k
    <3> DEFINE newest == Newest(sent)
    <3>1. newest \in Int /\ k \in Int /\ newest <= k /\ k <= newest
      <4> HIDE DEF newest
      <4>1. newest \in sent /\ k \in sent /\ newest <= k /\ k <= newest
        BY <2>4, <2>5 DEF newest
      <4> QED
        BY <2>3, <4>1
    <3> HIDE DEF newest
    <3>2. newest = k
      BY <3>1
    <3> QED
      BY <3>2 DEF newest
  <2> QED
    BY <2>4, <2>6 DEF sent
<1>2. Inv => UpdatesArrive
  BY <1>1 DEF UpdatesArrive
<1> QED
  BY <1>2, Invariance, PTL
=============================================================================
