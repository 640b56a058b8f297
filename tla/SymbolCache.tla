----------------------------- MODULE SymbolCache -----------------------------
(***************************************************************************)
(* What the client knows of a structure and of its parts, over time:       *)
(* Symbol.Value and Symbol.LastUpdateTime, which parse (readWriter.go) and *)
(* ReadFromSymbol (ads.go) keep, with the notifications that change them   *)
(* (commandDeviceNotification.go).  parse drops a value that comes at most *)
(* MinUpdateInterval after the last one; ReadFromSymbol serves the stored  *)
(* value for as long.                                                      *)
(*                                                                         *)
(* symbolLock is held from the first look at LastUpdateTime to the end of  *)
(* parse, so one read is under way at a time.  Time is discrete; a request *)
(* takes some.  Values are what the variables of the device hold.          *)
(***************************************************************************)
EXTENDS Integers, FiniteSets, Sequences

CONSTANTS Struct,      \* a symbol with children ...
          Leaves,      \* ... and its children
          Subscribed,  \* the symbols the device sends notifications for
          Values,      \* what a leaf's variable may hold
          NoValue,     \* Symbol.Value as Connect leaves it: ""
          Idle,        \* no read is under way
          Interval,    \* MinUpdateInterval
          Timeout,     \* how long a request takes at most
          MaxTime,     \* bound: time the model runs for
          MaxNotes     \* bound: notifications the device sends

Symbols == Leaves \cup {Struct}
Never   == -1

ASSUME LeavesAssumption == Struct \notin Leaves /\ Subscribed \subseteq Symbols
ASSUME ValuesAssumption == 0 \notin Values /\ NoValue \notin Values
\* "" is not the JSON of a structure's parts.
ASSUME NoValueAssumption == \A S \in SUBSET Leaves : NoValue \notin [S -> Values \cup {0}]
ASSUME TimesAssumption  == {Interval, Timeout, MaxTime, MaxNotes} \subseteq Nat

Parts(s) == IF s = Struct THEN Leaves ELSE {s}

VARIABLES
  now,
  variable,        \* variable[l]: what the device holds
  Value,           \* Value[s]: a value per part, or NoValue
  LastUpdateTime,
  reading,         \* the ReadFromSymbol that waits for the device, or Idle
  notes,           \* notifications sent, in order
  handled,         \* which of them have been handled
  \* History, for the properties only:
  lastHad,         \* lastHad[l][v]: when the variable last held v
  noted,           \* noted[l]: when a notification last stored a value of l
  touched,         \* touched[s]: when s was last parsed, or connected
  answer,          \* the last result of a ReadFromSymbol
  lastUpdate,      \* lastUpdate[s]: the last update its subscriber got
  calm             \* calm[s]: what was parsed for s came in order and not too fast

cacheVars == <<Value, LastUpdateTime>>
noteVars  == <<notes, handled>>
history   == <<lastHad, noted, touched, answer, lastUpdate, calm>>
vars == <<now, variable, cacheVars, reading, noteVars, history>>

NoAnswer == [sym |-> Struct, value |-> NoValue, called |-> 0, hurried |-> Symbols]

Init ==
  /\ now = 0 /\ variable \in [Leaves -> Values]
  /\ Value = [s \in Symbols |-> NoValue]
  /\ LastUpdateTime = [s \in Symbols |-> 0]
  /\ reading = Idle /\ notes = <<>> /\ handled = {}
  /\ lastHad = [l \in Leaves |-> [v \in Values |-> IF v = variable[l] THEN 0 ELSE Never]]
  /\ noted = [l \in Leaves |-> Never] /\ touched = [s \in Symbols |-> 0]
  /\ answer = NoAnswer
  /\ lastUpdate = [s \in Symbols |-> NoValue] /\ calm = [s \in Symbols |-> TRUE]

-----------------------------------------------------------------------------
(* parse *)

\* Faulty: once there is a value it stays.
TooSoonForEver(s) == Value[s] # NoValue

TooSoon(s) == now - LastUpdateTime[s] <= Interval

\* The new value of a leaf, unless parse drops it.
NewLeaf(l, sample) == [x \in {l} |-> sample[l]]
LeafAfter(l, sample) == IF TooSoon(l) THEN Value[l] ELSE NewLeaf(l, sample)

\* Faulty: passes the "" on.
JSONAsIs(sample) == [l \in Leaves |-> IF LeafAfter(l, sample) = NoValue THEN NoValue
                                                      ELSE LeafAfter(l, sample)[l]]

\* GetJSON: the values the children have after they were parsed.  One whose
\* value is still "" shows as 0.
JSON(sample) == [l \in Leaves |-> IF LeafAfter(l, sample) = NoValue THEN 0
                                                  ELSE LeafAfter(l, sample)[l]]

NewValue(s, sample) == IF s = Struct THEN JSON(sample) ELSE NewLeaf(s, sample)

\* Children are parsed first, each with its own throttle.
Parsed(s) == Parts(s) \cup {s}

Updated(s, sample) ==
  {x \in Parsed(s) : Value[x] # NewValue(x, sample) /\ ~TooSoon(x)}

Parse(s, sample) ==
  /\ Value' = [x \in Symbols |-> IF x \in Updated(s, sample) THEN NewValue(x, sample)
                                                             ELSE Value[x]]

\* History: the symbols in S are parsed; in an orderly way, or not.
Spaced(S) == \A x \in S : now - touched[x] > Interval
Touch(S, orderly) ==
  /\ touched' = [x \in Symbols |-> IF x \in S THEN now ELSE touched[x]]
  /\ calm' = [x \in Symbols |-> calm[x] /\ (Parsed(x) \cap S # {} => orderly)]

-----------------------------------------------------------------------------
(* ReadFromSymbol *)

Answers(s, called) ==
  answer' = [sym |-> s, value |-> Value'[s], called |-> called,
             hurried |-> {x \in Parsed(s) : now - touched[x] <= Interval}]

\* Faulty: serves a stored value however old it is.
Kept(s) == Value[s] # NoValue

Cached(s) == now - LastUpdateTime[s] < Interval /\ Value[s] # NoValue

ReadCached(s) ==
  /\ reading = Idle /\ Cached(s)
  /\ UNCHANGED Value
  /\ Answers(s, now)
  /\ UNCHANGED <<now, variable, LastUpdateTime, reading, noteVars, lastHad, noted, touched,
                 lastUpdate, calm>>

ReadStart(s) ==
  /\ reading = Idle /\ ~Cached(s)
  /\ reading' = [sym |-> s, start |-> now, sample |-> NoValue]
  /\ UNCHANGED <<now, variable, cacheVars, noteVars, history>>

DeviceReads ==
  /\ reading # Idle /\ reading.sample = NoValue
  /\ reading' = [reading EXCEPT !.sample = variable]
  /\ UNCHANGED <<now, variable, cacheVars, noteVars, history>>

\* LastUpdateTime of the symbol becomes the time at which the call began,
\* of its children the time at which they were parsed.
ReadDone ==
  /\ reading # Idle /\ reading.sample # NoValue /\ now > reading.start
  /\ LET s == reading.sym IN
       /\ Parse(s, reading.sample)
       /\ LastUpdateTime' = [x \in Symbols |->
            IF x = s THEN reading.start
            ELSE IF x \in Updated(s, reading.sample) THEN now ELSE LastUpdateTime[x]]
       /\ Answers(s, reading.start)
       /\ Touch(Parsed(s), Spaced(Parsed(s)))
  /\ reading' = Idle
  /\ UNCHANGED <<now, variable, noteVars, lastHad, noted, lastUpdate>>

ReadFails ==
  /\ reading # Idle
  /\ reading' = Idle
  /\ UNCHANGED <<now, variable, cacheVars, noteVars, history>>

-----------------------------------------------------------------------------
(* handleNotification *)

\* Each frame has a goroutine of its own: the lock goes to any of them.
HandleNotification(n) ==
  /\ reading = Idle /\ n \in DOMAIN notes /\ n \notin handled
  /\ handled' = handled \cup {n}
  /\ LET s == notes[n].sym  sample == notes[n].sample IN
       /\ Parse(s, sample)
       /\ LastUpdateTime' = [x \in Symbols |-> IF x \in Updated(s, sample) THEN now
                                                                    ELSE LastUpdateTime[x]]
       /\ lastUpdate' = [lastUpdate EXCEPT ![s] = Value'[s]]
       /\ noted' = [l \in Leaves |-> IF l \in Parts(s) THEN now ELSE noted[l]]
       /\ Touch(Parsed(s), Spaced(Parsed(s)) /\ \A m \in handled : notes[m].sym = s => m < n)
  /\ UNCHANGED <<now, variable, reading, notes, lastHad, answer>>

-----------------------------------------------------------------------------
(* Environment *)

DeviceChanges(l, v) ==
  /\ variable[l] # v
  /\ variable' = [variable EXCEPT ![l] = v]
  /\ lastHad' = [lastHad EXCEPT ![l][v] = now]
  /\ UNCHANGED <<now, cacheVars, reading, noteVars, noted, touched, answer, lastUpdate, calm>>

DeviceNotifies(s) ==
  /\ Len(notes) < MaxNotes
  /\ notes' = Append(notes, [sym |-> s, sample |-> variable])
  /\ UNCHANGED <<now, variable, cacheVars, reading, handled, history>>

Tick ==
  /\ now < MaxTime
  /\ reading # Idle => now - reading.start < Timeout
  /\ now' = now + 1
  /\ lastHad' = [l \in Leaves |-> [lastHad[l] EXCEPT ![variable[l]] = now + 1]]
  /\ UNCHANGED <<variable, cacheVars, reading, noteVars, noted, touched, answer, lastUpdate, calm>>

Next == \/ \E s \in Symbols : ReadCached(s) \/ ReadStart(s)
        \/ DeviceReads \/ ReadDone \/ ReadFails
        \/ \E n \in 1 .. MaxNotes : HandleNotification(n)
        \/ \E l \in Leaves, v \in Values : DeviceChanges(l, v)
        \/ \E s \in Subscribed : DeviceNotifies(s)
        \/ Tick

Spec == Init /\ [][Next]_vars

-----------------------------------------------------------------------------
(* Properties *)

SampleOf(s) == [Parts(s) -> Values \cup {0}]

TypeOK ==
  /\ now \in 0 .. MaxTime /\ variable \in [Leaves -> Values]
  /\ \A s \in Symbols : Value[s] = NoValue \/ Value[s] \in SampleOf(s)
  /\ LastUpdateTime \in [Symbols -> 0 .. now]
  /\ reading = Idle \/ reading \in [sym : Symbols, start : 0 .. now,
                                    sample : {NoValue} \cup [Leaves -> Values]]
  /\ notes \in Seq([sym : Subscribed, sample : [Leaves -> Values]])
  /\ handled \subseteq DOMAIN notes
  /\ lastHad \in [Leaves -> [Values -> Never .. now]] /\ noted \in [Leaves -> Never .. now]
  /\ touched \in [Symbols -> 0 .. now] /\ calm \in [Symbols -> BOOLEAN]
  /\ answer.sym \in Symbols /\ answer.called \in 0 .. now /\ DOMAIN lastUpdate = Symbols

\* A leaf with the history held was v after time t.
Had(held, v, t) == v \in Values /\ held[v] # Never /\ held[v] > t

\* How much older than its call an answer may be: the part of a structure may
\* have been read Interval before the structure was, and this Interval before
\* the call; the part's own request had taken some time too.
MaxAge(s) == IF s = Struct THEN 2 * Interval + Timeout ELSE Interval + Timeout

\* What ReadFromSymbol returns was true of the device not long before the call,
\* stored value, throttle, children and all.  Two exceptions: a notification,
\* which may be late, had just stored something, and "" (0 for the part of a
\* structure) is returned for what was first parsed too soon after Connect or
\* after the last attempt.
ReadsAreFresh ==
  LET s == answer.sym  oldest == answer.called - MaxAge(answer.sym) IN
  IF answer.value = NoValue THEN s \in answer.hurried
  ELSE \A l \in Parts(s) : \/ Had(lastHad[l], answer.value[l], oldest)
                           \/ noted[l] > oldest
                           \/ answer.value[l] = 0 /\ l \in answer.hurried

\* The subscriber of a symbol has what the device sent last, once that has been
\* handled, if nothing was parsed for the symbol or its parts within Interval of
\* something else and no notification overtook another: the throttle drops
\* nothing else, and a change of a part reaches the structure.
Newest(S) == CHOOSE n \in S : \A m \in S : m <= n

UpdatesArrive ==
  \A s \in Subscribed :
    LET sent == {n \in DOMAIN notes : notes[n].sym = s} IN
    calm[s] /\ sent # {} /\ sent \subseteq handled =>
      lastUpdate[s] = [l \in Parts(s) |-> notes[Newest(sent)].sample[l]]
-----------------------------------------------------------------------------
(* What they rest on *)

\* A leaf with the history held was v at time t or later.
Backed(held, v, t) == v \in Values /\ held[v] # Never /\ held[v] >= t

\* The clock goes on, and a symbol that was updated was parsed.
OnTime ==
  /\ \A l \in Leaves : lastHad[l][variable[l]] = now
  /\ \A s \in Symbols : LastUpdateTime[s] <= touched[s]

\* A request is made when the stored value is old enough not to be throttled,
\* and brings what the device held after that.
ReadInTime ==
  reading # Idle =>
    /\ now - reading.start <= Timeout
    /\ Value[reading.sym] # NoValue => reading.start - LastUpdateTime[reading.sym] >= Interval
    /\ reading.sample # NoValue => \A l \in Leaves : Backed(lastHad[l], reading.sample[l], reading.start)

\* The stored value of a leaf is as old as LastUpdateTime says, but for the time
\* of the request, or of a notification.
LeavesBacked ==
  \A l \in Leaves : Value[l] # NoValue =>
    Backed(lastHad[l], Value[l][l], LastUpdateTime[l] - Timeout) \/ noted[l] >= LastUpdateTime[l]

\* That of a structure holds values of its parts that were Interval old, or 0
\* for a part that was then parsed too soon.
StructBacked ==
  Value[Struct] # NoValue => \A l \in Leaves :
    \/ Backed(lastHad[l], Value[Struct][l], LastUpdateTime[Struct] - Interval - Timeout)
    \/ noted[l] >= LastUpdateTime[Struct] - Interval
    \/ Value[Struct][l] = 0 /\ touched[l] >= LastUpdateTime[Struct]

\* What a subscriber got last is the newest that was handled for it.
Handled(s) == {n \in handled : notes[n].sym = s}
NewestArrived ==
  \A s \in Subscribed : calm[s] /\ Handled(s) # {} =>
    \E n \in Handled(s) : /\ \A m \in Handled(s) : m <= n
                          /\ lastUpdate[s] = [l \in Parts(s) |-> notes[n].sample[l]]

Inv == /\ TypeOK /\ OnTime /\ ReadInTime /\ LeavesBacked /\ StructBacked
       /\ ReadsAreFresh /\ NewestArrived
=============================================================================
