-------------------------- MODULE AttachmentsProofs --------------------------
(***************************************************************************)
(* What the retries, lost answers and clean-ups of Attachments do to the   *)
(* messages in the channel, and what a scan of it sees, for any tasks,     *)
(* messages, attempts and sizes of a page.                                 *)
(***************************************************************************)
EXTENDS Attachments, FiniteSetTheorems, NaturalsInduction, WellFoundedInduction, TLAPS

\* An upload that has been told the id of its message, and whoever is about to
\* delete one: nobody else works on the message of the former.
Mine(c) == c.kind = "upload" /\ (c.step = "erase" \/ c.pc \in {"answer", "uploaded"})
Working(c) == Mine(c) \/ c.kind \in {"delete", "purge"}

\* Which requests belong to which operation.
Fits(c) ==
  /\ DOMAIN c = DOMAIN Idle
  /\ \/ c.kind = "none" /\ c.pc = "idle" /\ c.step = "idle"
     \/ c.kind = "upload" /\ c.step = "post" /\ c.pc \in {"channel", "post", "answer", "uploaded"}
     \/ c.kind = "upload" /\ c.step = "erase" /\ c.pc \in {"erase", "answer"}
     \/ c.kind \in {"delete", "purge"} /\ c.step = "erase" /\ c.pc \in {"channel", "erase", "answer"}
     \/ c.kind = "fetch" /\ c.step = "get" /\ c.pc \in {"channel", "get", "answer", "url", "cdn"}
     \/ c.kind = "fetch" /\ c.step = "idle" /\ c.pc \in {"url", "cdn"}
     \/ c.kind = "scan" /\ c.step = "page" /\ c.pc \in {"channel", "page", "answer"}

\* What a call knows of its message.
Knows(c) ==
  /\ Working(c) \/ c.kind = "fetch" => c.id \in Ids /\ message[c.id] # "unused"
  /\ c.kind = "upload" /\ ~Mine(c) => c.id = NoMessage
  /\ Mine(c) \/ c.kind = "delete" => c.id \notin kept
  /\ Mine(c) /\ c.step = "post" => There(c.id)
  /\ c.pc = "uploaded" => message[c.id] = "whole"
  /\ c.pc = "answer" /\ (c.step = "erase" \/ (c.step = "get" /\ c.batch = {})) => ~There(c.id)
  /\ c.refresh /\ c.pc = "cdn" => c.url \in Nat \ {0}

\* Ids are used in turn.
Numbered == \E n \in 0 .. MaxMessages : \A m \in Ids : message[m] # "unused" <=> m <= n

Apart == \A t, u \in Tasks :
  t # u /\ Mine(call[t]) /\ Working(call[u]) => call[t].id # call[u].id

Channels ==
  /\ message \in [Ids -> States] /\ kept \subseteq Ids /\ Numbered
  /\ DOMAIN call = Tasks
  /\ Apart
  /\ \A t \in Tasks : Fits(call[t]) /\ Knows(call[t])

IInv == Channels /\ KeptIsWhole /\ OrphansHaveACause /\ StaleUrlsAreResolvedAgain

-----------------------------------------------------------------------------
(* Facts about ids and records.                                            *)

LEMMA IdsAre == /\ Ids \subseteq Nat \ {0} /\ MaxMessages \in Nat \ {0}
                /\ Ids = 1 .. MaxMessages /\ NoMessage \notin Ids
  BY SizesAssumption DEF Ids, NoMessage

\* The next id is the first nobody has used.
LEMMA NextIdIs ==
  ASSUME Numbered
  PROVE  NextId \in Nat \ {0} /\ \A m \in Ids : message[m] # "unused" <=> m < NextId
  <1>1. PICK n \in 0 .. MaxMessages : \A m \in Ids : message[m] # "unused" <=> m <= n
    BY DEF Numbered
  <1>2. n \in Nat /\ {m \in Ids : message[m] # "unused"} = 1 .. n
    BY <1>1, IdsAre
  <1>3. Cardinality(1 .. n) = n
    BY <1>2, FS_Interval
  <1>4. NextId = n + 1
    BY <1>2, <1>3 DEF NextId
  <1> QED
    BY <1>1, <1>2, <1>4, IdsAre

LEMMA ToIs ==
  ASSUME DOMAIN call = Tasks, NEW t \in Tasks, NEW c, To(t, c)
  PROVE  /\ DOMAIN call' = Tasks /\ call'[t] = c
         /\ \A u \in Tasks \ {t} : call'[u] = call[u]
  BY DEF To

LEMMA RequestIs ==
  ASSUME NEW c, DOMAIN c = DOMAIN Idle, NEW step
  PROVE  /\ DOMAIN Request(c, step) = DOMAIN Idle
         /\ Request(c, step).pc = step /\ Request(c, step).step = step
         /\ Request(c, step).kind = c.kind /\ Request(c, step).id = c.id
         /\ Request(c, step).refresh = c.refresh
  BY DEF Request, Idle

LEMMA FirstIs ==
  ASSUME NEW c, DOMAIN c = DOMAIN Idle, NEW step
  PROVE  /\ DOMAIN First(c, step) = DOMAIN Idle
         /\ First(c, step).pc \in {step, "channel"} /\ First(c, step).step = step
         /\ First(c, step).kind = c.kind /\ First(c, step).id = c.id
         /\ First(c, step).refresh = c.refresh
  <1> DEFINE r == Request(c, step)
  <1>1. DOMAIN r = DOMAIN Idle /\ r.step = step /\ r.kind = c.kind /\ r.id = c.id
        /\ r.refresh = c.refresh
    BY RequestIs
  <1>2. First(c, step) = [r EXCEPT !.pc = IF channel THEN step ELSE "channel"]
    BY DEF First
  <1> HIDE DEF r
  <1> QED
    BY <1>1, <1>2 DEF Idle

LEMMA IdleFits == Fits(Idle) /\ Knows(Idle) /\ ~Working(Idle) /\ Idle.kind = "none"
  BY DEF Idle, Fits, Knows, Working, Mine

-----------------------------------------------------------------------------
(* What a step of one call has to establish.                               *)

InHandOf(c, m) == c.kind \in {"upload", "delete", "purge"} /\ c.id = m

\* A used id stays used, a message that is gone stays gone, and the observers
\* forget nothing.
Onward ==
  /\ \A m \in Ids : message[m] # "unused" => message'[m] # "unused" /\ (StillThere(m) => There(m))
  /\ ambiguous \subseteq ambiguous' /\ undeleted \subseteq undeleted'
  /\ StaleUrlsAreResolvedAgain'

\* The step touches the message of its own call or a new one, refers to no other,
\* and takes up one that nobody else has uploaded.
Alone(t) ==
  /\ \A m \in Ids : message'[m] # message[m] =>
       message[m] = "unused" \/ (Working(call[t]) /\ m = call[t].id)
  /\ \A m \in kept' \ kept : Mine(call[t]) /\ m = call[t].id /\ message'[m] = "whole"
  /\ Working(call'[t]) =>
       \/ /\ Working(call[t]) /\ call'[t].id = call[t].id
          /\ Mine(call'[t]) => Mine(call[t])
       \/ message[call'[t].id] = "unused"
       \/ call'[t].id \in kept /\ ~Mine(call'[t])

\* What it deletes of the messages referred to, it is purging.
OnlyPurges(t) ==
  /\ \A m \in kept \cap kept' : message'[m] # message[m] =>
       message'[m] = "deleted" /\ call'[t].kind = "purge" /\ call'[t].id = m
  /\ call[t].kind = "purge" /\ call[t].id \in kept' =>
       call'[t].kind = "purge" /\ call'[t].id = call[t].id

\* A message it posts or lets go of is in its hand or on record.
Accounts(t) ==
  \A m \in Present' \ kept' :
    m \notin Present \/ m \in kept \/ InHandOf(call[t], m) =>
      InHandOf(call'[t], m) \/ m \in ambiguous' \cup undeleted'

LEMMA Moves ==
  ASSUME IInv, NEW t \in Tasks,
         DOMAIN call' = Tasks, \A u \in Tasks \ {t} : call'[u] = call[u],
         Fits(call[t])', Knows(call[t])',
         message' \in [Ids -> States], kept' \subseteq Ids, Numbered',
         Onward, Alone(t), OnlyPurges(t), Accounts(t)
  PROVE  IInv'
  <1>1. Apart'
    <2> SUFFICES ASSUME NEW u \in Tasks, NEW w \in Tasks, u # w,
                        Mine(call'[u]), Working(call'[w])
                 PROVE  call'[u].id # call'[w].id
      BY DEF Apart
    <2>2. \A v \in Tasks : Mine(call[v]) => Working(call[v])
      BY DEF Working
    <2>3. CASE u # t /\ w # t
      BY <2>3 DEF IInv, Channels, Apart
    <2>4. CASE u = t
      <3>1. Working(call'[t]) /\ call'[w] = call[w] /\ Working(call[w])
        BY <2>4 DEF Working
      <3>2. Mine(call[t]) => call[t].id # call[w].id
        BY <2>4, <3>1 DEF IInv, Channels, Apart
      <3>3. \/ /\ Working(call[t]) /\ call'[t].id = call[t].id
               /\ Mine(call'[t]) => Mine(call[t])
            \/ message[call'[t].id] = "unused"
            \/ call'[t].id \in kept /\ ~Mine(call'[t])
        BY <3>1 DEF Alone
      <3>4. Mine(call'[t])
        BY <2>4
      <3>6. message[call[w].id] # "unused"
        BY <3>1 DEF IInv, Channels, Knows
      <3>5. call'[t].id # call[w].id
        BY <3>2, <3>3, <3>4, <3>6
      <3> QED
        BY <2>4, <3>1, <3>5
    <2>5. CASE w = t
      <3>1. Working(call'[t]) /\ call'[u] = call[u] /\ Mine(call[u])
        BY <2>5
      <3>2. Working(call[t]) => call[u].id # call[t].id
        BY <2>5, <3>1 DEF IInv, Channels, Apart
      <3>3. \/ /\ Working(call[t]) /\ call'[t].id = call[t].id
               /\ Mine(call'[t]) => Mine(call[t])
            \/ message[call'[t].id] = "unused"
            \/ call'[t].id \in kept /\ ~Mine(call'[t])
        BY <3>1 DEF Alone
      <3>4. message[call[u].id] # "unused" /\ call[u].id \notin kept
        BY <2>2, <3>1 DEF IInv, Channels, Knows
      <3>5. call'[t].id # call[u].id
        BY <3>2, <3>3, <3>4
      <3> QED
        BY <2>5, <3>1, <3>5
    <2> QED
      BY <2>3, <2>4, <2>5
  <1>2. ASSUME NEW u \in Tasks, u # t PROVE Fits(call[u])' /\ Knows(call[u])'
    <2>1. call'[u] = call[u] /\ Fits(call[u]) /\ Knows(call[u])
      BY <1>2 DEF IInv, Channels
    <2>2. Working(call[u]) /\ Mine(call[t]) => call[u].id # call[t].id
      BY <1>2 DEF IInv, Channels, Apart
    <2>3. Mine(call[u]) /\ Working(call[t]) => call[u].id # call[t].id
      BY <1>2 DEF IInv, Channels, Apart
    <2>4. Mine(call[u]) => message'[call[u].id] = message[call[u].id]
      BY <2>1, <2>3 DEF Alone, Knows, Working
    <2>5. Mine(call[u]) \/ call[u].kind = "delete" => call[u].id \notin kept'
      BY <2>1, <2>2 DEF Alone, Knows, Working
    <2>6. call[u].id \in Ids /\ message[call[u].id] # "unused" /\ ~There(call[u].id)
            => ~StillThere(call[u].id)
      BY DEF Onward
    <2>7. Working(call[u]) \/ call[u].kind = "fetch" =>
            call[u].id \in Ids /\ message'[call[u].id] # "unused"
      BY <2>1 DEF Onward, Knows
    <2>8. call[u].pc = "answer" /\ (call[u].step = "erase" \/ (call[u].step = "get" /\ call[u].batch = {}))
            => Working(call[u]) \/ call[u].kind = "fetch"
      BY <2>1 DEF Fits, Working, Mine
    <2>9. call[u].pc = "uploaded" => Mine(call[u])
      BY <2>1 DEF Fits, Mine
    <2> QED
      BY <2>1, <2>4, <2>5, <2>6, <2>7, <2>8, <2>9 DEF Knows, There, StillThere
  <1>3. KeptIsWhole'
    <2> SUFFICES ASSUME NEW m \in kept', message'[m] # "whole"
                 PROVE  message'[m] = "deleted"
                        /\ \E u \in Tasks : call'[u].kind = "purge" /\ call'[u].id = m
      BY DEF KeptIsWhole
    <2>1. m \in kept /\ m \in Ids
      BY DEF Alone, IInv, Channels
    <2>2. CASE message'[m] # message[m]
      BY <2>1, <2>2 DEF OnlyPurges
    <2>3. CASE message'[m] = message[m]
      <3>1. PICK u \in Tasks : call[u].kind = "purge" /\ call[u].id = m
        BY <2>1, <2>3 DEF IInv, KeptIsWhole
      <3>2. message'[m] = "deleted"
        BY <2>1, <2>3 DEF IInv, KeptIsWhole
      <3> QED
        BY <3>1, <3>2 DEF OnlyPurges
    <2> QED
      BY <2>2, <2>3
  <1>4. OrphansHaveACause'
    <2> SUFFICES ASSUME NEW m \in Present' \ kept'
                 PROVE  InHand(m)' \/ m \in ambiguous' \cup undeleted'
      BY DEF OrphansHaveACause
    <2>1. InHandOf(call'[t], m) => InHand(m)'
      BY DEF InHand, InHandOf
    <2>2. CASE m \notin Present \/ m \in kept \/ InHandOf(call[t], m)
      BY <2>1, <2>2 DEF Accounts
    <2>3. CASE m \in Present \ kept /\ ~InHandOf(call[t], m)
      <3>1. CASE m \in ambiguous \cup undeleted
        BY <3>1 DEF Onward
      <3>2. CASE InHand(m)
        <4>1. PICK u \in Tasks : InHandOf(call[u], m)
          BY <3>2 DEF InHand, InHandOf
        <4>2. u # t /\ call'[u] = call[u]
          BY <2>3, <4>1
        <4> QED
          BY <4>1, <4>2 DEF InHand, InHandOf
      <3> QED
        BY <2>3, <3>1, <3>2 DEF IInv, OrphansHaveACause
    <2> QED
      BY <2>2, <2>3
  <1>5. \A u \in Tasks : Fits(call[u])' /\ Knows(call[u])'
    BY <1>2
  <1>6. Channels'
    BY <1>1, <1>5 DEF Channels
  <1> QED
    BY <1>3, <1>4, <1>6 DEF IInv, Onward

-----------------------------------------------------------------------------
(* What a request does to the channel.                                     *)

Effect(t) ==
  /\ message' \in [Ids -> States] /\ Numbered'
  /\ \A m \in Ids : message[m] # "unused" => message'[m] # "unused" /\ (StillThere(m) => There(m))
  /\ \A m \in Ids : message'[m] # message[m] =>
       message[m] = "unused" \/ (Working(call[t]) /\ m = call[t].id)
  /\ \A m \in kept : message'[m] # message[m] =>
       message'[m] = "deleted" /\ call[t].kind = "purge" /\ call[t].id = m

LEMMA NoEffect ==
  ASSUME IInv, NEW t \in Tasks, UNCHANGED message
  PROVE  Effect(t) /\ Present' = Present
  <1>1. Numbered'
    BY DEF IInv, Channels, Numbered
  <1>2. Present' = Present
    BY DEF Present, There
  <1> QED
    BY <1>1, <1>2 DEF Effect, IInv, Channels, There, StillThere

\* A message is posted under an id nobody has used, or the one at hand deleted.
LEMMA Applied ==
  ASSUME IInv, NEW t \in Tasks, call[t].pc \in Requests, Apply(t)
  PROVE  /\ Effect(t) /\ call[t].step = call[t].pc
         /\ call[t].step = "post" =>
              /\ NextId \in Ids /\ message[NextId] = "unused" /\ StillThere(NextId)
              /\ \A m \in Present' : m = NextId \/ m \in Present
         /\ call[t].step = "erase" => ~StillThere(call[t].id) /\ Present' \subseteq Present
         /\ call[t].step \notin {"post", "erase"} => UNCHANGED message
  <1>1. call[t].step = call[t].pc /\ Fits(call[t]) /\ Knows(call[t])
        /\ message \in [Ids -> States] /\ kept \subseteq Ids /\ Numbered
    BY DEF IInv, Channels, Fits, Requests
  <1>2. CASE call[t].step = "post"
    <2>1. PICK state \in {"whole", "short"} :
            NextId \in Ids /\ message' = [message EXCEPT ![NextId] = state]
      BY <1>2 DEF Apply
    <2>2. NextId \in Nat \ {0} /\ \A m \in Ids : message[m] # "unused" <=> m < NextId
      BY <1>1, NextIdIs
    <2>3. /\ message' \in [Ids -> States] /\ message'[NextId] = state
          /\ \A m \in Ids : m # NextId => message'[m] = message[m]
      BY <1>1, <2>1 DEF States
    <2>4. message[NextId] = "unused"
      BY <2>1, <2>2
    <2>5. Numbered'
      <3>1. NextId \in 0 .. MaxMessages
        BY <2>1, IdsAre
      <3>2. \A m \in Ids : message'[m] # "unused" <=> m <= NextId
        BY <2>1, <2>2, <2>3, IdsAre
      <3> QED
        BY <3>1, <3>2 DEF Numbered
    <2>6. NextId \notin kept
      BY <2>4 DEF IInv, KeptIsWhole
    <2>7. Effect(t)
      BY <1>1, <2>1, <2>3, <2>4, <2>5, <2>6 DEF Effect, There, StillThere
    <2>8. StillThere(NextId) /\ \A m \in Present' : m = NextId \/ m \in Present
      BY <2>1, <2>3 DEF StillThere, Present, There
    <2> QED
      BY <1>1, <1>2, <2>1, <2>4, <2>7, <2>8
  <1>3. CASE call[t].step = "erase"
    <2> DEFINE i == call[t].id
    <2>1. message' = [message EXCEPT ![i] = "deleted"]
      BY <1>3 DEF Apply
    <2>2. Working(call[t]) /\ i \in Ids /\ message[i] # "unused"
          /\ (call[t].kind = "purge" \/ i \notin kept)
      BY <1>1, <1>3 DEF Fits, Knows, Working, Mine
    <2>3. /\ message' \in [Ids -> States] /\ message'[i] = "deleted"
          /\ \A m \in Ids : m # i => message'[m] = message[m]
      BY <1>1, <2>1, <2>2 DEF States
    <2>4. \A m \in Ids : message'[m] # "unused" <=> message[m] # "unused"
      BY <2>2, <2>3
    <2>5. Numbered'
      BY <1>1, <2>4 DEF Numbered
    <2>6. Effect(t)
      BY <1>1, <2>2, <2>3, <2>4, <2>5 DEF Effect, There, StillThere
    <2>7. ~StillThere(i) /\ Present' \subseteq Present
      BY <2>3 DEF StillThere, Present, There
    <2> QED
      BY <1>1, <1>3, <2>6, <2>7
  <1>4. CASE call[t].step \notin {"post", "erase"}
    BY <1>1, <1>4, NoEffect DEF Apply
  <1> QED
    BY <1>2, <1>3, <1>4

\* An operation ends: a purge drops its node, and an attachment that was to be
\* deleted and is still there is on record.
LEMMA Ends ==
  ASSUME IInv, NEW t \in Tasks, To(t, Idle), Effect(t), Dropped(call[t]),
         \A m \in Present' : m \in Present \/ m \in ambiguous',
         ambiguous \subseteq ambiguous', undeleted \subseteq undeleted',
         StaleUrlsAreResolvedAgain', call[t].pc # "uploaded",
         call[t].pc = "answer" => call[t].step # "post",
         call[t].step = "erase" /\ StillThere(call[t].id) => call[t].id \in undeleted'
  PROVE  IInv'
  <1>1. /\ DOMAIN call' = Tasks /\ call'[t] = Idle
        /\ \A u \in Tasks \ {t} : call'[u] = call[u]
        /\ Fits(call[t]) /\ Knows(call[t])
    BY ToIs DEF IInv, Channels
  <1>2. Fits(call'[t]) /\ Knows(call[t])' /\ ~Working(call'[t]) /\ call'[t].kind = "none"
    BY <1>1 DEF Idle, Fits, Knows, Working, Mine
  <1>3. /\ kept' \subseteq kept /\ kept' \subseteq Ids
        /\ call[t].kind = "purge" => call[t].id \notin kept'
        /\ \A m \in kept \ kept' : call[t].kind = "purge" /\ m = call[t].id
    BY DEF Dropped, IInv, Channels
  <1>4. Onward /\ Alone(t)
    BY <1>2, <1>3 DEF Onward, Alone, Effect
  <1>5. OnlyPurges(t)
    BY <1>3 DEF OnlyPurges, Effect
  <1>6. Accounts(t)
    <2> SUFFICES ASSUME NEW m \in Present' \ kept',
                        m \notin Present \/ m \in kept \/ InHandOf(call[t], m)
                 PROVE  m \in ambiguous' \cup undeleted'
      BY DEF Accounts
    <2>1. m \in Ids /\ StillThere(m)
      BY DEF Present, There, StillThere
    <2>2. CASE m \notin Present
      BY <2>2
    <2>3. CASE m \in kept \/ InHandOf(call[t], m)
      <3>1. InHandOf(call[t], m)
        BY <1>3, <2>3 DEF InHandOf
      <3>2. call[t].step = "erase" /\ m = call[t].id
        BY <1>1, <2>1, <3>1, IdsAre DEF InHandOf, Fits, Knows, Mine
      <3> QED
        BY <2>1, <3>2
    <2> QED
      BY <2>2, <2>3
  <1> QED
    BY <1>1, <1>2, <1>3, <1>4, <1>5, <1>6, Moves DEF Effect

\* The same request again.
LEMMA Repeats ==
  ASSUME IInv, NEW t \in Tasks, NEW n, To(t, [call[t] EXCEPT !.attempt = n]), Effect(t),
         UNCHANGED <<kept, undeleted, badread>>,
         \A m \in Present' : m \in Present \/ m \in ambiguous',
         ambiguous \subseteq ambiguous', call[t].pc \notin {"answer", "uploaded"}
  PROVE  IInv'
  <1> DEFINE c == [call[t] EXCEPT !.attempt = n]
  <1>1. Fits(call[t]) /\ Knows(call[t]) /\ DOMAIN call = Tasks
    BY DEF IInv, Channels
  <1>2. /\ DOMAIN c = DOMAIN Idle /\ c.pc = call[t].pc /\ c.kind = call[t].kind
        /\ c.step = call[t].step /\ c.id = call[t].id /\ c.refresh = call[t].refresh
        /\ c.url = call[t].url
    BY <1>1 DEF Fits, Idle
  <1>3. /\ DOMAIN call' = Tasks /\ call'[t] = c
        /\ \A u \in Tasks \ {t} : call'[u] = call[u]
    BY <1>1, ToIs
  <1> HIDE DEF c
  <1>4. Fits(call'[t]) /\ (Working(call'[t]) <=> Working(call[t]))
        /\ (Mine(call'[t]) <=> Mine(call[t]))
        /\ \A m : InHandOf(call'[t], m) <=> InHandOf(call[t], m)
    BY <1>1, <1>2, <1>3 DEF Fits, Working, Mine, InHandOf
  <1>5. Knows(call[t])'
    <2>1. Working(call[t]) \/ call[t].kind = "fetch" =>
            call[t].id \in Ids /\ message'[call[t].id] # "unused"
      BY <1>1 DEF Knows, Effect
    <2>2. ~(Mine(call[t]) /\ call[t].step = "post")
      BY DEF Mine
    <2> QED
      BY <1>1, <1>2, <1>3, <1>4, <2>1, <2>2 DEF Knows
  <1>6. Onward /\ OnlyPurges(t)
    BY <1>2, <1>3 DEF Onward, OnlyPurges, Effect, IInv, StaleUrlsAreResolvedAgain
  <1>7. Alone(t)
    BY <1>2, <1>3, <1>4 DEF Alone, Effect
  <1>8. Accounts(t)
    BY <1>4 DEF Accounts
  <1> QED
    BY <1>3, <1>4, <1>5, <1>6, <1>7, <1>8, Moves DEF Effect, IInv, Channels

LEMMA RetryInv ==
  ASSUME IInv, NEW t \in Tasks, Retry(t), Effect(t),
         \A m \in Present' : m \in Present \/ m \in ambiguous',
         ambiguous \subseteq ambiguous', call[t].pc \notin {"answer", "uploaded"}
  PROVE  IInv'
  <1>1. CASE /\ To(t, [call[t] EXCEPT !.attempt = call[t].attempt + 1])
             /\ UNCHANGED <<kept, undeleted, badread>>
    BY <1>1, Repeats
  <1>2. CASE /\ To(t, Idle) /\ Dropped(call[t]) /\ UNCHANGED badread
             /\ undeleted' = IF call[t].step = "erase" /\ StillThere(call[t].id)
                             THEN undeleted \cup {call[t].id} ELSE undeleted
    <2>1. StaleUrlsAreResolvedAgain'
      BY <1>2 DEF IInv, StaleUrlsAreResolvedAgain
    <2>2. /\ undeleted \subseteq undeleted'
          /\ call[t].step = "erase" /\ StillThere(call[t].id) => call[t].id \in undeleted'
      BY <1>2
    <2> QED
      BY <1>2, <2>1, <2>2, Ends
  <1> QED
    BY <1>1, <1>2 DEF Retry

\* A request is refused, fails or is lost, before or after it took effect.
LEMMA FaultInv ==
  ASSUME IInv, NEW t \in Tasks, Fault(t) \/ CdnFault(t) \/ LoseAnswer(t)
  PROVE  IInv'
  <1>1. CASE Fault(t) \/ CdnFault(t)
    <2>1. /\ UNCHANGED <<message, ambiguous>> /\ Retry(t)
          /\ call[t].pc \notin {"answer", "uploaded"}
      BY <1>1 DEF Fault, CdnFault, Requests
    <2> QED
      BY <2>1, NoEffect, RetryInv
  <1>2. CASE LoseAnswer(t)
    <2>1. /\ call[t].pc \in Requests /\ call[t].pc \in {"post", "erase"} /\ Apply(t) /\ Retry(t)
          /\ ambiguous' = IF call[t].step = "post" THEN ambiguous \cup {NextId} ELSE ambiguous
      BY <1>2 DEF LoseAnswer, Requests
    <2>2. /\ ambiguous \subseteq ambiguous' /\ Effect(t)
          /\ \A m \in Present' : m \in Present \/ m \in ambiguous'
      BY <2>1, Applied
    <2> QED
      BY <2>1, <2>2, RetryInv
  <1> QED
    BY <1>1, <1>2

\* Discord answers.
LEMMA ServeInv ==
  ASSUME IInv, NEW t \in Tasks, Serve(t)
  PROVE  IInv'
  <1>1. /\ call[t].pc \in Requests /\ Apply(t) /\ To(t, Answer(t))
        /\ UNCHANGED <<kept, observers>>
        /\ Fits(call[t]) /\ Knows(call[t]) /\ DOMAIN call = Tasks
    BY DEF Serve, IInv, Channels
  <1>2. /\ Effect(t) /\ call[t].step = call[t].pc
        /\ call[t].step = "post" =>
             /\ NextId \in Ids /\ message[NextId] = "unused" /\ StillThere(NextId)
             /\ \A m \in Present' : m = NextId \/ m \in Present
        /\ call[t].step = "erase" => ~StillThere(call[t].id) /\ Present' \subseteq Present
        /\ call[t].step \notin {"post", "erase"} => UNCHANGED message
    BY <1>1, Applied
  <1>3. /\ DOMAIN call' = Tasks /\ call'[t] = Answer(t)
        /\ \A u \in Tasks \ {t} : call'[u] = call[u]
    BY <1>1, ToIs
  <1>4. /\ DOMAIN call'[t] = DOMAIN Idle /\ call'[t].pc = "answer"
        /\ call'[t].kind = call[t].kind /\ call'[t].step = call[t].step
        /\ call'[t].id = IF call[t].step = "post" THEN NextId ELSE call[t].id
        /\ call[t].step = "get" =>
             call'[t].batch = {call[t].id} \cap Present
    BY <1>1, <1>3 DEF Answer, Fits, Idle
  <1>5. Onward
    BY <1>1, <1>2 DEF Onward, Effect, observers, IInv, StaleUrlsAreResolvedAgain
  <1>6. CASE call[t].step = "post"
    <2>1. /\ call[t].kind = "upload" /\ call[t].pc = "post" /\ ~Working(call[t])
          /\ NextId \notin kept
      BY <1>1, <1>2, <1>6 DEF Fits, Working, Mine, IInv, KeptIsWhole
    <2>2. Fits(call[t])' /\ Knows(call[t])'
      BY <1>1, <1>2, <1>4, <1>6, <2>1 DEF Fits, Knows, Working, Mine, There, StillThere
    <2>3. Alone(t) /\ OnlyPurges(t)
      BY <1>1, <1>2, <1>4, <1>6, <2>1 DEF Alone, OnlyPurges, Effect
    <2>4. Accounts(t)
      <3>1. call[t].id = NoMessage
        BY <1>1, <2>1 DEF Knows, Working
      <3>2. \A m \in Present' : m \in Ids
        BY DEF Present
      <3> QED
        BY <1>1, <1>2, <1>4, <1>6, <2>1, <3>1, <3>2, IdsAre DEF Accounts, InHandOf
    <2> QED
      BY <1>1, <1>2, <1>3, <1>5, <2>2, <2>3, <2>4, Moves DEF Effect, IInv, Channels
  <1>7. CASE call[t].step # "post"
    <2>1. /\ (Working(call'[t]) <=> Working(call[t])) /\ (Mine(call'[t]) <=> Mine(call[t]))
          /\ call'[t].id = call[t].id
          /\ call[t].pc # "answer" /\ call[t].pc # "uploaded"
      BY <1>1, <1>2, <1>4, <1>7 DEF Working, Mine, Requests, Fits
    <2>2. Fits(call[t])'
      <3>1. \/ call[t].kind \in {"upload", "delete", "purge"} /\ call[t].step = "erase"
            \/ call[t].kind = "fetch" /\ call[t].step = "get"
            \/ call[t].kind = "scan" /\ call[t].step = "page"
        BY <1>1, <1>2, <1>7 DEF Fits, Requests
      <3> QED
        BY <1>4, <3>1 DEF Fits
    <2>3. Knows(call[t])'
      <3>1. Working(call[t]) \/ call[t].kind = "fetch" =>
              call[t].id \in Ids /\ message'[call[t].id] # "unused"
        BY <1>1, <1>2 DEF Knows, Effect
      <3>2. call[t].step = "get" /\ call'[t].batch = {} => ~StillThere(call[t].id)
        BY <1>2, <1>4 DEF There, StillThere, Present
      <3> QED
        BY <1>1, <1>2, <1>4, <1>7, <2>1, <3>1, <3>2 DEF Knows, There, StillThere, Mine
    <2>4. Alone(t) /\ OnlyPurges(t)
      BY <1>1, <1>2, <1>4, <2>1 DEF Alone, OnlyPurges, Effect
    <2>5. Accounts(t)
      <3>1. Present' \subseteq Present
        BY <1>2, <1>7 DEF Present, There
      <3> QED
        BY <1>1, <1>4, <2>1, <3>1 DEF Accounts, InHandOf
    <2> QED
      BY <1>1, <1>2, <1>3, <1>5, <2>2, <2>3, <2>4, <2>5, Moves DEF Effect, IInv, Channels
  <1> QED
    BY <1>6, <1>7

-----------------------------------------------------------------------------
(* What the client does.                                                   *)

\* A call moves on; nothing else changes.
LEMMA Quiet ==
  ASSUME IInv, NEW t \in Tasks, NEW c, To(t, c), Fits(c), Knows(c),
         UNCHANGED <<remote, observers>>,
         Working(c) => \/ /\ Working(call[t]) /\ c.id = call[t].id
                          /\ Mine(c) => Mine(call[t])
                       \/ c.id \in kept /\ ~Mine(c),
         call[t].kind \in {"upload", "delete", "purge"} /\ call[t].id # NoMessage =>
           c.kind = call[t].kind /\ c.id = call[t].id
  PROVE  IInv'
  <1>1. /\ DOMAIN call' = Tasks /\ call'[t] = c
        /\ \A u \in Tasks \ {t} : call'[u] = call[u]
        /\ UNCHANGED <<message, kept, ambiguous, undeleted, badread>>
        /\ Knows(call[t])
    BY ToIs DEF IInv, Channels, remote, observers
  <1>2. Effect(t) /\ Present' = Present
    BY <1>1, NoEffect
  <1>3. Fits(call[t])' /\ Knows(call[t])'
    BY <1>1 DEF Knows, There
  <1>4. Onward
    BY <1>1 DEF Onward, There, StillThere, IInv, StaleUrlsAreResolvedAgain
  <1>5. Alone(t)
    BY <1>1 DEF Alone
  <1>6. OnlyPurges(t) /\ Accounts(t)
    <2>1. \A m \in Present : m \in Ids
      BY DEF Present
    <2> QED
      BY <1>1, <1>2, <2>1, IdsAre DEF OnlyPurges, Accounts, InHandOf, IInv, Channels
  <1> QED
    BY <1>1, <1>2, <1>3, <1>4, <1>5, <1>6, Moves DEF Effect, IInv, Channels

\* An error leaves an operation.
LEMMA RaiseInv ==
  ASSUME IInv, NEW t \in Tasks, NEW status, Raise(t, status),
         status = "refused" => ~There(call[t].id),
         call[t].pc # "uploaded", call[t].pc = "answer" => call[t].step # "post"
  PROVE  IInv'
  <1>1. /\ To(t, Idle) /\ Dropped(call[t]) /\ UNCHANGED <<message, ambiguous>>
        /\ badread' = badread
        /\ undeleted' = IF call[t].step = "erase" /\ There(call[t].id)
                        THEN undeleted \cup {call[t].id} ELSE undeleted
    BY DEF Raise
  <1>2. Effect(t) /\ Present' = Present
    BY <1>1, NoEffect
  <1>3. /\ undeleted \subseteq undeleted' /\ StaleUrlsAreResolvedAgain'
        /\ call[t].step = "erase" /\ StillThere(call[t].id) => call[t].id \in undeleted'
    BY <1>1 DEF StillThere, There, IInv, StaleUrlsAreResolvedAgain
  <1> QED
    BY <1>1, <1>2, <1>3, Ends

\* What is referred to was posted.
LEMMA KeptIsUsed == ASSUME IInv, NEW m \in kept PROVE m \in Ids /\ message[m] # "unused"
  BY DEF IInv, Channels, KeptIsWhole

LEMMA BeginInv ==
  ASSUME IInv, NEW t \in Tasks,
         Upload(t) \/ Scan(t) \/ \E m \in Ids : Fetch(t, m) \/ Purge(t, m)
  PROVE  IInv'
  <1>1. call[t].pc = "idle" /\ UNCHANGED <<remote, observers>>
    BY DEF Upload, Scan, Fetch, Purge, Begin, remote, observers
  <1>2. call[t].kind = "none"
    BY <1>1 DEF IInv, Channels, Fits
  <1>3. CASE Upload(t)
    <2> DEFINE i == [Idle EXCEPT !.kind = "upload"]
    <2>1. DOMAIN i = DOMAIN Idle /\ i.kind = "upload" /\ i.id = NoMessage /\ ~i.refresh
      BY DEF Idle
    <2>2. To(t, First(i, "post"))
      BY <1>3 DEF Upload, Begin
    <2> HIDE DEF i
    <2> DEFINE c == First(i, "post")
    <2>3. /\ DOMAIN c = DOMAIN Idle /\ c.pc \in {"post", "channel"} /\ c.step = "post"
          /\ c.kind = "upload" /\ c.id = NoMessage /\ ~c.refresh
      BY <2>1, FirstIs
    <2> HIDE DEF c
    <2>4. Fits(c) /\ Knows(c) /\ ~Working(c)
      BY <2>3 DEF Fits, Knows, Working, Mine
    <2> QED
      BY <1>1, <1>2, <2>2, <2>4, Quiet DEF c
  <1>4. CASE Scan(t)
    <2> DEFINE i == [Idle EXCEPT !.kind = "scan", !.referenced = kept, !.stayed = Present]
    <2>1. DOMAIN i = DOMAIN Idle /\ i.kind = "scan" /\ ~i.refresh
      BY DEF Idle
    <2>2. To(t, First(i, "page"))
      BY <1>4 DEF Scan, Begin
    <2> HIDE DEF i
    <2> DEFINE c == First(i, "page")
    <2>3. /\ DOMAIN c = DOMAIN Idle /\ c.pc \in {"page", "channel"} /\ c.step = "page"
          /\ c.kind = "scan" /\ ~c.refresh
      BY <2>1, FirstIs
    <2> HIDE DEF c
    <2>4. Fits(c) /\ Knows(c) /\ ~Working(c)
      BY <2>3 DEF Fits, Knows, Working, Mine
    <2> QED
      BY <1>1, <1>2, <2>2, <2>4, Quiet DEF c
  <1>5. ASSUME NEW m \in Ids, Fetch(t, m) PROVE IInv'
    <2> DEFINE c == [Idle EXCEPT !.pc = "url", !.kind = "fetch", !.id = m]
    <2>1. /\ DOMAIN c = DOMAIN Idle /\ c.pc = "url" /\ c.kind = "fetch" /\ c.id = m
          /\ c.step = "idle"
      BY DEF Idle
    <2>2. To(t, c) /\ message[m] # "unused"
      BY <1>5, KeptIsUsed DEF Fetch, Begin
    <2> HIDE DEF c
    <2>3. Fits(c) /\ Knows(c) /\ ~Working(c)
      BY <2>1, <2>2 DEF Fits, Knows, Working, Mine
    <2> QED
      BY <1>1, <1>2, <2>2, <2>3, Quiet
  <1>6. ASSUME NEW m \in Ids, Purge(t, m) PROVE IInv'
    <2> DEFINE i == [Idle EXCEPT !.kind = "purge", !.id = m]
    <2>1. DOMAIN i = DOMAIN Idle /\ i.kind = "purge" /\ i.id = m /\ ~i.refresh
      BY DEF Idle
    <2>2. To(t, First(i, "erase")) /\ m \in kept /\ message[m] # "unused"
      BY <1>6, KeptIsUsed DEF Purge, Begin
    <2> HIDE DEF i
    <2> DEFINE c == First(i, "erase")
    <2>3. /\ DOMAIN c = DOMAIN Idle /\ c.pc \in {"erase", "channel"} /\ c.step = "erase"
          /\ c.kind = "purge" /\ c.id = m /\ ~c.refresh
      BY <2>1, FirstIs
    <2> HIDE DEF c
    <2>4. Fits(c) /\ Knows(c) /\ ~Mine(c)
      BY <2>2, <2>3 DEF Fits, Knows, Working, Mine
    <2> QED
      BY <1>1, <1>2, <2>2, <2>3, <2>4, Quiet DEF c
  <1> QED
    BY <1>3, <1>4, <1>5, <1>6

\* A chunk is no longer referred to, and then deleted.
LEMMA ReplaceInv ==
  ASSUME IInv, NEW t \in Tasks, NEW m \in Ids, Replace(t, m)
  PROVE  IInv'
  <1> DEFINE i == [Idle EXCEPT !.kind = "delete", !.id = m]
             c == First(i, "erase")
  <1>1. DOMAIN i = DOMAIN Idle /\ i.kind = "delete" /\ i.id = m /\ ~i.refresh
    BY DEF Idle
  <1>2. /\ To(t, c) /\ m \in kept /\ kept' = kept \ {m} /\ call[t].pc = "idle"
        /\ UNCHANGED <<message, observers>> /\ DOMAIN call = Tasks
    BY DEF Replace, Begin, IInv, Channels
  <1>3. call[t].kind = "none" /\ message[m] # "unused"
    BY <1>2, KeptIsUsed DEF IInv, Channels, Fits
  <1> HIDE DEF i
  <1>4. /\ DOMAIN c = DOMAIN Idle /\ c.pc \in {"erase", "channel"} /\ c.step = "erase"
        /\ c.kind = "delete" /\ c.id = m /\ ~c.refresh
    BY <1>1, FirstIs
  <1> HIDE DEF c
  <1>5. /\ DOMAIN call' = Tasks /\ call'[t] = c
        /\ \A u \in Tasks \ {t} : call'[u] = call[u]
    BY <1>2, ToIs
  <1>6. Fits(call[t])' /\ Knows(call[t])' /\ ~Mine(call'[t])
    BY <1>2, <1>3, <1>4, <1>5 DEF Fits, Knows, Working, Mine
  <1>7. Effect(t)
    BY <1>2, NoEffect
  <1>8. Onward /\ Alone(t) /\ OnlyPurges(t)
    BY <1>2, <1>3, <1>4, <1>5, <1>6, <1>7
    DEF Onward, Alone, OnlyPurges, Effect, observers, IInv, StaleUrlsAreResolvedAgain
  <1>9. Accounts(t)
    <2>1. Present' = Present
      BY <1>2, NoEffect
    <2> QED
      BY <1>2, <1>3, <1>4, <1>5, <2>1 DEF Accounts, InHandOf
  <1> QED
    BY <1>2, <1>5, <1>6, <1>7, <1>8, <1>9, Moves DEF Effect, IInv, Channels

\* The channel is found, and the request follows.
LEMMA ChannelInv ==
  ASSUME IInv, NEW t \in Tasks, Channel(t)
  PROVE  IInv'
  <1> DEFINE c == [call[t] EXCEPT !.pc = call[t].step]
  <1>1. Fits(call[t]) /\ Knows(call[t]) /\ call[t].pc = "channel"
        /\ To(t, c) /\ UNCHANGED <<remote, observers>>
    BY DEF Channel, IInv, Channels
  <1>2. /\ DOMAIN c = DOMAIN Idle /\ c.pc = call[t].step /\ c.kind = call[t].kind
        /\ c.step = call[t].step /\ c.id = call[t].id
    BY <1>1 DEF Fits, Idle
  <1> HIDE DEF c
  <1>3. Fits(c)
    BY <1>1, <1>2 DEF Fits
  <1>4. (Working(c) <=> Working(call[t])) /\ (Mine(c) <=> Mine(call[t]))
    BY <1>1, <1>2 DEF Fits, Working, Mine
  <1>5. Knows(c)
    BY <1>1, <1>2, <1>4 DEF Knows, Fits, Mine
  <1> QED
    BY <1>1, <1>2, <1>3, <1>4, <1>5, Quiet

\* A post was answered: what is too short is deleted again.
LEMMA UploadedInv ==
  ASSUME IInv, NEW t \in Tasks, Uploaded(t)
  PROVE  IInv'
  <1>1. /\ Fits(call[t]) /\ Knows(call[t]) /\ UNCHANGED <<remote, observers>>
        /\ call[t].pc = "answer" /\ call[t].step = "post"
    BY DEF Uploaded, IInv, Channels, observers
  <1>2. call[t].kind = "upload" /\ Mine(call[t]) /\ DOMAIN call[t] = DOMAIN Idle
    BY <1>1 DEF Fits, Mine
  <1>3. CASE TooShort(call[t].id)
    <2> DEFINE c == Request(call[t], "erase")
    <2>1. /\ DOMAIN c = DOMAIN Idle /\ c.pc = "erase" /\ c.step = "erase"
          /\ c.kind = "upload" /\ c.id = call[t].id
      BY <1>2, RequestIs
    <2>2. To(t, c)
      BY <1>3 DEF Uploaded, CleanUp
    <2> HIDE DEF c
    <2>3. Fits(c) /\ Knows(c) /\ Working(c)
      BY <1>1, <1>2, <2>1 DEF Fits, Knows, Working, Mine
    <2> QED
      BY <1>1, <1>2, <2>1, <2>2, <2>3, Quiet DEF Working
  <1>4. CASE ~TooShort(call[t].id)
    <2> DEFINE c == [call[t] EXCEPT !.pc = "uploaded"]
    <2>1. /\ DOMAIN c = DOMAIN Idle /\ c.pc = "uploaded" /\ c.step = "post"
          /\ c.kind = "upload" /\ c.id = call[t].id
      BY <1>1, <1>2 DEF Idle
    <2>2. To(t, c)
      BY <1>4 DEF Uploaded
    <2>3. message[call[t].id] = "whole"
      BY <1>1, <1>2, <1>4 DEF TooShort, Knows, There
    <2> HIDE DEF c
    <2>4. Fits(c) /\ Knows(c) /\ Working(c)
      BY <1>1, <1>2, <2>1, <2>3 DEF Fits, Knows, Working, Mine
    <2> QED
      BY <1>1, <1>2, <2>1, <2>2, <2>4, Quiet DEF Working
  <1> QED
    BY <1>3, <1>4

\* The caller refers to its chunk, or gives it back.
LEMMA KeepInv ==
  ASSUME IInv, NEW t \in Tasks, Keep(t)
  PROVE  IInv'
  <1>1. /\ Fits(call[t]) /\ Knows(call[t]) /\ call[t].pc = "uploaded"
        /\ kept' = kept \cup {call[t].id} /\ To(t, Idle) /\ UNCHANGED <<message, observers>>
        /\ DOMAIN call = Tasks
    BY DEF Keep, IInv, Channels
  <1>2. /\ Mine(call[t]) /\ call[t].kind = "upload" /\ call[t].id \in Ids
        /\ message[call[t].id] = "whole"
    BY <1>1 DEF Fits, Knows, Mine, Working
  <1>3. /\ DOMAIN call' = Tasks /\ call'[t] = Idle
        /\ \A u \in Tasks \ {t} : call'[u] = call[u]
    BY <1>1, ToIs
  <1>4. Fits(call[t])' /\ Knows(call[t])' /\ ~Working(call'[t])
    BY <1>3 DEF Idle, Fits, Knows, Working, Mine
  <1>5. Effect(t) /\ Present' = Present
    BY <1>1, NoEffect
  <1>6. Onward /\ Alone(t) /\ OnlyPurges(t)
    BY <1>1, <1>2, <1>3, <1>4, <1>5
    DEF Onward, Alone, OnlyPurges, Effect, observers, IInv, StaleUrlsAreResolvedAgain
  <1>7. Accounts(t)
    BY <1>1, <1>3, <1>5 DEF Accounts, InHandOf
  <1> QED
    BY <1>1, <1>2, <1>3, <1>4, <1>5, <1>6, <1>7, Moves DEF Effect, IInv, Channels

LEMMA GiveBackInv ==
  ASSUME IInv, NEW t \in Tasks, GiveBack(t)
  PROVE  IInv'
  <1> DEFINE i == [call[t] EXCEPT !.kind = "delete"]
             c == Request(i, "erase")
  <1>1. /\ Fits(call[t]) /\ Knows(call[t]) /\ call[t].pc = "uploaded"
        /\ To(t, c) /\ UNCHANGED <<remote, observers>> /\ DOMAIN call = Tasks
    BY DEF GiveBack, IInv, Channels
  <1>2. DOMAIN i = DOMAIN Idle /\ i.kind = "delete" /\ i.id = call[t].id
    BY <1>1 DEF Fits, Idle
  <1>3. Mine(call[t]) /\ Working(call[t]) /\ call[t].kind = "upload"
    BY <1>1 DEF Fits, Mine, Working
  <1> HIDE DEF i
  <1>4. /\ DOMAIN c = DOMAIN Idle /\ c.pc = "erase" /\ c.step = "erase"
        /\ c.kind = "delete" /\ c.id = call[t].id
    BY <1>2, RequestIs
  <1> HIDE DEF c
  <1>5. /\ DOMAIN call' = Tasks /\ call'[t] = c
        /\ \A u \in Tasks \ {t} : call'[u] = call[u]
        /\ UNCHANGED <<message, kept, ambiguous, undeleted, badread>>
    BY <1>1, ToIs DEF remote, observers
  <1>6. Fits(call[t])' /\ Knows(call[t])' /\ ~Mine(call'[t])
    BY <1>1, <1>3, <1>4, <1>5 DEF Fits, Knows, Working, Mine
  <1>7. Effect(t) /\ Present' = Present
    BY <1>5, NoEffect
  <1>8. Onward /\ Alone(t) /\ OnlyPurges(t) /\ Accounts(t)
    BY <1>3, <1>4, <1>5, <1>6, <1>7
    DEF Onward, Alone, OnlyPurges, Accounts, InHandOf, Effect, IInv, StaleUrlsAreResolvedAgain
  <1> QED
    BY <1>5, <1>6, <1>7, <1>8, Moves DEF Effect, IInv, Channels

LEMMA ErasedInv ==
  ASSUME IInv, NEW t \in Tasks, Erased(t)
  PROVE  IInv'
  <1>1. /\ call[t].pc = "answer" /\ call[t].step = "erase" /\ To(t, Idle) /\ Dropped(call[t])
        /\ UNCHANGED <<message, ambiguous, undeleted, badread>>
        /\ Knows(call[t])
    BY DEF Erased, observers, IInv, Channels
  <1>2. Effect(t) /\ Present' = Present
    BY <1>1, NoEffect
  <1>3. ~StillThere(call[t].id) /\ StaleUrlsAreResolvedAgain'
    BY <1>1 DEF Knows, There, StillThere, IInv, StaleUrlsAreResolvedAgain
  <1> QED
    BY <1>1, <1>2, <1>3, Ends

\* The channel cannot be found, or the bot may not post or read there.
LEMMA RefusalInv ==
  ASSUME IInv, NEW t \in Tasks, ChannelFails(t) \/ Forbidden(t)
  PROVE  IInv'
  <1>1. Raise(t, "other") /\ call[t].pc \in {"channel", "post", "page"}
    BY DEF ChannelFails, Forbidden
  <1> QED
    BY <1>1, RaiseInv

\* A URL is found in the cache or asked for.
LEMMA UrlInv ==
  ASSUME IInv, NEW t \in Tasks, Url(t)
  PROVE  IInv'
  <1>1. /\ Fits(call[t]) /\ Knows(call[t]) /\ call[t].pc = "url"
        /\ UNCHANGED <<remote, observers>>
    BY DEF Url, IInv, Channels
  <1>2. /\ call[t].kind = "fetch" /\ DOMAIN call[t] = DOMAIN Idle
        /\ call[t].id \in Ids /\ message[call[t].id] # "unused"
        /\ call[t].step \in {"get", "idle"}
    BY <1>1 DEF Fits, Knows
  <1>3. ASSUME NEW life, ~call[t].refresh,
               To(t, [call[t] EXCEPT !.pc = "cdn", !.attempt = 0, !.url = life])
        PROVE  IInv'
    <2> DEFINE c == [call[t] EXCEPT !.pc = "cdn", !.attempt = 0, !.url = life]
    <2>1. /\ DOMAIN c = DOMAIN Idle /\ c.pc = "cdn" /\ c.step = call[t].step
          /\ c.kind = "fetch" /\ c.id = call[t].id /\ c.refresh = call[t].refresh
      BY <1>2 DEF Idle
    <2>2. To(t, c)
      BY <1>3
    <2> HIDE DEF c
    <2>3. Fits(c) /\ Knows(c) /\ ~Working(c)
      BY <1>2, <1>3, <2>1 DEF Fits, Knows, Working, Mine
    <2> QED
      BY <1>1, <1>2, <2>2, <2>3, Quiet
  <1>4. CASE To(t, First(call[t], "get"))
    <2> DEFINE c == First(call[t], "get")
    <2>1. /\ DOMAIN c = DOMAIN Idle /\ c.pc \in {"get", "channel"} /\ c.step = "get"
          /\ c.kind = "fetch" /\ c.id = call[t].id
      BY <1>2, FirstIs
    <2> HIDE DEF c
    <2>2. Fits(c) /\ Knows(c) /\ ~Working(c)
      BY <1>2, <2>1 DEF Fits, Knows, Working, Mine
    <2> QED
      BY <1>1, <1>2, <1>4, <2>2, Quiet DEF c
  <1> QED
    BY <1>3, <1>4 DEF Url

\* A new URL, which lives; or the message is not there.
LEMMA ResolvedInv ==
  ASSUME IInv, NEW t \in Tasks, Resolved(t)
  PROVE  IInv'
  <1>1. /\ Fits(call[t]) /\ Knows(call[t]) /\ call[t].pc = "answer" /\ call[t].step = "get"
    BY DEF Resolved, IInv, Channels
  <1>2. /\ call[t].kind = "fetch" /\ DOMAIN call[t] = DOMAIN Idle
        /\ call[t].id \in Ids /\ message[call[t].id] # "unused"
    BY <1>1 DEF Fits, Knows
  <1>3. CASE call[t].batch = {} /\ Raise(t, "refused")
    <2>1. ~There(call[t].id)
      BY <1>1, <1>3 DEF Knows
    <2> QED
      BY <1>1, <1>3, <2>1, RaiseInv
  <1>4. CASE /\ To(t, [call[t] EXCEPT !.pc = "cdn", !.attempt = 0, !.url = Life, !.batch = {}])
             /\ UNCHANGED <<remote, observers>>
    <2> DEFINE c == [call[t] EXCEPT !.pc = "cdn", !.attempt = 0, !.url = Life, !.batch = {}]
    <2>1. /\ DOMAIN c = DOMAIN Idle /\ c.pc = "cdn" /\ c.step = "get"
          /\ c.kind = "fetch" /\ c.id = call[t].id /\ c.url = Life
      BY <1>1, <1>2 DEF Idle
    <2>2. Life \in Nat \ {0}
      BY SizesAssumption
    <2> HIDE DEF c
    <2>3. Fits(c) /\ Knows(c) /\ ~Working(c)
      BY <1>2, <2>1, <2>2 DEF Fits, Knows, Working, Mine
    <2> QED
      BY <1>2, <1>4, <2>3, Quiet DEF c
  <1> QED
    BY <1>3, <1>4 DEF Resolved

\* The CDN serves, or refuses: a URL just resolved only if the message is gone.
LEMMA CdnInv ==
  ASSUME IInv, NEW t \in Tasks, Downloaded(t) \/ Rejected(t)
  PROVE  IInv'
  <1>1. Fits(call[t]) /\ Knows(call[t]) /\ call[t].pc = "cdn"
    BY DEF Downloaded, Rejected, IInv, Channels
  <1>2. /\ call[t].kind = "fetch" /\ DOMAIN call[t] = DOMAIN Idle
        /\ call[t].id \in Ids /\ message[call[t].id] # "unused"
        /\ call[t].step \in {"get", "idle"}
    BY <1>1 DEF Fits, Knows
  <1>3. CASE Downloaded(t)
    <2>1. To(t, Idle) /\ UNCHANGED <<remote, observers>>
      BY <1>3 DEF Downloaded
    <2> QED
      BY <1>2, <2>1, IdleFits, Quiet
  <1>4. CASE Raise(t, "refused") /\ call[t].refresh /\ (~There(call[t].id) \/ call[t].url = 0)
    <2>1. ~There(call[t].id)
      BY <1>1, <1>4 DEF Knows
    <2> QED
      BY <1>1, <1>4, <2>1, RaiseInv
  <1>5. CASE To(t, TryAgain(call[t])) /\ UNCHANGED <<remote, observers>>
    <2> DEFINE c == TryAgain(call[t])
    <2>1. /\ DOMAIN c = DOMAIN Idle /\ c.pc = "url" /\ c.step = call[t].step
          /\ c.kind = "fetch" /\ c.id = call[t].id
      BY <1>2 DEF TryAgain, Idle
    <2> HIDE DEF c
    <2>2. Fits(c) /\ Knows(c) /\ ~Working(c)
      BY <1>2, <2>1 DEF Fits, Knows, Working, Mine
    <2> QED
      BY <1>2, <1>5, <2>2, Quiet DEF c
  <1> QED
    BY <1>3, <1>4, <1>5 DEF Rejected

\* A page of the scan; what the report says is no part of the invariant.
LEMMA PagedInv ==
  ASSUME IInv, NEW t \in Tasks, Paged(t)
  PROVE  IInv'
  <1>1. /\ Fits(call[t]) /\ Knows(call[t]) /\ call[t].pc = "answer" /\ call[t].step = "page"
        /\ UNCHANGED <<message, kept, ambiguous, undeleted, badread>>
    BY DEF Paged, remote, IInv, Channels
  <1>2. call[t].kind = "scan" /\ DOMAIN call[t] = DOMAIN Idle
    BY <1>1 DEF Fits
  <1>3. ASSUME NEW c, To(t, c), Fits(c), Knows(c), ~Working(c), c.kind \in {"none", "scan"}
        PROVE  IInv'
    <2>1. /\ DOMAIN call' = Tasks /\ call'[t] = c
          /\ \A u \in Tasks \ {t} : call'[u] = call[u]
      BY <1>3, ToIs DEF IInv, Channels
    <2>2. Effect(t) /\ Present' = Present
      BY <1>1, NoEffect
    <2>3. Fits(call[t])' /\ Knows(call[t])'
      BY <1>1, <1>3, <2>1 DEF Knows, There
    <2>4. Onward /\ Alone(t) /\ OnlyPurges(t) /\ Accounts(t)
      BY <1>1, <1>2, <1>3, <2>1, <2>2
      DEF Onward, Alone, OnlyPurges, Accounts, InHandOf, Effect, IInv, StaleUrlsAreResolvedAgain
    <2> QED
      BY <1>1, <2>1, <2>2, <2>3, <2>4, Moves DEF Effect, IInv, Channels
  <1>4. CASE To(t, Idle)
    BY <1>3, <1>4, IdleFits
  <1>5. ASSUME NEW found, NEW before,
               To(t, Request([call[t] EXCEPT !.found = found, !.before = before,
                                             !.batch = {}], "page"))
        PROVE  IInv'
    <2> DEFINE i == [call[t] EXCEPT !.found = found, !.before = before, !.batch = {}]
               c == Request(i, "page")
    <2>1. DOMAIN i = DOMAIN Idle /\ i.kind = "scan"
      BY <1>2 DEF Idle
    <2>2. To(t, c)
      BY <1>5
    <2> HIDE DEF i
    <2>3. /\ DOMAIN c = DOMAIN Idle /\ c.pc = "page" /\ c.step = "page" /\ c.kind = "scan"
      BY <2>1, RequestIs
    <2> HIDE DEF c
    <2>4. Fits(c) /\ Knows(c) /\ ~Working(c)
      BY <2>3 DEF Fits, Knows, Working, Mine
    <2> QED
      BY <1>3, <2>2, <2>3, <2>4
  <1> QED
    BY <1>4, <1>5 DEF Paged

\* URLs age; one resolved for the read it is used in does not lapse.
LEMMA TickInv ==
  ASSUME IInv, Tick
  PROVE  IInv'
  <1>1. UNCHANGED <<message, kept, ambiguous, undeleted, badread>>
        /\ DOMAIN call = Tasks /\ DOMAIN call' = Tasks
    BY DEF Tick, remote, observers, IInv, Channels
  <1>2. ASSUME NEW t \in Tasks
        PROVE  /\ DOMAIN call'[t] = DOMAIN Idle
               /\ call'[t].pc = call[t].pc /\ call'[t].kind = call[t].kind
               /\ call'[t].step = call[t].step /\ call'[t].id = call[t].id
               /\ call'[t].batch = call[t].batch /\ call'[t].refresh = call[t].refresh
               /\ call'[t].url = Older(call[t].url)
    BY DEF Tick, Idle, IInv, Channels, Fits
  <1>3. ASSUME NEW t \in Tasks
        PROVE  Fits(call[t])' /\ Knows(call[t])'
    <2>1. Fits(call[t]) /\ Knows(call[t])
      BY DEF IInv, Channels
    <2>2. call[t].refresh /\ call[t].pc = "cdn" => call'[t].url \in Nat \ {0}
      <3>1. call[t].refresh /\ call[t].pc = "cdn" => call[t].url > 1 /\ call[t].url \in Nat
        BY <2>1 DEF Tick, Knows
      <3> QED
        BY <1>2, <3>1 DEF Older
    <2>3. (Working(call'[t]) <=> Working(call[t])) /\ (Mine(call'[t]) <=> Mine(call[t]))
      BY <1>2 DEF Working, Mine
    <2>4. Fits(call[t])'
      BY <1>2, <2>1 DEF Fits
    <2> QED
      BY <1>1, <1>2, <2>1, <2>2, <2>3, <2>4 DEF Knows, There
  <1>4. Apart'
    BY <1>2 DEF Apart, IInv, Channels, Working, Mine
  <1>5. Numbered'
    BY <1>1 DEF Numbered, IInv, Channels
  <1>6. KeptIsWhole' /\ OrphansHaveACause' /\ StaleUrlsAreResolvedAgain'
    BY <1>1, <1>2 DEF IInv, KeptIsWhole, OrphansHaveACause, StaleUrlsAreResolvedAgain,
                      Present, There, InHand
  <1> QED
    BY <1>1, <1>3, <1>4, <1>5, <1>6 DEF IInv, Channels

-----------------------------------------------------------------------------
(* The scan of the channel.                                                *)

\* What was there when a scan began, still is and has not been yielded, is on the
\* page in hand or older than it; an empty page says there is no such message.
ScanKnows(c) ==
  c.kind = "scan" =>
    /\ c.stayed \subseteq Ids /\ \A m \in c.stayed : message[m] # "unused"
    /\ \A m \in (c.stayed \cap Present) \ c.found :
         IF c.pc = "answer" THEN c.batch # {} /\ (m \in c.batch \/ m < Oldest(c.batch))
         ELSE c.before = NoMessage \/ m < c.before

Scans == ScanMissesNothing /\ \A t \in Tasks : ScanKnows(call[t])

\* The oldest message of a page, and the newest of those a page is taken from.
LEMMA OldestIs ==
  ASSUME NEW S, S \subseteq Nat, S # {}
  PROVE  Oldest(S) \in S /\ \A n \in S : Oldest(S) <= n
  <1>1. PICK k \in S : \A j \in S : <<j, k>> \notin OpToRel(<, Nat)
    BY NatLessThanWellFounded, WFMin
  <1>2. \A j \in S : ~(j < k)
    BY <1>1 DEF OpToRel
  <1>3. ASSUME NEW j \in S PROVE k <= j
    <2>1. j \in Nat /\ k \in Nat
      BY <1>1
    <2> QED
      BY <1>2, <2>1
  <1> QED
    BY <1>1, <1>3 DEF Oldest

LEMMA NewestIs ==
  ASSUME NEW S, S \subseteq Ids, S # {}
  PROVE  \E n \in S : \A m \in S : m <= n
  <1> DEFINE left == {MaxMessages - n : n \in S}
  <1>0. MaxMessages \in Nat /\ S \subseteq Nat /\ \A n \in S : n <= MaxMessages
    BY IdsAre
  <1>1. left \subseteq Nat /\ left # {}
    <2>1. \A n \in S : MaxMessages - n \in Nat
      BY <1>0
    <2> QED
      BY <2>1
  <1> HIDE DEF left
  <1>2. Oldest(left) \in left /\ \A k \in left : Oldest(left) <= k
    BY <1>1, OldestIs
  <1>3. PICK n \in S : Oldest(left) = MaxMessages - n
    BY <1>2 DEF left
  <1>4. ASSUME NEW m \in S PROVE m <= n
    <2>1. MaxMessages - m \in left
      BY DEF left
    <2>2. MaxMessages - n <= MaxMessages - m
      BY <1>2, <1>3, <2>1
    <2> QED
      BY <1>0, <2>2
  <1> QED
    BY <1>4

\* A page holds whatever is older than `before` and not older than its last
\* message, and is empty only if nothing is older.
LEMMA HistoryIs ==
  ASSUME NEW before, NEW m \in Present, before = NoMessage \/ m < before
  PROVE  /\ History(before) # {} /\ History(before) \subseteq Ids
         /\ m \in History(before) \/ m < Oldest(History(before))
  <1> DEFINE older == {k \in Present : before = NoMessage \/ k < before}
             newer(k) == {n \in older : n > k}
  <1>1. older \subseteq Ids /\ m \in older /\ IsFiniteSet(Ids) /\ Page \in Nat \ {0}
    BY IdsAre, FS_Interval, SizesAssumption DEF Present
  <1>2. \A k \in Ids : IsFiniteSet(newer(k)) /\ Cardinality(newer(k)) \in Nat
    <2>1. \A k \in Ids : newer(k) \subseteq Ids
      BY <1>1
    <2> HIDE DEF newer
    <2> QED
      BY <1>1, <2>1, FS_Subset, FS_CardinalityType
  <1>3. History(before) = {k \in older : Cardinality(newer(k)) < Page}
    BY DEF History
  <1>4. PICK top \in older : \A k \in older : k <= top
    BY <1>1, NewestIs
  <1>5. newer(top) = {}
    BY <1>1, <1>4, IdsAre
  <1>6. Cardinality(newer(top)) = 0
    BY <1>5, FS_EmptySet
  <1>7. top \in History(before) /\ History(before) \subseteq Ids
    BY <1>1, <1>3, <1>4, <1>6
  <1>8. PICK last : last = Oldest(History(before))
    OBVIOUS
  <1>9. last \in History(before) /\ last \in older /\ Cardinality(newer(last)) < Page
    <2>1. History(before) \subseteq Nat
      BY <1>7, IdsAre
    <2> QED
      BY <1>3, <1>7, <1>8, <2>1, OldestIs
  <1>10. m \in History(before) \/ m < last
    <2> SUFFICES ASSUME ~(m < last) PROVE m \in History(before)
      OBVIOUS
    <2>1. m \in Nat /\ last \in Nat /\ m \in Ids /\ last \in Ids /\ older \subseteq Nat
      BY <1>1, <1>9, IdsAre
    <2>2. newer(m) \subseteq newer(last)
      BY <2>1
    <2>3. Cardinality(newer(m)) <= Cardinality(newer(last))
      <3> HIDE DEF newer
      <3> QED
        BY <1>2, <2>1, <2>2, FS_Subset
    <2>4. Cardinality(newer(m)) < Page
      BY <1>1, <1>2, <1>9, <2>1, <2>3
    <2> QED
      BY <1>1, <1>3, <2>4
  <1> QED
    BY <1>7, <1>8, <1>10

\* Messages are posted under new ids and do not come back once deleted.
NoReturn ==
  \A m \in Ids : message[m] # "unused" => message'[m] # "unused" /\ (StillThere(m) => There(m))

LEMMA ScanStays ==
  ASSUME IInv, NoReturn, NEW c, NEW d, ScanKnows(c), d.kind = c.kind,
         c.kind = "scan" => /\ d.stayed = c.stayed /\ d.found = c.found /\ d.batch = c.batch
                            /\ d.before = c.before /\ (d.pc = "answer" <=> c.pc = "answer")
  PROVE  ScanKnows(d)'
  <1> SUFFICES ASSUME c.kind = "scan"
               PROVE  /\ c.stayed \subseteq Ids /\ \A m \in c.stayed : message'[m] # "unused"
                      /\ \A m \in (c.stayed \cap Present') \ c.found :
                           IF c.pc = "answer" THEN c.batch # {} /\ (m \in c.batch \/ m < Oldest(c.batch))
                           ELSE c.before = NoMessage \/ m < c.before
    BY DEF ScanKnows
  <1>1. c.stayed \subseteq Ids /\ \A m \in c.stayed : message[m] # "unused"
    BY DEF ScanKnows
  <1>2. c.stayed \cap Present' \subseteq c.stayed \cap Present
    BY <1>1 DEF NoReturn, Present, There, StillThere
  <1> QED
    BY <1>1, <1>2 DEF ScanKnows, NoReturn

LEMMA ScanMoves ==
  ASSUME IInv, Scans, NoReturn, NEW t \in Tasks,
         \A u \in Tasks \ {t} : call'[u] = call[u],
         UNCHANGED report, ScanKnows(call[t])'
  PROVE  Scans'
  <1>1. ASSUME NEW u \in Tasks PROVE ScanKnows(call[u])'
    <2>1. CASE u = t
      BY <2>1
    <2>2. CASE u # t
      <3>1. PICK c : c = call[u]
        OBVIOUS
      <3>2. call'[u] = c /\ ScanKnows(c)
        BY <2>2, <3>1 DEF Scans
      <3>3. ScanKnows(c)'
        BY <3>2, ScanStays
      <3> QED
        BY <3>2, <3>3 DEF ScanKnows
    <2> QED
      BY <2>1, <2>2
  <1> QED
    BY <1>1 DEF Scans, ScanMissesNothing


\* The messages change only where Discord does what it is asked.
LEMMA NothingReturns ==
  ASSUME IInv, NEW t \in Tasks, Step(t)
  PROVE  NoReturn
  <1>1. CASE UNCHANGED message
    BY <1>1 DEF NoReturn, There, StillThere
  <1>2. CASE Serve(t) \/ LoseAnswer(t)
    <2>1. call[t].pc \in Requests /\ Apply(t)
      BY <1>2 DEF Serve, LoseAnswer, Requests
    <2> QED
      BY <2>1, Applied DEF NoReturn, Effect
  <1> QED
    BY <1>1, <1>2 DEF Step, Upload, Scan, Fetch, Replace, Purge, Begin, Channel, ChannelFails, Raise,
       Fault, Forbidden, Uploaded, Keep, GiveBack, Erased, Url, Resolved, Downloaded, Rejected,
       CdnFault, Paged, remote

\* What is not part of a scan does not become one.
LEMMA IdleKnows == ScanKnows(Idle) /\ ScanKnows(Idle)'
  BY DEF ScanKnows, Idle

LEMMA RetryScan ==
  ASSUME IInv, Scans, NoReturn, NEW t \in Tasks, Retry(t), call[t].pc # "answer"
  PROVE  ScanKnows(call[t])'
  <1>1. CASE To(t, [call[t] EXCEPT !.attempt = call[t].attempt + 1])
    <2> PICK d : d = [call[t] EXCEPT !.attempt = call[t].attempt + 1]
      OBVIOUS
    <2>1. DOMAIN call[t] = DOMAIN Idle /\ DOMAIN call = Tasks /\ ScanKnows(call[t])
      BY DEF IInv, Channels, Fits, Scans
    <2>2. /\ d.kind = call[t].kind /\ d.stayed = call[t].stayed /\ d.found = call[t].found
          /\ d.batch = call[t].batch /\ d.before = call[t].before /\ d.pc = call[t].pc
      BY <2>1 DEF Idle
    <2>3. call'[t] = d
      BY <1>1, <2>1, ToIs
    <2>4. PICK c : c = call[t]
      OBVIOUS
    <2>5. ScanKnows(d)'
      BY <2>1, <2>2, <2>4, ScanStays
    <2> QED
      BY <2>3, <2>5 DEF ScanKnows
  <1>2. CASE To(t, Idle)
    <2>1. call'[t] = Idle
      BY <1>2, ToIs DEF IInv, Channels
    <2> QED
      BY <2>1, IdleKnows
  <1> QED
    BY <1>1, <1>2 DEF Retry

\* A scan begins: nothing has been yielded, and everything is still to come.
LEMMA BeginScan ==
  ASSUME IInv, NEW t \in Tasks, Scan(t)
  PROVE  ScanKnows(call[t])'
  <1> DEFINE i == [Idle EXCEPT !.kind = "scan", !.referenced = kept, !.stayed = Present]
             r == Request(i, "page")
             d == [r EXCEPT !.pc = IF channel THEN "page" ELSE "channel"]
  <1>1. /\ DOMAIN i = DOMAIN Idle /\ i.kind = "scan" /\ i.stayed = Present
        /\ i.before = NoMessage
    BY DEF Idle
  <1>2. call'[t] = First(i, "page") /\ UNCHANGED message
    BY ToIs DEF Scan, Begin, IInv, Channels
  <1> HIDE DEF i
  <1>3. First(i, "page") = d
    BY DEF First
  <1>4. /\ DOMAIN r = DOMAIN Idle /\ r.kind = "scan" /\ r.stayed = Present
        /\ r.before = NoMessage
    BY <1>1 DEF Request, Idle
  <1> HIDE DEF r
  <1>5. /\ d.kind = "scan" /\ d.stayed = Present /\ d.before = NoMessage
        /\ d.pc \in {"page", "channel"}
    BY <1>4 DEF Idle
  <1> HIDE DEF d
  <1>6. Present \subseteq Ids /\ \A m \in Present : message'[m] # "unused"
    BY <1>2 DEF Present, There
  <1> QED
    BY <1>2, <1>3, <1>5, <1>6 DEF ScanKnows

\* A page is what is older than the last one.
LEMMA ServeScan ==
  ASSUME IInv, Scans, NoReturn, NEW t \in Tasks, Serve(t)
  PROVE  ScanKnows(call[t])'
  <1>1. /\ call'[t] = Answer(t) /\ call[t].pc \in Requests /\ Apply(t)
        /\ Fits(call[t]) /\ ScanKnows(call[t])
    BY ToIs DEF Serve, IInv, Channels, Scans
  <1>2. call'[t].kind = call[t].kind
    BY <1>1 DEF Answer, Fits, Idle
  <1> SUFFICES ASSUME call[t].kind = "scan" PROVE ScanKnows(call[t])'
    BY <1>2 DEF ScanKnows
  <1>3. call[t].step = "page" /\ call[t].pc = "page" /\ UNCHANGED message
    BY <1>1, Applied DEF Fits, Requests
  <1>4. /\ call'[t].pc = "answer" /\ call'[t].batch = History(call[t].before)
        /\ call'[t].stayed = call[t].stayed /\ call'[t].found = call[t].found
    BY <1>1, <1>3 DEF Answer, Fits, Idle
  <1>5. Present' = Present
    BY <1>3, NoEffect
  <1>6. ASSUME NEW m \in (call[t].stayed \cap Present) \ call[t].found
        PROVE  /\ History(call[t].before) # {}
               /\ m \in History(call[t].before) \/ m < Oldest(History(call[t].before))
    <2>1. PICK before : before = call[t].before
      OBVIOUS
    <2>2. m \in Present /\ (before = NoMessage \/ m < before)
      BY <1>1, <1>3, <2>1 DEF ScanKnows
    <2> QED
      BY <2>1, <2>2, HistoryIs
  <1>7. call[t].stayed \subseteq Ids /\ \A m \in call[t].stayed : message'[m] # "unused"
    BY <1>1, <1>3 DEF ScanKnows
  <1> QED
    BY <1>2, <1>4, <1>5, <1>6, <1>7 DEF ScanKnows

\* The channel is found; the scan asks for its first page.
LEMMA ChannelScan ==
  ASSUME IInv, Scans, NoReturn, NEW t \in Tasks, Channel(t)
  PROVE  ScanKnows(call[t])'
  <1> PICK d : d = [call[t] EXCEPT !.pc = call[t].step]
    OBVIOUS
  <1>1. Fits(call[t]) /\ ScanKnows(call[t]) /\ call[t].pc = "channel" /\ call'[t] = d
    BY ToIs DEF Channel, IInv, Channels, Scans
  <1>2. /\ d.kind = call[t].kind /\ d.stayed = call[t].stayed /\ d.found = call[t].found
        /\ d.batch = call[t].batch /\ d.before = call[t].before /\ d.pc # "answer"
    BY <1>1 DEF Fits, Idle
  <1>3. PICK c : c = call[t]
    OBVIOUS
  <1>4. ScanKnows(d)'
    BY <1>1, <1>2, <1>3, ScanStays
  <1> QED
    BY <1>1, <1>4 DEF ScanKnows

\* Everything else a call does belongs to an upload, a read or a delete.
LEMMA OtherScan ==
  ASSUME IInv, NEW t \in Tasks,
         \/ Upload(t) \/ \E m \in Ids : Fetch(t, m) \/ Replace(t, m) \/ Purge(t, m)
         \/ ChannelFails(t) \/ Forbidden(t) \/ Uploaded(t) \/ Keep(t) \/ GiveBack(t)
         \/ Erased(t) \/ Url(t) \/ Resolved(t) \/ Downloaded(t) \/ Rejected(t)
  PROVE  ScanKnows(call[t])' /\ UNCHANGED report
  <1>0. Fits(call[t]) /\ DOMAIN call = Tasks
    BY DEF IInv, Channels
  <1>1. UNCHANGED report
    BY DEF Upload, Fetch, Replace, Purge, Begin, ChannelFails, Forbidden, Raise, Uploaded, Keep,
           GiveBack, Erased, Url, Resolved, Downloaded, Rejected, observers
  <1>2. CASE To(t, Idle)
    <2>1. call'[t] = Idle
      BY <1>0, <1>2, ToIs
    <2> QED
      BY <1>1, <2>1, IdleKnows
  <1>3. ASSUME NEW c, To(t, c), c.kind # "scan" PROVE ScanKnows(call[t])'
    BY <1>0, <1>3, ToIs DEF ScanKnows
  <1>4. CASE Upload(t) \/ \E m \in Ids : Fetch(t, m) \/ Replace(t, m) \/ Purge(t, m)
    <2>1. PICK i, step : /\ To(t, i) \/ To(t, First(i, step))
                         /\ DOMAIN i = DOMAIN Idle /\ i.kind # "scan"
      <3>1. CASE Upload(t)
        <4>1. DOMAIN [Idle EXCEPT !.kind = "upload"] = DOMAIN Idle
              /\ [Idle EXCEPT !.kind = "upload"].kind # "scan"
          BY DEF Idle
        <4> QED
          BY <3>1, <4>1 DEF Upload, Begin
      <3>2. ASSUME NEW m \in Ids, Fetch(t, m)
            PROVE  \E i : To(t, i) /\ DOMAIN i = DOMAIN Idle /\ i.kind # "scan"
        <4> DEFINE i == [Idle EXCEPT !.pc = "url", !.kind = "fetch", !.id = m]
        <4>1. DOMAIN i = DOMAIN Idle /\ i.kind # "scan"
          BY DEF Idle
        <4>2. To(t, i)
          BY <3>2 DEF Fetch, Begin
        <4> QED
          BY <4>1, <4>2
      <3>3. ASSUME NEW m \in Ids, Replace(t, m)
            PROVE  \E i : To(t, First(i, "erase")) /\ DOMAIN i = DOMAIN Idle /\ i.kind # "scan"
        <4> DEFINE i == [Idle EXCEPT !.kind = "delete", !.id = m]
        <4>1. DOMAIN i = DOMAIN Idle /\ i.kind # "scan"
          BY DEF Idle
        <4>2. To(t, First(i, "erase"))
          BY <3>3 DEF Replace, Begin
        <4> HIDE DEF i
        <4> QED
          BY <4>1, <4>2
      <3>4. ASSUME NEW m \in Ids, Purge(t, m)
            PROVE  \E i : To(t, First(i, "erase")) /\ DOMAIN i = DOMAIN Idle /\ i.kind # "scan"
        <4> DEFINE i == [Idle EXCEPT !.kind = "purge", !.id = m]
        <4>1. DOMAIN i = DOMAIN Idle /\ i.kind # "scan"
          BY DEF Idle
        <4>2. To(t, First(i, "erase"))
          BY <3>4 DEF Purge, Begin
        <4> HIDE DEF i
        <4> QED
          BY <4>1, <4>2
      <3> QED
        BY <1>4, <3>1, <3>2, <3>3, <3>4
    <2>2. First(i, step).kind = i.kind
      BY <2>1, FirstIs
    <2> QED
      BY <1>1, <1>3, <2>1, <2>2
  <1>5. CASE Uploaded(t) \/ GiveBack(t) \/ Url(t) \/ Resolved(t) \/ Rejected(t)
    <2>1. call[t].kind # "scan" /\ DOMAIN call[t] = DOMAIN Idle
      BY <1>0, <1>5 DEF Fits, Uploaded, GiveBack, Url, Resolved, Rejected
    <2>2. CASE Uploaded(t)
      <3>1. To(t, Request(call[t], "erase")) \/ To(t, [call[t] EXCEPT !.pc = "uploaded"])
        BY <2>2 DEF Uploaded, CleanUp
      <3>2. Request(call[t], "erase").kind # "scan" /\ [call[t] EXCEPT !.pc = "uploaded"].kind # "scan"
        BY <2>1, RequestIs DEF Idle
      <3> QED
        BY <1>1, <1>3, <3>1, <3>2
    <2>3. CASE GiveBack(t)
      <3> DEFINE i == [call[t] EXCEPT !.kind = "delete"]
      <3>1. To(t, Request(i, "erase"))
        BY <2>3 DEF GiveBack
      <3>2. DOMAIN i = DOMAIN Idle /\ i.kind # "scan"
        BY <2>1 DEF Idle
      <3> HIDE DEF i
      <3>3. Request(i, "erase").kind # "scan"
        BY <3>2, RequestIs
      <3> QED
        BY <1>1, <1>3, <3>1, <3>3
    <2>4. CASE Url(t)
      <3>1. \/ \E life : To(t, [call[t] EXCEPT !.pc = "cdn", !.attempt = 0, !.url = life])
            \/ To(t, First(call[t], "get"))
        BY <2>4 DEF Url
      <3>2. \A life : [call[t] EXCEPT !.pc = "cdn", !.attempt = 0, !.url = life].kind # "scan"
        BY <2>1 DEF Idle
      <3>3. First(call[t], "get").kind # "scan"
        BY <2>1, FirstIs
      <3> QED
        BY <1>1, <1>3, <3>1, <3>2, <3>3
    <2>5. CASE Resolved(t)
      <3>1. \/ To(t, [call[t] EXCEPT !.pc = "cdn", !.attempt = 0, !.url = Life, !.batch = {}])
            \/ To(t, Idle)
        BY <2>5 DEF Resolved, Raise
      <3>2. [call[t] EXCEPT !.pc = "cdn", !.attempt = 0, !.url = Life, !.batch = {}].kind # "scan"
        BY <2>1 DEF Idle
      <3> QED
        BY <1>1, <1>2, <1>3, <3>1, <3>2
    <2>6. CASE Rejected(t)
      <3>1. To(t, TryAgain(call[t])) \/ To(t, Idle)
        BY <2>6 DEF Rejected, Raise
      <3>2. TryAgain(call[t]).kind # "scan"
        BY <2>1 DEF TryAgain, Idle
      <3> QED
        BY <1>1, <1>2, <1>3, <3>1, <3>2
    <2> QED
      BY <1>5, <2>2, <2>3, <2>4, <2>5, <2>6
  <1> QED
    BY <1>2, <1>4, <1>5 DEF ChannelFails, Forbidden, Raise, Keep, Erased, Downloaded

\* Nothing the scan should have yielded is left: its report is right.
LEMMA ReportIsRight ==
  ASSUME NEW c, (c.stayed \cap Present) \subseteq c.found
  PROVE  Wrong(c) = {}
  BY DEF Wrong

LEMMA PagedScan ==
  ASSUME IInv, Scans, NEW t \in Tasks, Paged(t)
  PROVE  ScanKnows(call[t])' /\ ScanMissesNothing'
  <1>1. /\ Fits(call[t]) /\ DOMAIN call = Tasks /\ ScanKnows(call[t]) /\ report = {}
        /\ call[t].pc = "answer" /\ call[t].step = "page" /\ UNCHANGED message
    BY DEF Paged, remote, IInv, Channels, Scans, ScanMissesNothing
  <1>2. call[t].kind = "scan" /\ Present' = Present
    BY <1>1, NoEffect DEF Fits
  <1>3. CASE call[t].batch = {}
    <2>1. (call[t].stayed \cap Present) \subseteq call[t].found
      BY <1>1, <1>2, <1>3 DEF ScanKnows
    <2>2. PICK c : c = call[t]
      OBVIOUS
    <2>3. Wrong(c) = {}
      BY <2>1, <2>2, ReportIsRight
    <2>4. report' = {} /\ To(t, Idle)
      BY <1>1, <1>3, <2>2, <2>3 DEF Paged
    <2>5. call'[t] = Idle
      BY <1>1, <2>4, ToIs
    <2> QED
      BY <2>4, <2>5, IdleKnows DEF ScanMissesNothing
  <1>4. CASE call[t].batch # {}
    <2> DEFINE i == [call[t] EXCEPT !.found = call[t].found \cup call[t].batch,
                                    !.before = NextPage(call[t].batch), !.batch = {}]
               r == Request(i, "page")
    <2>1. To(t, r) /\ UNCHANGED report
      BY <1>4 DEF Paged
    <2>2. /\ DOMAIN i = DOMAIN Idle /\ i.kind = "scan" /\ i.stayed = call[t].stayed
          /\ i.found = call[t].found \cup call[t].batch
          /\ i.before = Oldest(call[t].batch)
      BY <1>1, <1>2 DEF Fits, Idle, NextPage
    <2> HIDE DEF i
    <2>3. /\ r.kind = "scan" /\ r.stayed = call[t].stayed
          /\ r.found = call[t].found \cup call[t].batch
          /\ r.before = Oldest(call[t].batch) /\ r.pc = "page"
      BY <2>2 DEF Request, Idle
    <2> HIDE DEF r
    <2>4. call'[t] = r
      BY <1>1, <2>1, ToIs
    <2>5. ScanKnows(call[t])'
      BY <1>1, <1>2, <2>3, <2>4 DEF ScanKnows
    <2> QED
      BY <1>1, <2>1, <2>5 DEF ScanMissesNothing
  <1> QED
    BY <1>3, <1>4

LEMMA TickScan ==
  ASSUME IInv, Scans, Tick
  PROVE  Scans'
  <1>1. UNCHANGED message /\ UNCHANGED report /\ NoReturn
    BY DEF Tick, remote, observers, NoReturn, There, StillThere
  <1>2. ASSUME NEW t \in Tasks PROVE ScanKnows(call[t])'
    <2>1. DOMAIN call[t] = DOMAIN Idle /\ ScanKnows(call[t])
      BY DEF IInv, Channels, Fits, Scans
    <2>2. PICK c, d : c = call[t] /\ d = call'[t]
      OBVIOUS
    <2>3. /\ d.kind = c.kind /\ d.stayed = c.stayed /\ d.found = c.found
          /\ d.batch = c.batch /\ d.before = c.before /\ d.pc = c.pc
      BY <2>1, <2>2 DEF Tick, Idle
    <2>4. ScanKnows(d)'
      BY <1>1, <2>1, <2>2, <2>3, ScanStays
    <2> QED
      BY <2>2, <2>4 DEF ScanKnows
  <1> QED
    BY <1>1, <1>2 DEF Scans, ScanMissesNothing

LEMMA ScansNext == ASSUME IInv, Scans, [Next]_vars PROVE Scans'
  <1>1. CASE UNCHANGED vars
    BY <1>1 DEF vars, remote, observers, Scans, ScanMissesNothing, ScanKnows, Present, There
  <1>2. CASE Tick
    BY <1>2, TickScan
  <1>3. ASSUME NEW t \in Tasks, Step(t) PROVE Scans'
    <2>1. NoReturn
      BY <1>3, NothingReturns
    <2>2. \A u \in Tasks \ {t} : call'[u] = call[u]
      <3>1. \E c : To(t, c)
        BY <1>3 DEF Step, Upload, Scan, Fetch, Replace, Purge, Begin, Channel, ChannelFails, Raise,
           Serve, Fault, LoseAnswer, Retry, Forbidden, Uploaded, Keep, GiveBack, Erased, Url,
           Resolved, Downloaded, Rejected, CdnFault, Paged
      <3> QED
        BY <3>1, ToIs DEF IInv, Channels
    <2>3. CASE Paged(t)
      <3>1. ScanKnows(call[t])' /\ ScanMissesNothing'
        BY <2>3, PagedScan
      <3>2. \A u \in Tasks \ {t} : ScanKnows(call[u])'
        <4>1. UNCHANGED message
          BY <2>3 DEF Paged, remote
        <4> QED
          BY <2>2, <4>1 DEF Scans, ScanKnows, Present, There
      <3> QED
        BY <3>1, <3>2 DEF Scans
    <2>4. CASE ~Paged(t)
      <3>1. ScanKnows(call[t])' /\ UNCHANGED report
        <4>1. CASE Scan(t)
          BY <4>1, BeginScan DEF Scan, Begin, observers
        <4>2. CASE Channel(t)
          BY <2>1, <4>2, ChannelScan DEF Channel, observers
        <4>3. CASE Serve(t)
          BY <2>1, <4>3, ServeScan DEF Serve, observers
        <4>4. CASE Fault(t) \/ LoseAnswer(t) \/ CdnFault(t)
          <5>1. Retry(t) /\ call[t].pc # "answer" /\ UNCHANGED report
            BY <4>4 DEF Fault, LoseAnswer, CdnFault, Requests
          <5> QED
            BY <2>1, <5>1, RetryScan
        <4> QED
          BY <1>3, <2>4, <4>1, <4>2, <4>3, <4>4, OtherScan DEF Step
      <3> QED
        BY <2>1, <2>2, <3>1, ScanMoves
    <2> QED
      BY <2>3, <2>4
  <1> QED
    BY <1>1, <1>2, <1>3 DEF Next

-----------------------------------------------------------------------------
(* The theorems.                                                           *)

LEMMA InitInv == Init => IInv
  <1> SUFFICES ASSUME Init PROVE IInv
    OBVIOUS
  <1>1. Numbered
    <2>1. 0 \in 0 .. MaxMessages /\ \A m \in Ids : message[m] # "unused" <=> m <= 0
      BY IdsAre DEF Init
    <2> QED
      BY <2>1 DEF Numbered
  <1>2. \A t \in Tasks : call[t] = Idle
    BY DEF Init
  <1>3. Apart /\ \A t \in Tasks : Fits(call[t]) /\ Knows(call[t])
    BY <1>2, IdleFits DEF Apart, Working
  <1>4. Present = {}
    BY DEF Init, Present, There
  <1> QED
    BY <1>1, <1>3, <1>4
    DEF Init, IInv, Channels, States, KeptIsWhole, OrphansHaveACause, StaleUrlsAreResolvedAgain

LEMMA IInvNext == ASSUME IInv, [Next]_vars PROVE IInv'
  <1>1. CASE UNCHANGED vars
    BY <1>1 DEF vars, remote, observers, IInv, Channels, Numbered, Apart, Knows, There, KeptIsWhole,
                OrphansHaveACause, InHand, Present, StaleUrlsAreResolvedAgain
  <1>2. CASE Tick
    BY <1>2, TickInv
  <1>3. ASSUME NEW t \in Tasks, Step(t) PROVE IInv'
    BY <1>3, BeginInv, ReplaceInv, ChannelInv, RefusalInv, ServeInv, FaultInv, UploadedInv,
       KeepInv, GiveBackInv, ErasedInv, UrlInv, ResolvedInv, CdnInv, PagedInv
    DEF Step
  <1> QED
    BY <1>1, <1>2, <1>3 DEF Next

LEMMA ScansInit == Init => Scans
  BY IdleKnows DEF Init, Scans, ScanMissesNothing

LEMMA Inductive == Spec => []IInv
  BY InitInv, IInvNext, PTL DEF Spec

\* Whatever is retried, lost or repeated, and however much a post stores, a chunk
\* a node refers to is on Discord in full until a purge of it deletes it.
THEOREM KeptChunksAreWhole == Spec => []KeptIsWhole
  BY Inductive, PTL DEF IInv

\* An attachment nobody refers to or works on was posted by a request whose
\* answer was lost, or is one that a delete failed on; there is no third way to
\* leave an orphan.
THEOREM NoOtherOrphans == Spec => []OrphansHaveACause
  BY Inductive, PTL DEF IInv

\* No read is refused while its attachment is there, for any life of a URL, any
\* margin and any size of the cache.
THEOREM ReadsAreServed == Spec => []StaleUrlsAreResolvedAgain
  BY Inductive, PTL DEF IInv

\* For any size of a page and any number of messages, a scan of the channel names
\* every orphan that was there all along and calls nothing missing that was,
\* whatever is posted and deleted between two of its pages.
THEOREM ScansAreComplete == Spec => []ScanMissesNothing
  <1>1. IInv /\ Scans /\ [Next]_vars => Scans'
    BY ScansNext
  <1> QED
    BY <1>1, Inductive, ScansInit, PTL DEF Spec, Scans
=============================================================================
