---------------------------- MODULE ClientProofs ----------------------------
(***************************************************************************)
(* The client, for any number of calls, clearings, payments, events and    *)
(* answers: dialogs are shown in turn, answered by those they are for and   *)
(* not left open; a card is submitted once at a time; what the user is told *)
(* of is shown; events are reported one after another; and a promotion has  *)
(* one countdown.                                                          *)
(***************************************************************************)
EXTENDS MCClient, FiniteSetTheorems, TLAPS

Used(c) == ~Is(c, "unused")
Started(c) == Is(c, "shown") \/ Is(c, "answered")

(* A call's place is in a chain that was begun, within its length.          *)
Placed ==
    \A c \in Calls : Used(c) =>
        /\ call[c].chain <= chain.no
        /\ call[c].place >= 1
        /\ call[c].chain = chain.no => call[c].place <= chain.length

(* No two calls have one place ...                                          *)
Unique ==
    \A b, c \in Calls :
        Used(b) /\ Used(c) /\ call[b].chain = call[c].chain /\ call[b].place = call[c].place
        => b = c

(* ... and no place is empty.                                               *)
Linked ==
    /\ \A c \in Calls : Used(c) /\ call[c].place > 1 =>
          \E b \in Calls : /\ Used(b) /\ call[b].chain = call[c].chain
                           /\ call[b].place + 1 = call[c].place
    /\ chain.length > 0 =>
          \E b \in Calls : /\ Used(b) /\ call[b].chain = chain.no
                           /\ call[b].place = chain.length

(* What a dialog shows and answers are calls of its kind that were started. *)
Owned ==
    \A k \in Kinds : \A c \in {dialog[k].resolve, dialog[k].shows} :
        c # NoCall => Started(c) /\ call[c].kind = k

Record == [state : {"unused", "waiting", "shown", "answered"}, kind : Kinds,
           locked : BOOLEAN, chain : Nat, place : Nat]
Element == [open : BOOLEAN, showing : BOOLEAN, hiding : BOOLEAN, opening : Nat,
            shows : Calls \cup {NoCall}, resolve : Calls \cup {NoCall}]
Displayed(d) == d.open => d.showing /\ ~d.hiding

(* The element of a call that is shown answers it.                          *)
Reaches ==
    chain.no = 0 =>
        \A c \in Calls : Is(c, "shown") =>
            /\ dialog[call[c].kind].shows = c
            /\ dialog[call[c].kind].resolve = c

IInv == /\ DialogTypeOK
        /\ Placed /\ Unique /\ Linked /\ Owned
        /\ InTurn /\ AnswerReachesCaller

(* A call is shown alone in its chain.                                      *)
LEMMA ShownAlone ==
  ASSUME IInv, NEW b \in Calls, NEW c \in Calls,
         Is(b, "shown"), Is(c, "shown"), call[b].chain = call[c].chain
  PROVE  b = c
<1>1. call[b].place \in Nat /\ call[c].place \in Nat
  BY DEF IInv, DialogTypeOK
<1>2. ~(call[b].place < call[c].place)
  BY DEF IInv, InTurn, Is
<1>3. ~(call[c].place < call[b].place)
  BY DEF IInv, InTurn, Is
<1>4. call[b].place = call[c].place
  BY <1>1, <1>2, <1>3
<1>5. QED
  BY <1>4 DEF IInv, Unique, Used, Is

(* All calls before one that may start are answered.                        *)
LEMMA StartsInTurn ==
  ASSUME IInv, NEW b \in Calls, NEW c \in Calls, Ready(c), Used(b),
         call[b].chain = call[c].chain, call[b].place < call[c].place
  PROVE  Is(b, "answered")
<1>1. call[b].place \in Nat /\ call[c].place \in Nat /\ call[b].place >= 1
  BY DEF IInv, DialogTypeOK, Placed
<1>2. PICK p \in Calls : /\ Used(p) /\ call[p].chain = call[c].chain
                         /\ call[p].place + 1 = call[c].place
  BY <1>1 DEF IInv, Linked, Used, Is, Ready
<1>3. Is(p, "answered") /\ call[p].place \in Nat
  BY <1>2 DEF IInv, DialogTypeOK, Ready, MayStart, Used
<1>4. CASE call[b].place + 1 = call[c].place
  BY <1>4 DEF Ready, MayStart, Used
<1>5. CASE call[b].place < call[p].place
  BY <1>2, <1>3, <1>5 DEF IInv, InTurn, Used
<1>6. QED
  BY <1>1, <1>2, <1>3, <1>4, <1>5

(* A call that was made takes a later state: its place stays as it is.      *)
LEMMA StateChanges ==
  ASSUME IInv, NEW c \in Calls, NEW s \in {"shown", "answered"}, Used(c),
         call' = [call EXCEPT ![c].state = s], UNCHANGED chain
  PROVE  /\ Placed' /\ Unique' /\ Linked'
         /\ \A b \in Calls : /\ call'[b].kind = call[b].kind
                             /\ call'[b].chain = call[b].chain
                             /\ call'[b].place = call[b].place
                             /\ call'[b].state = IF b = c THEN s ELSE call[b].state
         /\ call' \in [Calls -> Record]
<1>1. call \in [Calls -> Record]
  BY DEF IInv, DialogTypeOK, Record
<1>2. \A b \in Calls : /\ call'[b].kind = call[b].kind
                       /\ call'[b].chain = call[b].chain
                       /\ call'[b].place = call[b].place
                       /\ call'[b].state = IF b = c THEN s ELSE call[b].state
  BY <1>1 DEF Record
<1>3. \A b \in Calls : Used(b)' <=> Used(b)
  BY <1>2 DEF Used, Is
<1>4. Placed'
  BY <1>2, <1>3 DEF IInv, Placed
<1>5. Unique'
  BY <1>2, <1>3 DEF IInv, Unique
<1>6. Linked'
  <2>1. ASSUME NEW d \in Calls, Used(d)', call'[d].place > 1
        PROVE  \E b \in Calls : /\ Used(b)' /\ call'[b].chain = call'[d].chain
                                /\ call'[b].place + 1 = call'[d].place
    <3>1. PICK b \in Calls : /\ Used(b) /\ call[b].chain = call[d].chain
                             /\ call[b].place + 1 = call[d].place
      BY <1>2, <1>3, <2>1 DEF IInv, Linked
    <3>2. QED
      BY <1>2, <1>3, <3>1
  <2>2. ASSUME chain.length > 0
        PROVE  \E b \in Calls : /\ Used(b)' /\ call'[b].chain = chain.no
                                /\ call'[b].place = chain.length
    <3>1. PICK b \in Calls : /\ Used(b) /\ call[b].chain = chain.no
                             /\ call[b].place = chain.length
      BY <2>2 DEF IInv, Linked
    <3>2. QED
      BY <1>2, <1>3, <3>1
  <2>3. QED
    BY <2>1, <2>2 DEF Linked
<1>7. call' \in [Calls -> Record]
  BY <1>1 DEF Record
<1>8. QED
  BY <1>2, <1>4, <1>5, <1>6, <1>7

(* Opening and closing an element keeps whose it is, and it is displayed as *)
(* long as it is open.                                                      *)
LEMMA OpenAndClose ==
  ASSUME NEW d \in Element, Displayed(d)
  PROVE  /\ Open(d) \in Element /\ Displayed(Open(d))
         /\ Open(d).shows = d.shows /\ Open(d).resolve = d.resolve
         /\ Close(d) \in Element /\ Displayed(Close(d))
         /\ Close(d).shows = d.shows /\ Close(d).resolve = d.resolve
<1>1. CASE d.open
  BY <1>1 DEF Element, Displayed, Open, Close
<1>2. CASE ~d.open
  BY <1>2 DEF Element, Displayed, Open, Close
<1>3. QED
  BY <1>1, <1>2

(* The parts of the invariant about the elements alone.                     *)
LEMMA Elements ==
  IInv => /\ call \in [Calls -> Record] /\ chain \in [no : Nat, length : Nat]
          /\ dialog \in [Kinds -> Element] /\ current \in Kinds \cup {"none"}
          /\ \A k \in Kinds : Displayed(dialog[k])
          /\ Reaches /\ NoCall \notin Calls
BY DialogsAssumption DEF IInv, DialogTypeOK, Record, Element, Displayed, AnswerReachesCaller,
                         OpenIsDisplayed, Reaches

LEMMA Together ==
  ASSUME call' \in [Calls -> Record], chain' \in [no : Nat, length : Nat],
         dialog' \in [Kinds -> Element], current' \in Kinds \cup {"none"},
         \A k \in Kinds : Displayed(dialog'[k]),
         Placed', Unique', Linked', Owned', InTurn', Reaches'
  PROVE  IInv'
BY DEF IInv, DialogTypeOK, Record, Element, Displayed, AnswerReachesCaller,
       OpenIsDisplayed, Reaches

(* What a timer or clearDialogs does to an element leaves whose it is.      *)
LEMMA ElementChanges ==
  ASSUME IInv, UNCHANGED <<call, chain>>, dialog' \in [Kinds -> Element],
         current' \in Kinds \cup {"none"},
         \A k \in Kinds : /\ Displayed(dialog'[k])
                          /\ dialog'[k].shows = dialog[k].shows
                          /\ dialog'[k].resolve = dialog[k].resolve
  PROVE  IInv'
<1>1. call \in [Calls -> Record] /\ Reaches /\ chain \in [no : Nat, length : Nat]
  BY Elements
<1>2. Placed' /\ Unique' /\ Linked' /\ InTurn'
  BY DEF IInv, Placed, Unique, Linked, InTurn, Used, Is
<1>3. Owned'
  BY DEF IInv, Owned, Started, Is
<1>4. Reaches'
  BY <1>1 DEF Reaches, Is, Record
<1>5. QED
  BY <1>1, <1>2, <1>3, <1>4, Together

-----------------------------------------------------------------------------
LEMMA LineUpPreserves ==
  ASSUME IInv, NEW c \in Calls, NEW k \in Kinds, NEW locked \in BOOLEAN,
         LineUpDialog(c, k, locked)
  PROVE  IInv'
<1>1. /\ call \in [Calls -> Record] /\ chain \in [no : Nat, length : Nat]
      /\ dialog \in [Kinds -> Element] /\ current \in Kinds \cup {"none"}
      /\ \A e \in Kinds : Displayed(dialog[e])
      /\ Reaches /\ NoCall \notin Calls
  BY Elements
<1>2. /\ ~Used(c) /\ call' \in [Calls -> Record]
      /\ call'[c].chain = chain.no /\ call'[c].place = chain.length + 1
      /\ call'[c].state = "waiting"
      /\ \A b \in Calls : b # c => call'[b] = call[b]
      /\ chain' \in [no : Nat, length : Nat]
      /\ chain'.no = chain.no /\ chain'.length = chain.length + 1
      /\ UNCHANGED <<dialog, current>>
  BY <1>1 DEF LineUpDialog, Record, Used
<1>3. /\ Used(c)' /\ ~Started(c)'
      /\ \A b \in Calls : b # c => (Used(b)' <=> Used(b)) /\ (Started(b)' <=> Started(b))
  BY <1>2 DEF Used, Started, Is
<1>4. \A b \in Calls : /\ call[b].place \in Nat /\ call[b].chain \in Nat
                       /\ chain.length \in Nat /\ chain.no \in Nat
  BY <1>1 DEF Record
<1>5. Placed'
  BY <1>2, <1>3, <1>4 DEF IInv, Placed
<1>6. \A b \in Calls : b # c /\ Used(b) /\ call[b].chain = chain.no
         => call[b].place < chain.length + 1
  BY <1>4 DEF IInv, Placed
<1>7. Unique'
  BY <1>2, <1>3, <1>4, <1>6 DEF IInv, Unique
<1>8. Linked'
  <2>1. ASSUME NEW d \in Calls, Used(d)', call'[d].place > 1
        PROVE  \E b \in Calls : /\ Used(b)' /\ call'[b].chain = call'[d].chain
                                /\ call'[b].place + 1 = call'[d].place
    <3>1. CASE d = c
      <4>1. PICK b \in Calls : /\ Used(b) /\ call[b].chain = chain.no
                               /\ call[b].place = chain.length
        BY <1>2, <1>4, <2>1, <3>1 DEF IInv, Linked
      <4>2. QED
        BY <1>2, <1>3, <3>1, <4>1
    <3>2. CASE d # c
      <4>1. PICK b \in Calls : /\ Used(b) /\ call[b].chain = call[d].chain
                               /\ call[b].place + 1 = call[d].place
        BY <1>2, <1>3, <2>1, <3>2 DEF IInv, Linked
      <4>2. QED
        BY <1>2, <1>3, <3>2, <4>1
    <3>3. QED
      BY <3>1, <3>2
  <2>2. \E b \in Calls : /\ Used(b)' /\ call'[b].chain = chain'.no
                         /\ call'[b].place = chain'.length
    BY <1>2, <1>3
  <2>3. QED
    BY <2>1, <2>2 DEF Linked
<1>9. Owned'
  BY <1>1, <1>2, <1>3 DEF IInv, Owned, Element, Used, Started, Is
<1>10. InTurn'
  <2> SUFFICES ASSUME NEW a \in Calls, NEW b \in Calls,
                      call'[a].chain = call'[b].chain, call'[a].place < call'[b].place,
                      Used(a)', Started(b)'
               PROVE  Is(a, "answered")'
    BY DEF InTurn, Used, Started
  <2>1. b # c /\ Started(b) /\ Used(b)
    BY <1>3 DEF Started, Used, Is
  <2>2. a # c
    BY <1>2, <1>4, <1>6, <2>1
  <2>3. QED
    BY <1>2, <1>3, <2>1, <2>2 DEF IInv, InTurn, Used, Started, Is
<1>11. Reaches'
  BY <1>1, <1>2, <1>3 DEF Reaches, Started, Is
<1>12. QED
  BY <1>1, <1>2, <1>5, <1>7, <1>8, <1>9, <1>10, <1>11, Together

LEMMA StartPreserves ==
  ASSUME IInv, NEW c \in Calls, Start(c)
  PROVE  IInv'
<1> DEFINE k == call[c].kind
<1>1. /\ call \in [Calls -> Record] /\ chain \in [no : Nat, length : Nat]
      /\ dialog \in [Kinds -> Element] /\ \A e \in Kinds : Displayed(dialog[e])
      /\ Reaches /\ NoCall \notin Calls
  BY Elements
<1>2. /\ Is(c, "waiting") /\ Used(c) /\ Ready(c) /\ k \in Kinds
      /\ call' = [call EXCEPT ![c].state = "shown"]
      /\ dialog' = [dialog EXCEPT ![k] = Shown(@, c, k)]
      /\ current' = k /\ UNCHANGED chain
  BY <1>1 DEF Start, Ready, Used, Is, Record
<1>3. /\ Placed' /\ Unique' /\ Linked' /\ call' \in [Calls -> Record]
      /\ \A b \in Calls : /\ call'[b].kind = call[b].kind
                          /\ call'[b].chain = call[b].chain
                          /\ call'[b].place = call[b].place
                          /\ call'[b].state = IF b = c THEN "shown" ELSE call[b].state
  BY <1>2, StateChanges
<1> HIDE DEF k
<1>4. /\ Shown(dialog[k], c, k) \in Element /\ Displayed(Shown(dialog[k], c, k))
      /\ Shown(dialog[k], c, k).shows = c /\ Shown(dialog[k], c, k).resolve = c
  <2> DEFINE e == [dialog[k] EXCEPT !.shows = c, !.resolve = c]
  <2>1. dialog[k] \in Element /\ Displayed(dialog[k])
    BY <1>1, <1>2
  <2>2. e \in Element /\ Displayed(e) /\ e.shows = c /\ e.resolve = c
    BY <2>1 DEF Element, Displayed
  <2>3. CASE k = "alert"
    <3>1. Shown(dialog[k], c, k) = [e EXCEPT !.opening = @ + 1]
      BY <2>3 DEF Shown
    <3> HIDE DEF e
    <3>2. QED
      BY <2>2, <3>1 DEF Element, Displayed
  <2>4. CASE k # "alert"
    <3>1. Shown(dialog[k], c, k) = Open(e)
      BY <2>4 DEF Shown
    <3> HIDE DEF e
    <3>2. QED
      BY <2>2, <3>1, OpenAndClose
  <2>5. QED
    BY <2>3, <2>4
<1>5. /\ dialog' \in [Kinds -> Element] /\ \A e \in Kinds : Displayed(dialog'[e])
      /\ dialog'[k].shows = c /\ dialog'[k].resolve = c
      /\ \A e \in Kinds : e # k => dialog'[e] = dialog[e]
  BY <1>1, <1>2, <1>4
<1>6. \A b \in Calls : Is(b, "shown") => call[b].chain # call[c].chain
  <2> SUFFICES ASSUME NEW b \in Calls, Is(b, "shown"), call[b].chain = call[c].chain
               PROVE  FALSE
    OBVIOUS
  <2>1. b # c /\ Used(b) /\ ~Is(b, "answered") /\ ~Is(c, "answered")
    BY <1>2 DEF Is, Used
  <2>2. call[b].place \in Nat /\ call[c].place \in Nat
    BY <1>1 DEF Record
  <2>3. ~(call[b].place < call[c].place)
    BY <1>2, <2>1, StartsInTurn
  <2>4. ~(call[c].place < call[b].place)
    BY <1>2, <2>1 DEF IInv, InTurn, Used
  <2>5. call[b].place # call[c].place
    BY <1>2, <2>1 DEF IInv, Unique
  <2>6. QED
    BY <2>2, <2>3, <2>4, <2>5
<1>7. Owned'
  <2> SUFFICES ASSUME NEW e \in Kinds, NEW r \in {dialog'[e].resolve, dialog'[e].shows},
                      r # NoCall
               PROVE  call'[r].state \in {"shown", "answered"}
                      /\ call'[r].kind = e
    BY DEF Owned, Started, Is
  <2>1. CASE e = k
    BY <1>3, <1>5, <2>1 DEF Started, Is, k
  <2>2. CASE e # k
    <3>1. r \in {dialog[e].resolve, dialog[e].shows} /\ r \in Calls
      BY <1>1, <1>5, <2>2 DEF Element
    <3>2. Started(r) /\ call[r].kind = e
      BY <3>1 DEF IInv, Owned
    <3>3. QED
      BY <1>3, <3>1, <3>2 DEF Started, Is
  <2>3. QED
    BY <2>1, <2>2
<1>8. InTurn'
  <2> SUFFICES ASSUME NEW a \in Calls, NEW b \in Calls,
                      call[a].chain = call[b].chain, call[a].place < call[b].place,
                      Used(a)', Started(b)'
               PROVE  Is(a, "answered")'
    BY <1>3 DEF InTurn, Used, Started
  <2>1. Used(a)
    BY <1>2, <1>3 DEF Used, Is
  <2>2. Is(a, "answered")
    <3>1. CASE b = c
      BY <1>2, <2>1, <3>1, StartsInTurn
    <3>2. CASE b # c
      BY <1>3, <2>1, <3>2 DEF IInv, InTurn, Used, Started, Is
    <3>3. QED
      BY <3>1, <3>2
  <2>3. QED
    BY <1>2, <1>3, <2>2 DEF Is
<1>9. Reaches'
  <2> SUFFICES ASSUME chain.no = 0, NEW b \in Calls, Is(b, "shown")'
               PROVE  /\ dialog'[call[b].kind].shows = b
                      /\ dialog'[call[b].kind].resolve = b
    BY <1>2, <1>3 DEF Reaches
  <2>1. CASE b = c
    BY <1>5, <2>1 DEF k
  <2>2. CASE b # c
    <3>1. Is(b, "shown") /\ Used(b)
      BY <1>3, <2>2 DEF Is, Used
    <3>2. call[b].chain = 0 /\ call[c].chain = 0
      BY <1>1, <1>2, <3>1 DEF IInv, Placed, Record
    <3>3. QED
      BY <1>6, <3>1, <3>2
  <2>3. QED
    BY <2>1, <2>2
<1>10. QED
  BY <1>1, <1>2, <1>3, <1>5, <1>7, <1>8, <1>9, Together

LEMMA ResolvePreserves ==
  ASSUME IInv, NEW k \in Kinds, Resolve(k)
  PROVE  IInv'
<1> DEFINE c == dialog[k].resolve
           kept == IF k = "generator" THEN c ELSE NoCall
           d == [Close(dialog[k]) EXCEPT !.resolve = kept]
<1>1. /\ call \in [Calls -> Record] /\ chain \in [no : Nat, length : Nat]
      /\ dialog \in [Kinds -> Element] /\ current \in Kinds \cup {"none"}
      /\ \A e \in Kinds : Displayed(dialog[e])
      /\ Reaches /\ NoCall \notin Calls
  BY Elements
<1>2. /\ call' = IF c = NoCall THEN call ELSE [call EXCEPT ![c].state = "answered"]
      /\ dialog' = [dialog EXCEPT ![k] = d]
      /\ UNCHANGED <<chain, current>>
  BY DEF Resolve
<1>3. d \in Element /\ Displayed(d) /\ d.shows = dialog[k].shows /\ d.resolve \in {c, NoCall}
  <2>1. /\ Close(dialog[k]) \in Element /\ Displayed(Close(dialog[k]))
        /\ Close(dialog[k]).shows = dialog[k].shows /\ Close(dialog[k]).resolve = c
    BY <1>1, OpenAndClose
  <2>2. QED
    BY <2>1 DEF Element, Displayed
<1>4. c \in Calls \cup {NoCall}
  BY <1>1 DEF Element
<1> HIDE DEF c, d, kept
<1>5. /\ dialog' \in [Kinds -> Element] /\ \A e \in Kinds : Displayed(dialog'[e])
      /\ dialog'[k] = d /\ \A e \in Kinds : e # k => dialog'[e] = dialog[e]
  BY <1>1, <1>2, <1>3
<1>6. c # NoCall => c \in Calls /\ Started(c) /\ Used(c) /\ call[c].kind = k
  BY <1>4 DEF IInv, Owned, Started, Used, Is, c
<1>7. /\ Placed' /\ Unique' /\ Linked' /\ call' \in [Calls -> Record]
      /\ \A b \in Calls : /\ call'[b].kind = call[b].kind
                          /\ call'[b].chain = call[b].chain
                          /\ call'[b].place = call[b].place
                          /\ call'[b].state = IF b = c THEN "answered" ELSE call[b].state
  <2>1. CASE c = NoCall
    BY <1>1, <1>2, <2>1 DEF IInv, Placed, Unique, Linked, Used, Is
  <2>2. CASE c # NoCall
    BY <1>2, <1>6, <2>2, StateChanges
  <2>3. QED
    BY <2>1, <2>2
<1>8. \A b \in Calls : /\ Used(b)' <=> Used(b)
                       /\ Started(b)' <=> Started(b)
                       /\ Is(b, "answered") => Is(b, "answered")'
  BY <1>1, <1>6, <1>7 DEF Used, Started, Is
<1>9. Owned'
  <2> SUFFICES ASSUME NEW e \in Kinds, NEW r \in {dialog'[e].resolve, dialog'[e].shows},
                      r # NoCall
               PROVE  call'[r].state \in {"shown", "answered"}
                      /\ call'[r].kind = e
    BY DEF Owned, Started, Is
  <2>1. r \in {dialog[e].resolve, dialog[e].shows}
    BY <1>3, <1>5 DEF c
  <2>2. r \in Calls
    BY <1>1, <2>1 DEF Element
  <2>3. Started(r) /\ call[r].kind = e
    BY <2>1 DEF IInv, Owned
  <2>4. QED
    BY <1>7, <2>2, <2>3 DEF Started, Is
<1>10. InTurn'
  <2> SUFFICES ASSUME NEW a \in Calls, NEW b \in Calls,
                      call[a].chain = call[b].chain, call[a].place < call[b].place,
                      Used(a)', Started(b)'
               PROVE  Is(a, "answered")'
    BY <1>7 DEF InTurn, Used, Started
  <2>1. QED
    BY <1>8 DEF IInv, InTurn, Used, Started
<1>11. Reaches'
  <2> SUFFICES ASSUME chain.no = 0, NEW b \in Calls, Is(b, "shown")'
               PROVE  /\ dialog'[call[b].kind].shows = b
                      /\ dialog'[call[b].kind].resolve = b
    BY <1>2, <1>7 DEF Reaches
  <2>1. Is(b, "shown") /\ b # c
    BY <1>7 DEF Is
  <2>2. dialog[call[b].kind].shows = b /\ dialog[call[b].kind].resolve = b
    BY <1>1, <2>1 DEF Reaches
  <2>3. call[b].kind \in Kinds /\ call[b].kind # k
    BY <1>1, <2>1, <2>2 DEF Record, c
  <2>4. QED
    BY <1>5, <2>2, <2>3
<1>12. QED
  BY <1>1, <1>2, <1>5, <1>7, <1>9, <1>10, <1>11, Together

LEMMA OpenAlertPreserves ==
  ASSUME IInv, NEW k \in Kinds, OpenAlert(k)
  PROVE  IInv'
<1> DEFINE d == [Open(dialog[k]) EXCEPT !.opening = dialog[k].opening - 1]
<1>1. /\ dialog \in [Kinds -> Element] /\ current \in Kinds \cup {"none"}
      /\ \A e \in Kinds : Displayed(dialog[e])
  BY Elements
<1>2. /\ Open(dialog[k]) \in Element /\ Displayed(Open(dialog[k]))
      /\ Open(dialog[k]).shows = dialog[k].shows
      /\ Open(dialog[k]).resolve = dialog[k].resolve
  BY <1>1, OpenAndClose
<1>3. dialog[k].opening \in Nat /\ dialog[k].opening > 0
  BY <1>1 DEF OpenAlert, Element
<1>4. d \in Element /\ Displayed(d) /\ d.shows = dialog[k].shows /\ d.resolve = dialog[k].resolve
  BY <1>2, <1>3 DEF Element, Displayed
<1>5. dialog' = [dialog EXCEPT ![k] = d] /\ UNCHANGED <<call, chain, current>>
  BY DEF OpenAlert
<1> HIDE DEF d
<1>6. QED
  BY <1>1, <1>4, <1>5, ElementChanges

LEMMA HidePreserves ==
  ASSUME IInv, NEW k \in Kinds, Hide(k)
  PROVE  IInv'
<1> DEFINE d == [dialog[k] EXCEPT !.showing = FALSE, !.hiding = FALSE]
<1>1. /\ dialog \in [Kinds -> Element] /\ current \in Kinds \cup {"none"}
      /\ \A e \in Kinds : Displayed(dialog[e])
  BY Elements
<1>2. d \in Element /\ Displayed(d) /\ d.shows = dialog[k].shows /\ d.resolve = dialog[k].resolve
  BY <1>1 DEF Hide, Element, Displayed
<1>3. dialog' = [dialog EXCEPT ![k] = d] /\ UNCHANGED <<call, chain, current>>
  BY <1>1 DEF Hide, Element
<1> HIDE DEF d
<1>4. QED
  BY <1>1, <1>2, <1>3, ElementChanges

LEMMA ClearPreserves ==
  ASSUME IInv, ClearDialogs
  PROVE  IInv'
<1>1. /\ call \in [Calls -> Record] /\ chain \in [no : Nat, length : Nat]
      /\ dialog \in [Kinds -> Element] /\ current \in Kinds \cup {"none"}
      /\ \A e \in Kinds : Displayed(dialog[e])
  BY Elements
<1>2. /\ dialog' = IF current \in {"none", "generator"} THEN dialog
                   ELSE [dialog EXCEPT ![current] = Close(@)]
      /\ chain' = [no |-> chain.no + 1, length |-> 0]
      /\ UNCHANGED <<call, current>>
  BY DEF ClearDialogs
<1>3. /\ dialog' \in [Kinds -> Element]
      /\ \A k \in Kinds : /\ Displayed(dialog'[k])
                           /\ dialog'[k].resolve = dialog[k].resolve
                           /\ dialog'[k].shows = dialog[k].shows
  <2>1. CASE current \in {"none", "generator"}
    BY <1>1, <1>2, <2>1
  <2>2. CASE current \notin {"none", "generator"}
    <3>1. current \in Kinds
      BY <1>1, <2>2
    <3>2. /\ Close(dialog[current]) \in Element /\ Displayed(Close(dialog[current]))
          /\ Close(dialog[current]).resolve = dialog[current].resolve
          /\ Close(dialog[current]).shows = dialog[current].shows
      BY <1>1, <3>1, OpenAndClose
    <3>3. QED
      BY <1>1, <1>2, <2>2, <3>1, <3>2
  <2>3. QED
    BY <2>1, <2>2
<1>4. Placed'
  BY <1>1, <1>2 DEF IInv, Placed, Used, Is, Record
<1>5. Unique' /\ Linked' /\ InTurn'
  BY <1>2 DEF IInv, Unique, Linked, InTurn, Used, Is
<1>6. Owned'
  BY <1>2, <1>3 DEF IInv, Owned, Started, Is
<1>7. Reaches'
  BY <1>1, <1>2 DEF Reaches
<1>8. chain' \in [no : Nat, length : Nat]
  BY <1>1, <1>2
<1>9. QED
  BY <1>1, <1>2, <1>3, <1>4, <1>5, <1>6, <1>7, <1>8, Together

LEMMA StepPreserves ==
  ASSUME IInv, [DialogNext]_dialogVars
  PROVE  IInv'
<1>1. CASE UNCHANGED dialogVars
  <2>1. UNCHANGED <<call, chain>> /\ UNCHANGED <<dialog, current>>
    BY <1>1 DEF dialogVars
  <2>2. QED
    BY <2>1, Elements, ElementChanges
<1>2. ASSUME NEW c \in Calls, Start(c) PROVE IInv'
  BY <1>2, StartPreserves
<1>3. ASSUME NEW k \in Kinds, OpenAlert(k) \/ Hide(k) \/ Dismiss(k) \/ Press(k) PROVE IInv'
  BY <1>3, OpenAlertPreserves, HidePreserves, ResolvePreserves DEF Dismiss, Press
<1>4. CASE ClearDialogs
  BY <1>4, ClearPreserves
<1>5. ASSUME NEW c \in NewCall, NEW k \in Kinds, NEW locked \in BOOLEAN,
             LineUpDialog(c, k, locked)
      PROVE  IInv'
  <2>1. c \in Calls
    BY DEF NewCall
  <2>2. QED
    BY <1>5, <2>1, LineUpPreserves
<1>6. QED
  BY <1>1, <1>2, <1>3, <1>4, <1>5 DEF DialogNext, DialogEvent

LEMMA InitHolds == DialogInit => IInv
<1> SUFFICES ASSUME DialogInit PROVE IInv
  OBVIOUS
<1>1. /\ \A c \in Calls : call[c] = Unused /\ ~Used(c) /\ ~Started(c)
      /\ \A k \in Kinds : dialog[k] = Closed
      /\ chain = [no |-> 0, length |-> 0]
  BY DEF DialogInit, Unused, Used, Started, Is
<1>2. DialogTypeOK
  BY DEF DialogInit, DialogTypeOK, Unused, Closed, Kinds
<1>3. Placed /\ Unique /\ Linked
  BY <1>1 DEF Placed, Unique, Linked
<1>4. Owned
  BY <1>1 DEF Owned, Closed
<1>5. InTurn
  BY <1>1 DEF InTurn, Used
<1>6. AnswerReachesCaller
  BY <1>1 DEF AnswerReachesCaller, OpenIsDisplayed, Started, Closed
<1>7. QED
  BY <1>2, <1>3, <1>4, <1>5, <1>6 DEF IInv

LEMMA Invariance == DialogSpec => []IInv
<1>1. IInv /\ [DialogNext]_dialogVars => IInv'
  BY StepPreserves
<1>2. QED
  BY <1>1, InitHolds, PTL DEF DialogSpec

-----------------------------------------------------------------------------
(* cloud-dashboard.js:19891-19899: dialogs are shown in the order they were *)
(* asked for, each when those before it are answered.                       *)
THEOREM DialogsInTurn == DialogSpec => []InTurn
<1>1. IInv => InTurn
  BY DEF IInv
<1>2. QED
  BY <1>1, Invariance, PTL

(* cloud-dashboard.js:19890,19189-19194: the answer of an element goes to   *)
(* the call it shows, and an element that is open is displayed.             *)
THEOREM AnswersReachCallers == DialogSpec => []AnswerReachesCaller
<1>1. IInv => AnswerReachesCaller
  BY DEF IInv
<1>2. QED
  BY <1>1, Invariance, PTL

(* An answered call is not left open, but by the timer of its alert.        *)
LEMMA NotLeftOpen ==
  ASSUME IInv, [DialogNext]_dialogVars, NEW k \in Kinds, Leftover(k)',
         ~(dialog[k].opening > 0)
  PROVE  Leftover(k)
<1>1. /\ call \in [Calls -> Record] /\ dialog \in [Kinds -> Element] /\ NoCall \notin Calls
      /\ current \in Kinds \cup {"none"}
  BY Elements
<1>2. /\ dialog'[k].open /\ dialog'[k].shows # NoCall
      /\ call'[dialog'[k].shows].state = "answered"
  BY DEF Leftover, Is
<1>a. dialog[k].shows # NoCall => /\ dialog[k].shows \in Calls
                                  /\ Started(dialog[k].shows)
                                  /\ call[dialog[k].shows].kind = k
  BY <1>1 DEF Element, IInv, Owned
<1>3. ASSUME dialog[k].open, dialog'[k].shows = dialog[k].shows,
             \A c \in Calls : Started(c) /\ call'[c].state = "answered" /\ call[c].kind = k
                => Is(c, "answered")
      PROVE  Leftover(k)
  BY <1>2, <1>3, <1>a DEF Leftover
<1>4. CASE UNCHANGED dialogVars
  BY <1>4, <1>2 DEF dialogVars, Leftover, Is
<1>5. ASSUME NEW c \in Calls, NEW j \in Kinds, NEW locked \in BOOLEAN,
             LineUpDialog(c, j, locked)
      PROVE  Leftover(k)
  <2>1. dialog' = dialog /\ \A b \in Calls : call'[b] = call[b] \/ call'[b].state = "waiting"
    BY <1>1, <1>5 DEF LineUpDialog
  <2>2. QED
    BY <1>2, <1>3, <2>1 DEF Is
<1>6. ASSUME NEW c \in Calls, Start(c) PROVE Leftover(k)
  <2> DEFINE j == call[c].kind
  <2>1. /\ call' = [call EXCEPT ![c].state = "shown"] /\ j \in Kinds
        /\ dialog' = [dialog EXCEPT ![j] = Shown(@, c, j)]
    BY <1>1, <1>6 DEF Start, Record
  <2>2. \A b \in Calls : call'[b].state = "answered" => Is(b, "answered")
    BY <1>1, <2>1 DEF Is, Record
  <2>3. Shown(dialog[j], c, j).shows = c
    BY <1>1, <2>1 DEF Shown, Open, Element
  <2>4. j # k
    <3>1. j = k => dialog'[k].shows = c
      BY <1>1, <2>1, <2>3
    <3>2. call'[c].state = "shown"
      BY <1>1, <2>1 DEF Record
    <3>3. QED
      BY <1>2, <3>1, <3>2
  <2> HIDE DEF j
  <2>5. dialog'[k] = dialog[k]
    BY <1>1, <2>1, <2>4
  <2>6. QED
    BY <1>2, <1>3, <2>2, <2>5
<1>7. ASSUME NEW j \in Kinds, OpenAlert(j) \/ Hide(j) PROVE Leftover(k)
  <2>1. call' = call
    BY <1>7 DEF OpenAlert, Hide
  <2>2. dialog[k].open /\ dialog'[k].shows = dialog[k].shows
    <3>1. CASE OpenAlert(j)
      <4>1. dialog'[k] = dialog[k]
        BY <1>1, <3>1 DEF OpenAlert
      <4>2. QED
        BY <1>2, <4>1
    <3>2. CASE Hide(j)
      BY <1>1, <1>2, <3>2 DEF Hide, Element
    <3>3. QED
      BY <1>7, <3>1, <3>2
  <2>3. QED
    BY <1>3, <2>1, <2>2 DEF Is
<1>8. ASSUME NEW j \in Kinds, Resolve(j) PROVE Leftover(k)
  <2> DEFINE c == dialog[j].resolve
             d == [Close(dialog[j]) EXCEPT
                     !.resolve = IF j = "generator" THEN c ELSE NoCall]
  <2>1. /\ call' = IF c = NoCall THEN call ELSE [call EXCEPT ![c].state = "answered"]
        /\ dialog' = [dialog EXCEPT ![j] = d]
    BY <1>8 DEF Resolve
  <2>2. ~d.open
    BY <1>1 DEF Close, Element
  <2> HIDE DEF d
  <2>3. j # k
    BY <1>1, <1>2, <2>1, <2>2
  <2>4. dialog'[k] = dialog[k]
    BY <1>1, <2>1, <2>3
  <2>5. c # NoCall => c \in Calls /\ call[c].kind = j
    BY <1>1 DEF Element, IInv, Owned
  <2> HIDE DEF c
  <2>6. \A b \in Calls : call[b].kind = k => call'[b] = call[b]
    BY <1>1, <2>1, <2>3, <2>5
  <2>7. QED
    BY <1>2, <1>3, <2>4, <2>6 DEF Is
<1>9. CASE ClearDialogs
  <2>1. dialog'[k] \in {dialog[k], Close(dialog[k])} /\ call' = call
    BY <1>1, <1>9 DEF ClearDialogs
  <2>2. dialog[k].open /\ dialog'[k].shows = dialog[k].shows
    BY <1>1, <1>2, <2>1 DEF Close, Element
  <2>3. QED
    BY <1>3, <2>1, <2>2 DEF Is
<1>10. QED
  BY <1>4, <1>5, <1>6, <1>7, <1>8, <1>9
     DEF DialogNext, DialogEvent, Dismiss, Press, NewCall

(* cloud-dashboard.js:19534-19541,19774-19787: no answered dialog is left   *)
(* open but an alert answered by a key before its timer opens it.           *)
THEOREM AnsweredAreClosed == DialogSpec => AnsweredIsClosed
<1> DEFINE Closes == \A k \in Kinds : Leftover(k)' => Leftover(k) \/ dialog[k].opening > 0
<1>1. IInv /\ [DialogNext]_dialogVars => [Closes]_dialogVars
  BY NotLeftOpen
<1>2. QED
  BY <1>1, Invariance, PTL DEF DialogSpec, AnsweredIsClosed

-----------------------------------------------------------------------------
(* The account page asks for dialogs as any page may.                       *)
LEMMA PageDialogs ==
  ASSUME DashNext PROVE [DialogNext]_dialogVars
<1>1. ASSUME NEW k \in {"alert", "prompt"}, NEW c \in NewCall, LineUpDialog(c, k, FALSE)
      PROVE  DialogNext
  BY <1>1 DEF DialogNext, Kinds
<1>2. ASSUME NEW k \in {"alert", "prompt"}, NEW what, Ask(k, what) PROVE DialogNext
  BY <1>1, <1>2 DEF Ask
<1>3. CASE Reaction
  BY <1>3 DEF Reaction, Confirmed, NotConfirmed, CloseWindow
<1>4. CASE Idle /\ DashEvent
  <2>1. ASSUME NEW p \in net.posts, Answer(p) PROVE DialogNext \/ UNCHANGED dialogVars
    BY <1>1, <1>2, <2>1 DEF Answer, TokenRefused, TokenCreated, Served, SubscribeDone,
       SubscribeFailed, Reactivated, NotReactivated, DeleteDone, DeleteFailed
  <2>2. ASSUME NEW r \in view.refreshes, RefreshServed(r) \/ RefreshDone(r) \/ RefreshFailed(r)
        PROVE  UNCHANGED dialogVars
    BY <2>2 DEF RefreshServed, RefreshDone, RefreshFailed
  <2>3. QED
    BY <1>2, <1>4, <2>1, <2>2 DEF DashEvent, ShowPayment, StripeLoaded, DismissPayment,
       HidePayment, SubmitCard, Reactivate, DeleteAccount, ButtonTimer, HideNote, NoteTimer
<1>5. CASE DashDialogs
  <2>1. ASSUME NEW c \in Calls, Start(c) PROVE DialogNext
    BY <2>1 DEF DialogNext
  <2>2. ASSUME Idle, NEW k \in {"alert", "prompt"},
               OpenAlert(k) \/ Hide(k) \/ Dismiss(k) \/ Press(k)
        PROVE  DialogNext
    BY <2>2 DEF DialogNext, DialogEvent, Idle, Kinds
  <2>3. QED
    BY <1>5, <2>1, <2>2 DEF DashDialogs
<1>6. QED
  BY <1>3, <1>4, <1>5 DEF DashNext

(* cloud-dashboard.js:20572-20660: whatever the client does, its dialogs are *)
(* used as Dialogs describes, so its theorems hold of the account page.     *)
THEOREM ClientUsesDialogs == SafeSpec => DialogSpec
<1>1. Init => DialogInit
  BY DEF Init
<1>2. [Next]_vars => [DialogNext]_dialogVars
  <2>1. ASSUME InDialogs(DialogNext) PROVE DialogNext
    BY <2>1 DEF InDialogs
  <2>2. ASSUME InPage(DashNext) PROVE [DialogNext]_dialogVars
    BY <2>2, PageDialogs DEF InPage
  <2>3. ASSUME InTracking(TrackNext) \/ InPromo(PromoNext) \/ UNCHANGED vars
        PROVE  UNCHANGED dialogVars
    BY <2>3 DEF InTracking, InPromo, vars, dashVars
  <2>4. QED
    BY <2>1, <2>2, <2>3 DEF Next
<1>3. QED
  BY <1>1, <1>2, PTL DEF SafeSpec, DialogSpec

-----------------------------------------------------------------------------
(* The account page by itself, whatever its dialogs do.                     *)
PageSpec == DashInit /\ [][DashNext]_pageVars

LEMMA ClientShowsPage == SafeSpec => PageSpec
<1>1. Init => DashInit
  BY DEF Init
<1>2. [Next]_vars => [DashNext]_pageVars
  BY DEF Next, InDialogs, InPage, InTracking, InPromo, vars, dashVars
<1>3. QED
  BY <1>1, <1>2, PTL DEF SafeSpec, PageSpec

LEMMA ClientTracks == SafeSpec => TrackSpec
<1>1. Init => TrackInit
  BY DEF Init
<1>2. [Next]_vars => [TrackNext]_trackVars
  BY DEF Next, InDialogs, InPage, InTracking, InPromo, vars
<1>3. QED
  BY <1>1, <1>2, PTL DEF SafeSpec, TrackSpec

LEMMA ClientPromotes == SafeSpec => PromoSpec
<1>1. Init => PromoInit
  BY DEF Init
<1>2. [Next]_vars => [PromoNext]_promoVars
  BY DEF Next, InDialogs, InPage, InTracking, InPromo, vars
<1>3. QED
  BY <1>1, <1>2, PTL DEF SafeSpec, PromoSpec

-----------------------------------------------------------------------------
(* cloud-dashboard.js:20259-20268: a promotion has one countdown, or none.  *)
LEMMA PromoCounts == PromoSpec => []OneCountdown
<1>1. PromoInit => OneCountdown
  BY DEF PromoInit, OneCountdown, NoPromo
<1>2. ASSUME OneCountdown, [PromoNext]_promoVars PROVE OneCountdown'
  <2>1. ASSUME NEW a, Computed(a) PROVE OneCountdown'
    BY <2>1 DEF Computed, SetupCountdown, GetPromo, NoPromo, OneCountdown
  <2>2. ASSUME Clock \/ UNCHANGED promoVars PROVE OneCountdown'
    BY <1>2, <2>2 DEF Clock, promoVars, OneCountdown
  <2>3. QED
    BY <1>2, <2>1, <2>2 DEF PromoNext, AccountChanged, Countdown
<1>3. QED
  BY <1>1, <1>2, PTL DEF PromoSpec

-----------------------------------------------------------------------------
(* A set without two different members has at most one.                     *)
LEMMA AtMostOne ==
  ASSUME NEW S, \A a, b \in S : a = b PROVE Cardinality(S) <= 1
<1>1. CASE S = {}
  BY <1>1, FS_EmptySet
<1>2. CASE S # {}
  <2>1. PICK a : S = {a}
    BY <1>2
  <2>2. QED
    BY <2>1, FS_Singleton
<1>3. QED
  BY <1>1, <1>2

(* Tracking: as long as no event brings an email, the calls of track form   *)
(* one chain.  Its links have positions: each is linked to the one before,  *)
(* ready is the last, and those before one that was sent are done.          *)
Made(e) == event[e].state # "none"
Sent(e) == event[e].state \in {"sent", "done"}
Done(e) == event[e].state = "done"
NoEmail == \A e \in Events : event[e].after # "email"

LinkedAt(pos) ==
    \A e \in Events : Made(e) =>
        IF event[e].after = NoEvent THEN pos[e] = 1
        ELSE /\ event[e].after \in Events /\ Made(event[e].after)
             /\ pos[event[e].after] + 1 = pos[e]
EndsAt(pos) == \A e \in Events : Made(e) => ready \in Events /\ 1 <= pos[e] /\ pos[e] <= pos[ready]
Apart(pos) == \A a, b \in Events : Made(a) /\ Made(b) /\ pos[a] = pos[b] => a = b
SentInTurn(pos) == \A a, b \in Events : Made(a) /\ Sent(b) /\ pos[a] < pos[b] => Done(a)

Chained(pos) == LinkedAt(pos) /\ EndsAt(pos) /\ Apart(pos) /\ SentInTurn(pos)
OneChain == \E pos \in [Events -> Nat] : Chained(pos)

Event == [state : {"none", "called", "sent", "done"}, after : Links, id : Events \cup {NoID}]

Starting == started \in {"init", "loading"}
TrackTypes ==
    /\ event \in [Events -> Event] /\ tracking \in Events \cup {NoID}
    /\ ready \in Events \cup {NoEvent} /\ (ready # NoEvent => Made(ready))
    /\ Starting => ~Made(Install)
    /\ \A e \in Events : ~Made(e) => event[e].after = NoEvent

TrackInv == TrackTypes /\ (NoEmail => OneChain)

(* One more call at the end of the chain.                                   *)
LEMMA CallChained ==
  ASSUME TrackInv, NEW e \in Events, ~Made(e), NEW id \in Events \cup {NoID}, Called(e, id),
         NoEmail'
  PROVE  OneChain'
<1>1. /\ event \in [Events -> Event] /\ ready \in Events \cup {NoEvent}
      /\ ready # NoEvent => Made(ready)
      /\ ready' = e /\ event'[e].state = "called" /\ event'[e].after = ready
      /\ \A f \in Events : f # e => event'[f] = event[f]
  BY DEF TrackInv, TrackTypes, Called
<1>2. NoEmail
  BY <1>1, TrackingAssumption DEF TrackInv, TrackTypes, NoEmail, Made
<1>3. PICK pos \in [Events -> Nat] : Chained(pos)
  BY <1>2 DEF TrackInv, OneChain
<1>a. PICK last \in Nat : /\ ready = NoEvent => last = 0
                          /\ ready # NoEvent => pos[ready] = last
  BY <1>1
<1>b. PICK q : q = [pos EXCEPT ![e] = last + 1]
  OBVIOUS
<1>4. /\ q \in [Events -> Nat] /\ q[e] = last + 1
      /\ \A f \in Events : f # e => q[f] = pos[f] /\ pos[f] \in Nat
  BY <1>b
<1>5. /\ Made(e)' /\ ~Sent(e)'
      /\ \A f \in Events : f # e => /\ Made(f)' <=> Made(f)
                                    /\ Sent(f)' <=> Sent(f)
                                    /\ Done(f)' <=> Done(f)
  BY <1>1 DEF Made, Sent, Done
<1>6. \A f \in Events : f # e /\ Made(f) => ready \in Events /\ 1 <= pos[f] /\ pos[f] <= last
  BY <1>1, <1>3, <1>a, <1>4, TrackingAssumption DEF Chained, EndsAt
<1>7. LinkedAt(q)'
  <2> SUFFICES ASSUME NEW f \in Events, Made(f)'
               PROVE  IF event'[f].after = NoEvent THEN q[f] = 1
                      ELSE /\ event'[f].after \in Events /\ Made(event[f].after)'
                           /\ q[event'[f].after] + 1 = q[f]
    BY DEF LinkedAt
  <2>1. CASE f = e
    BY <1>1, <1>a, <1>4, <1>5, <2>1
  <2>2. CASE f # e
    <3>1. IF event[f].after = NoEvent THEN pos[f] = 1
          ELSE /\ event[f].after \in Events /\ Made(event[f].after)
               /\ pos[event[f].after] + 1 = pos[f]
      BY <1>3, <1>5, <2>2 DEF Chained, LinkedAt
    <3>2. event'[f] = event[f]
      BY <1>1, <2>2
    <3>3. QED
      BY <1>4, <1>5, <2>2, <3>1, <3>2
  <2>3. QED
    BY <2>1, <2>2
<1>8. EndsAt(q)'
  BY <1>1, <1>4, <1>5, <1>6 DEF EndsAt
<1>9. Apart(q)'
  <2> SUFFICES ASSUME NEW a \in Events, NEW b \in Events, Made(a)', Made(b)', q[a] = q[b]
               PROVE  a = b
    BY DEF Apart
  <2>1. CASE a = e \/ b = e
    BY <1>4, <1>5, <1>6, <2>1
  <2>2. CASE a # e /\ b # e
    BY <1>3, <1>4, <1>5, <2>2 DEF Chained, Apart
  <2>3. QED
    BY <2>1, <2>2
<1>10. SentInTurn(q)'
  <2> SUFFICES ASSUME NEW a \in Events, NEW b \in Events, Made(a)', Sent(b)', q[a] < q[b]
               PROVE  Done(a)'
    BY DEF SentInTurn
  <2>1. b # e /\ Made(b)
    BY <1>5 DEF Sent, Made
  <2>2. a # e
    BY <1>4, <1>6, <2>1
  <2>3. QED
    BY <1>3, <1>4, <1>5, <2>1, <2>2 DEF Chained, SentInTurn
<1>11. Chained(q)'
  BY <1>7, <1>8, <1>9, <1>10 DEF Chained
<1>12. QED
  BY <1>4, <1>11 DEF OneChain

LEMMA CallTracked ==
  ASSUME TrackInv, NEW e \in Events, ~Made(e), NEW id \in Events \cup {NoID}, Called(e, id),
         tracking' \in Events \cup {NoID}, Starting' => e # Install /\ Starting
  PROVE  TrackInv'
<1>1. event' \in [Events -> Event]
  BY DEF TrackInv, TrackTypes, Called, Event, Links
<1>2. TrackTypes'
  BY <1>1 DEF TrackInv, TrackTypes, Called, Made
<1>3. QED
  BY <1>2, CallChained DEF TrackInv

(* An event goes on: its link stays where it is, and it is posted only when *)
(* those before it are done.                                                *)
LEMMA ReportTracked ==
  ASSUME TrackInv, NEW e \in Events, NEW s \in {"sent", "done"}, Made(e),
         event' = [event EXCEPT ![e].state = s], UNCHANGED <<ready, started>>,
         tracking' \in Events \cup {NoID},
         s = "sent" => event[e].state = "called" /\ Over(event[e].after),
         s = "done" => event[e].state = "sent"
  PROVE  TrackInv'
<1>1. /\ event \in [Events -> Event] /\ event' \in [Events -> Event]
      /\ event'[e].state = s
      /\ \A f \in Events : event'[f].after = event[f].after
      /\ \A f \in Events : f # e => event'[f] = event[f]
  BY DEF TrackInv, TrackTypes, Event
<1>2. /\ \A f \in Events : Made(f)' <=> Made(f)
      /\ \A f \in Events : Done(f) => Done(f)'
      /\ \A f \in Events : f # e => (Sent(f)' <=> Sent(f))
      /\ s = "done" => Sent(e)
  BY <1>1 DEF Made, Done, Sent
<1>3. NoEmail' <=> NoEmail
  BY <1>1 DEF NoEmail
<1>4. ASSUME NoEmail PROVE OneChain'
  <2>1. PICK pos \in [Events -> Nat] : Chained(pos)
    BY <1>4 DEF TrackInv, OneChain
  <2>2. LinkedAt(pos)'
    BY <1>1, <1>2, <2>1 DEF Chained, LinkedAt
  <2>3. EndsAt(pos)' /\ Apart(pos)'
    BY <1>2, <2>1 DEF Chained, EndsAt, Apart
  <2>4. ASSUME s = "sent", NEW a \in Events, Made(a), pos[a] < pos[e] PROVE Done(a)
    <3> DEFINE p == event[e].after
    <3>1. p \in Events \cup {NoEvent} /\ Over(p)
      BY <1>1, <1>4, <2>4 DEF Event, Links, NoEmail
    <3>2. p # NoEvent
      BY <1>1, <2>1, <2>4 DEF Chained, LinkedAt, EndsAt
    <3>3. p \in Events /\ Made(p) /\ pos[p] + 1 = pos[e]
      BY <2>1, <3>2 DEF Chained, LinkedAt
    <3> HIDE DEF p
    <3>4. Done(p)
      BY <3>1, <3>2, <3>3, TrackingAssumption DEF Over, Done
    <3>5. pos[a] = pos[p] \/ pos[a] < pos[p]
      BY <2>4, <3>3
    <3>6. QED
      BY <2>1, <2>4, <3>3, <3>4, <3>5 DEF Chained, Apart, SentInTurn, Sent, Done
  <2>5. SentInTurn(pos)'
    <3> SUFFICES ASSUME NEW a \in Events, NEW b \in Events, Made(a)', Sent(b)', pos[a] < pos[b]
                 PROVE  Done(a)
      BY <1>2 DEF SentInTurn
    <3>1. CASE b = e /\ s = "sent"
      BY <1>2, <2>4, <3>1
    <3>2. CASE b # e \/ s = "done"
      BY <1>2, <2>1, <3>2 DEF Chained, SentInTurn
    <3>3. QED
      BY <3>1, <3>2
  <2>6. Chained(pos)'
    BY <2>2, <2>3, <2>5 DEF Chained
  <2>7. QED
    BY <2>6 DEF OneChain
<1>5. TrackTypes'
  BY <1>1 DEF TrackInv, TrackTypes, Starting, Made
<1>6. QED
  BY <1>3, <1>4, <1>5 DEF TrackInv

LEMMA TrackInvariance == TrackSpec => []TrackInv
<1>1. ASSUME TrackInit PROVE TrackInv
  <2>1. /\ event \in [Events -> Event]
        /\ \A e \in Events : event[e].after = NoEvent /\ ~Made(e) /\ ~Sent(e)
        /\ ready = NoEvent /\ tracking = NoID
    BY <1>1 DEF TrackInit, Event, Links, Made, Sent
  <2>2. [e \in Events |-> 0] \in [Events -> Nat] /\ Chained([e \in Events |-> 0])
    BY <2>1 DEF Chained, LinkedAt, EndsAt, Apart, SentInTurn
  <2>a. OneChain
    BY <2>2 DEF OneChain
  <2>b. TrackTypes
    BY <2>1, TrackingAssumption DEF TrackTypes, Made
  <2>3. QED
    BY <2>a, <2>b DEF TrackInv
<1>2. ASSUME TrackInv, [TrackNext]_trackVars PROVE TrackInv'
  <2>1. ASSUME NEW e \in Events, Track(e) PROVE TrackInv'
    <3>1. ~Made(e) /\ tracking \in Events \cup {NoID}
      BY <1>2, <2>1 DEF Track, Made, TrackInv, TrackTypes
    <3>2. QED
      BY <1>2, <2>1, <3>1, CallTracked DEF Track, Starting
  <2>2. ASSUME NEW e \in Events, TrackEmail(e) PROVE TrackInv'
    <3>1. event' \in [Events -> Event] /\ event'[e].after = "email"
      BY <1>2, <2>2 DEF TrackEmail, TrackInv, TrackTypes, Event, Links
    <3>2. ~NoEmail'
      BY <3>1 DEF NoEmail
    <3>3. TrackTypes'
      BY <1>2, <2>2, <3>1 DEF TrackEmail, TrackInv, TrackTypes, Starting, Made
    <3>4. QED
      BY <3>2, <3>3 DEF TrackInv
  <2>3. ASSUME NEW e \in Events, PostEvent(e) PROVE TrackInv'
    BY <1>2, <2>3, ReportTracked DEF PostEvent, TrackInv, TrackTypes, Made
  <2>4. ASSUME NEW e \in Events, Reported(e) \/ NotReported(e) PROVE TrackInv'
    <3>1. Given(e) \in Events \cup {NoID} /\ Made(e)
      BY <1>2, <2>4 DEF Given, TrackInv, TrackTypes, Event, Made, Reported, NotReported
    <3>2. QED
      BY <1>2, <2>4, <3>1, ReportTracked DEF Reported, NotReported, TrackInv, TrackTypes
  <2>5. CASE StatsLoaded
    BY <1>2, <2>5, CallTracked, TrackingAssumption
       DEF StatsLoaded, TrackInv, TrackTypes, Starting
  <2>6. CASE InitTracking \/ StatsStored \/ UNCHANGED trackVars
    <3>1. UNCHANGED <<event, ready, tracking>>
      BY <2>6 DEF InitTracking, StatsStored, trackVars
    <3>2. Starting' => Starting
      BY <2>6 DEF Starting, InitTracking, StatsStored, trackVars
    <3>3. UNCHANGED NoEmail /\ (OneChain => OneChain')
      BY <3>1 DEF NoEmail, OneChain, Chained, LinkedAt, EndsAt, Apart, SentInTurn, Made, Sent, Done
    <3>4. TrackTypes'
      BY <1>2, <3>1, <3>2 DEF TrackInv, TrackTypes, Made
    <3>5. QED
      BY <1>2, <3>3, <3>4 DEF TrackInv
  <2>7. QED
    BY <1>2, <2>1, <2>2, <2>3, <2>4, <2>5, <2>6 DEF TrackNext, Report
<1>3. QED
  BY <1>1, <1>2, PTL DEF TrackSpec

(* Two events that are under way would be one before the other.             *)
LEMMA TracksInTurn == TrackSpec => []OneAtATime
<1>1. ASSUME TrackInv PROVE OneAtATime
  <2> SUFFICES ASSUME NoEmail
               PROVE  Cardinality({e \in Events : event[e].state = "sent"}) <= 1
    BY DEF OneAtATime, NoEmail
  <2> DEFINE S == {e \in Events : event[e].state = "sent"}
  <2>1. PICK pos \in [Events -> Nat] : Chained(pos)
    BY <1>1 DEF TrackInv, OneChain
  <2>2. \A a, b \in S : a = b
    <3> SUFFICES ASSUME NEW a \in S, NEW b \in S PROVE a = b
      OBVIOUS
    <3>1. Made(a) /\ Made(b) /\ Sent(a) /\ Sent(b) /\ ~Done(a) /\ ~Done(b)
      BY DEF Made, Sent, Done
    <3>2. pos[a] = pos[b]
      BY <2>1, <3>1 DEF Chained, SentInTurn
    <3>3. QED
      BY <2>1, <3>1, <3>2 DEF Chained, Apart
  <2> HIDE DEF S
  <2>3. QED
    BY <2>2, AtMostOne DEF S
<1>2. QED
  BY <1>1, TrackInvariance, PTL

-----------------------------------------------------------------------------
(* The account page: what its parts are ...                                 *)
Page == [purpose : [Calls -> {"none", "delete", "deleted", "congratulations", "warning"}],
         button : [{"pay", "delete"} -> Buttons],
         note : BOOLEAN, timers : Nat, closed : BOOLEAN]
Payment == [open : BOOLEAN, showing : BOOLEAN, resolve : {"nobody", "buy", "update"},
            shows : Nat, submitting : BOOLEAN, threw : BOOLEAN,
            loaded : BOOLEAN, setups : Nat, cards : Nat]
Posts == [no : Nat, kind : {"card", "reactivate", "delete"},
          stage : {"token", "sent", "done"}, show : Nat, change : Nat]
Refreshes == [no : Nat, told : Nat, served : BOOLEAN, account : Nat]

PageOK == page \in Page
PayOK == pay \in Payment
NetOK == net \in [posts : SUBSET Posts, posted : Nat]
ViewOK == view \in [refreshes : SUBSET Refreshes, asked : Nat, latest : Nat,
                    account : Nat, told : Nat, toldThen : Nat]
ServerOK == server \in [changes : Nat, deleted : BOOLEAN]
PageTypes == PageOK /\ PayOK /\ NetOK /\ ViewOK /\ ServerOK

(* ... a card is under way only while the flag is set, and then the button  *)
(* has no timer that could end what it says: starting one clears the timer  *)
(* of the outcome before, so none is ever left without a handle ...         *)
CardInv ==
    /\ \A p \in net.posts : p.stage = "token" => p.kind = "card"
    /\ \A p, q \in Cards : p = q
    /\ pay.submitting => Cards # {} \/ pay.threw
    /\ Cards # {} => /\ pay.submitting
                     /\ page.button["pay"].shows = "loading" /\ ~page.button["pay"].timer
    /\ page.button["pay"].strays = 0

(* ... and the user is told of no change the server did not make, an answer *)
(* has every change that was told when its request was sent, and the last   *)
(* request was sent when all were told.                                     *)
ToldInv ==
    /\ view.told <= server.changes
    /\ \A p \in net.posts : p.change <= server.changes
    /\ \A r \in view.refreshes :
          /\ r.no <= view.asked /\ r.told <= view.told
          /\ r.no = view.asked => r.told = view.told
          /\ r.served => r.account >= r.told
    /\ view.latest <= view.asked
    /\ view.account >= view.toldThen
    /\ view.latest = view.asked => view.account >= view.told

PageInv == PageTypes /\ CardInv /\ ToldInv

LEMMA ButtonSteps ==
  ASSUME NEW b \in Buttons
  PROVE  /\ StartButton(b) \in Buttons
         /\ StartButton(b).shows = "loading" /\ ~StartButton(b).timer
         /\ StartButton(b).strays = b.strays
         /\ \A outcome \in {"success", "fail"} :
               /\ EndButton(b, outcome) \in Buttons
               /\ ~b.timer => EndButton(b, outcome).strays = b.strays
         /\ \A c \in TimedOut(b) : /\ c \in Buttons
                                   /\ b.timer \/ b.strays > 0
                                   /\ b.strays = 0 => c.strays = 0
<1>1. /\ StartButton(b) \in Buttons
      /\ StartButton(b).shows = "loading" /\ ~StartButton(b).timer
      /\ StartButton(b).strays = b.strays
  BY DEF Buttons, StartButton
<1>2. ASSUME NEW outcome \in {"success", "fail"}
      PROVE  /\ EndButton(b, outcome) \in Buttons
             /\ ~b.timer => EndButton(b, outcome).strays = b.strays
  BY <1>2 DEF Buttons, EndButton
<1>3. ASSUME NEW c \in TimedOut(b)
      PROVE  /\ c \in Buttons
             /\ b.timer \/ b.strays > 0
             /\ b.strays = 0 => c.strays = 0
  <2>1. PICK d : /\ c = StopButton(d)
                 /\ \/ b.timer /\ d = [b EXCEPT !.timer = FALSE]
                    \/ b.strays > 0 /\ d = [b EXCEPT !.strays = @ - 1]
    BY <1>3 DEF TimedOut
  <2>2. d \in Buttons /\ (b.strays = 0 => d.strays = 0)
    <3>1. CASE d = [b EXCEPT !.timer = FALSE]
      BY <3>1 DEF Buttons
    <3>2. CASE b.strays > 0 /\ d = [b EXCEPT !.strays = @ - 1]
      <4>1. b.strays \in Nat /\ b.strays - 1 \in Nat /\ b.strays # 0
        BY <3>2 DEF Buttons
      <4>2. QED
        BY <3>2, <4>1 DEF Buttons
    <3>3. QED
      BY <2>1, <3>1, <3>2
  <2>3. c \in Buttons /\ c.strays = d.strays
    BY <2>1, <2>2 DEF Buttons, StopButton
  <2>4. QED
    BY <2>1, <2>2, <2>3
<1>4. QED
  BY <1>1, <1>2, <1>3

(* What the page does besides a payment's submission and the reloading.     *)
LEMMA PageQuiet ==
  ASSUME PageInv, page' \in Page, pay' \in Payment, UNCHANGED <<net, view, server>>,
         page'.button["pay"] = page.button["pay"],
         pay'.submitting = pay.submitting, pay'.threw = pay.threw
  PROVE  PageInv'
<1>1. PageTypes'
  BY DEF PageInv, PageTypes, PageOK, PayOK, NetOK, ViewOK, ServerOK
<1>2. CardInv'
  BY DEF PageInv, CardInv, Cards
<1>3. ToldInv'
  BY DEF PageInv, ToldInv
<1>4. QED
  BY <1>1, <1>2, <1>3 DEF PageInv

(* Requests come and go, and none of them is for a card.                    *)
LEMMA CardsKept ==
  ASSUME CardInv, Cards' = Cards,
         \A p \in net'.posts : p.stage = "token" => p.kind = "card",
         page'.button["pay"] = page.button["pay"],
         pay'.submitting = pay.submitting, pay'.threw = pay.threw
  PROVE  CardInv'
BY DEF CardInv

(* The submission of a card ends.                                           *)
LEMMA CardEnds ==
  ASSUME PageInv, NEW p \in Cards, Gone(p), ~pay'.submitting,
         NEW outcome \in {"success", "fail"},
         page'.button["pay"] = EndButton(page.button["pay"], outcome)
  PROVE  CardInv'
<1>1. /\ net \in [posts : SUBSET Posts, posted : Nat] /\ page.button["pay"] \in Buttons
      /\ page.button["pay"].strays = 0 /\ ~page.button["pay"].timer
      /\ \A q \in net.posts : q.stage = "token" => q.kind = "card"
      /\ \A q \in Cards : q = p
  BY DEF PageInv, PageTypes, PageOK, Page, NetOK, CardInv
<1>2. net'.posts = net.posts \ {p}
  BY <1>1 DEF Gone
<1>3. Cards' = {}
  BY <1>1, <1>2 DEF Cards
<1>4. page'.button["pay"].strays = 0
  BY <1>1, ButtonSteps
<1>5. QED
  BY <1>1, <1>2, <1>3, <1>4 DEF CardInv

LEMMA ToldKept ==
  ASSUME PageInv, UNCHANGED view, server'.changes \in Nat, server.changes <= server'.changes,
         \A p \in net'.posts : p.change <= server'.changes
  PROVE  ToldInv'
BY DEF PageInv, PageTypes, ViewOK, ServerOK, ToldInv

LEMMA Reloads ==
  ASSUME PageInv, NEW p \in net.posts, view' = Reload(p), net'.posts \subseteq net.posts,
         UNCHANGED server
  PROVE  ViewOK' /\ ToldInv'
<1> DEFINE told == IF p.change > view.told THEN p.change ELSE view.told
           new == [no |-> view.asked + 1, told |-> told, served |-> FALSE, account |-> 0]
<1>1. /\ ViewOK /\ ServerOK /\ p \in Posts
  BY DEF PageInv, PageTypes, NetOK
<1>2. view' = [refreshes |-> view.refreshes \cup {new}, asked |-> view.asked + 1,
               latest |-> view.latest, account |-> view.account, told |-> told,
               toldThen |-> view.toldThen]
  BY <1>1 DEF Reload, Refreshed, ViewOK
<1>3. told \in Nat /\ told <= server.changes /\ view.told <= told
  BY <1>1 DEF PageInv, ToldInv, ViewOK, ServerOK, Posts
<1>4. new \in Refreshes /\ new.no = view.asked + 1 /\ new.told = told /\ ~new.served
  BY <1>1, <1>3 DEF ViewOK, Refreshes
<1> HIDE DEF new, told
<1>5. ViewOK'
  BY <1>1, <1>2, <1>3, <1>4 DEF ViewOK
<1>6. ToldInv'
  <2>1. \A r \in view.refreshes :
           /\ r \in Refreshes /\ r.no <= view.asked /\ r.told <= view.told
           /\ r.served => r.account >= r.told
    BY <1>1 DEF ViewOK, PageInv, ToldInv
  <2>2. \A r \in view'.refreshes :
           /\ r.no <= view'.asked /\ r.told <= view'.told
           /\ r.no = view'.asked => r.told = view'.told
           /\ r.served => r.account >= r.told
    BY <1>1, <1>2, <1>3, <1>4, <2>1 DEF ViewOK, Refreshes
  <2>3. QED
    BY <1>1, <1>2, <1>3, <2>2 DEF PageInv, ToldInv, ViewOK
<1>7. QED
  BY <1>5, <1>6

LEMMA PostTyped ==
  ASSUME PageInv, NEW kind \in {"card", "reactivate", "delete"},
         NEW stage \in {"token", "sent"}, Post(kind, stage)
  PROVE  /\ NetOK'
         /\ \E p \in Posts : /\ net'.posts = net.posts \cup {p}
                             /\ p.kind = kind /\ p.stage = stage /\ p.change = 0
<1> DEFINE p == [no |-> net.posted + 1, kind |-> kind, stage |-> stage,
                 show |-> pay.shows, change |-> 0]
<1>1. NetOK /\ PayOK
  BY DEF PageInv, PageTypes
<1>2. p \in Posts /\ p.kind = kind /\ p.stage = stage /\ p.change = 0
  BY <1>1 DEF NetOK, PayOK, Payment, Posts
<1>3. net' = [posted |-> net.posted + 1, posts |-> net.posts \cup {p}]
  BY DEF Post
<1> HIDE DEF p
<1>4. QED
  BY <1>1, <1>2, <1>3 DEF NetOK

LEMMA GoneTyped ==
  ASSUME PageInv, NEW p \in net.posts, Gone(p)
  PROVE  /\ NetOK' /\ net'.posts = net.posts \ {p}
         /\ \A q \in net'.posts : q \in net.posts
BY DEF PageInv, PageTypes, NetOK, Gone

(* A request goes on: it stays one of its kind.                             *)
LEMMA BecomesTyped ==
  ASSUME PageInv, NEW p \in net.posts, NEW q \in Posts, q.kind = p.kind, q.stage # "token",
         Becomes(p, q)
  PROVE  /\ NetOK' /\ net'.posts = (net.posts \ {p}) \cup {q}
         /\ UNCHANGED <<page, pay>> => CardInv'
<1>1. NetOK
  BY DEF PageInv, PageTypes
<1>2. NetOK' /\ net'.posts = (net.posts \ {p}) \cup {q}
  BY <1>1 DEF NetOK, Becomes
<1>3. ASSUME UNCHANGED <<page, pay>> PROVE CardInv'
  <2>1. \A r \in net'.posts : r.stage = "token" => r.kind = "card"
    BY <1>2 DEF PageInv, CardInv
  <2>2. CASE p.kind # "card"
    <3>1. Cards' = Cards
      BY <1>2, <2>2 DEF Cards
    <3>2. QED
      BY <1>3, <2>1, <3>1, CardsKept DEF PageInv
  <2>3. CASE p.kind = "card"
    <3>1. p \in Cards /\ Cards' = (Cards \ {p}) \cup {q}
      BY <1>2, <2>3 DEF Cards
    <3>2. Cards' = {q} /\ Cards # {}
      BY <3>1 DEF PageInv, CardInv
    <3>3. QED
      BY <1>3, <2>1, <3>2 DEF PageInv, CardInv
  <2>4. QED
    BY <2>2, <2>3
<1>4. QED
  BY <1>2, <1>3

LEMMA QuietSteps ==
  ASSUME PageInv,
         \/ \E who \in {"buy", "update"} : ShowPayment(who)
         \/ StripeLoaded \/ DismissPayment \/ HidePayment \/ DeleteAccount
         \/ \E c \in Calls : NotConfirmed(c) \/ CloseWindow(c)
         \/ HideNote \/ NoteTimer \/ ButtonTimer("delete")
  PROVE  PageInv'
<1>1. page \in Page /\ pay \in Payment /\ page.button["delete"] \in Buttons
  BY DEF PageInv, PageTypes, PageOK, PayOK, Page
<1>2. ASSUME NEW who \in {"buy", "update"}, ShowPayment(who) PROVE PageInv'
  <2> DEFINE d == [pay EXCEPT !.open = TRUE, !.showing = TRUE,
                              !.resolve = who, !.shows = @ + 1]
  <2>a. pay.shows \in Nat
    BY <1>1 DEF Payment
  <2>b. pay.shows + 1 \in Nat
    BY <2>a
  <2>1. d \in Payment /\ d.submitting = pay.submitting /\ d.threw = pay.threw
    BY <1>1, <2>b DEF Payment
  <2>2. pay' = SetUp(d) /\ UNCHANGED <<page, net, view, server>>
    BY <1>2 DEF ShowPayment
  <2> HIDE DEF d
  <2>3. pay' \in Payment /\ pay'.submitting = pay.submitting /\ pay'.threw = pay.threw
    BY <2>1, <2>2 DEF SetUp, Payment
  <2>4. QED
    BY <1>1, <2>2, <2>3, PageQuiet
<1>3. CASE StripeLoaded \/ DismissPayment \/ HidePayment
  <2>1. pay' \in Payment /\ pay'.submitting = pay.submitting /\ pay'.threw = pay.threw
    <3>1. CASE StripeLoaded
      <4>1. pay.cards + pay.setups \in Nat
        BY <1>1 DEF Payment
      <4>2. QED
        BY <1>1, <3>1, <4>1 DEF StripeLoaded, Payment
    <3>2. CASE DismissPayment
      BY <1>1, <3>2 DEF DismissPayment, Payment
    <3>3. CASE HidePayment
      BY <1>1, <3>3 DEF HidePayment, Payment
    <3>4. QED
      BY <1>3, <3>1, <3>2, <3>3
  <2>2. UNCHANGED <<page, net, view, server>>
    BY <1>3 DEF StripeLoaded, DismissPayment, HidePayment
  <2>3. QED
    BY <1>1, <2>1, <2>2, PageQuiet
<1>4. ASSUME page' \in Page, page'.button["pay"] = page.button["pay"],
             UNCHANGED <<pay, net, view, server>>
      PROVE  PageInv'
  BY <1>1, <1>4, PageQuiet
<1>5. CASE DeleteAccount
  <2>1. PICK c \in Calls : page' = [page EXCEPT !.purpose[c] = "delete"]
    BY <1>5 DEF DeleteAccount, Ask, NewCall
  <2>2. page' \in Page /\ page'.button["pay"] = page.button["pay"]
    BY <1>1, <2>1 DEF Page
  <2>3. QED
    BY <1>4, <1>5, <2>2 DEF DeleteAccount
<1>6. ASSUME NEW c \in Calls, NotConfirmed(c) \/ CloseWindow(c) PROVE PageInv'
  <2>1. page' \in Page /\ page'.button["pay"] = page.button["pay"]
    <3>1. CASE NotConfirmed(c)
      BY <1>1, <3>1 DEF NotConfirmed, Page
    <3>2. CASE CloseWindow(c)
      <4> DEFINE d == [page EXCEPT !.purpose[c] = "none"]
      <4>1. d \in Page /\ d.button = page.button
        BY <1>1 DEF Page
      <4>2. page' = [d EXCEPT !.closed = TRUE]
        BY <3>2 DEF CloseWindow
      <4> HIDE DEF d
      <4>3. QED
        BY <4>1, <4>2 DEF Page
    <3>3. QED
      BY <1>6, <3>1, <3>2
  <2>2. QED
    BY <1>4, <1>6, <2>1 DEF NotConfirmed, CloseWindow
<1>7. CASE HideNote \/ NoteTimer
  <2>1. page' \in Page /\ page'.button["pay"] = page.button["pay"]
    <3>1. CASE HideNote
      BY <1>1, <3>1 DEF HideNote, Page
    <3>2. CASE NoteTimer
      <4>1. page.timers - 1 \in Nat
        BY <1>1, <3>2 DEF NoteTimer, Page
      <4>2. QED
        BY <1>1, <3>2, <4>1 DEF NoteTimer, Page
    <3>3. QED
      BY <1>7, <3>1, <3>2
  <2>2. QED
    BY <1>4, <1>7, <2>1 DEF HideNote, NoteTimer
<1>8. CASE ButtonTimer("delete")
  <2>1. PICK b \in TimedOut(page.button["delete"]) : page' = [page EXCEPT !.button["delete"] = b]
    BY <1>8 DEF ButtonTimer
  <2>2. b \in Buttons
    BY <1>1, <2>1, ButtonSteps
  <2>3. page' \in Page /\ page'.button["pay"] = page.button["pay"]
    BY <1>1, <2>1, <2>2 DEF Page
  <2>4. QED
    BY <1>4, <1>8, <2>3 DEF ButtonTimer
<1>9. QED
  BY <1>2, <1>3, <1>5, <1>6, <1>7, <1>8

LEMMA EndPayTyped ==
  ASSUME PageOK, NEW outcome \in {"success", "fail"}
  PROVE  /\ EndPay(outcome) \in Page
         /\ EndPay(outcome).button["pay"] = EndButton(page.button["pay"], outcome)
<1>1. EndButton(page.button["pay"], outcome) \in Buttons
  BY ButtonSteps DEF PageOK, Page
<1>2. EndPay(outcome) = [page EXCEPT !.button["pay"] = EndButton(page.button["pay"], outcome)]
  BY DEF EndPay
<1>3. QED
  BY <1>1, <1>2 DEF PageOK, Page

(* What a call of a dialog is for says nothing of the button.               *)
LEMMA PurposeTyped ==
  ASSUME NEW d \in Page, NEW c \in Calls,
         NEW what \in {"none", "deleted", "congratulations", "warning"}
  PROVE  /\ [d EXCEPT !.purpose[c] = what] \in Page
         /\ [d EXCEPT !.purpose[c] = what].button = d.button
BY DEF Page

LEMMA PayTimerStep ==
  ASSUME PageInv, ButtonTimer("pay")
  PROVE  PageInv'
<1>1. PICK b \in TimedOut(page.button["pay"]) : page' = [page EXCEPT !.button["pay"] = b]
  BY DEF ButtonTimer
<1>2. /\ page \in Page /\ page.button["pay"] \in Buttons /\ page.button["pay"].strays = 0
      /\ UNCHANGED <<pay, net, view, server>>
  BY DEF PageInv, PageTypes, PageOK, Page, CardInv, ButtonTimer
<1>3. b \in Buttons /\ b.strays = 0 /\ page.button["pay"].timer
  BY <1>1, <1>2, ButtonSteps
<1>4. page' \in Page /\ page'.button["pay"] = b
  BY <1>1, <1>2, <1>3 DEF Page
<1>5. Cards = {} /\ Cards' = Cards
  BY <1>2, <1>3 DEF PageInv, CardInv, Cards
<1>6. CardInv'
  BY <1>2, <1>3, <1>4, <1>5 DEF PageInv, CardInv
<1>7. PageTypes' /\ ToldInv'
  BY <1>2, <1>4 DEF PageInv, PageTypes, PageOK, PayOK, NetOK, ViewOK, ServerOK, ToldInv
<1>8. QED
  BY <1>6, <1>7 DEF PageInv

LEMMA SubmitStep ==
  ASSUME PageInv, SubmitCard
  PROVE  PageInv'
<1>1. /\ page \in Page /\ pay \in Payment /\ page.button["pay"] \in Buttons
      /\ Cards = {} /\ page.button["pay"].strays = 0
      /\ UNCHANGED <<view, server>>
  BY DEF PageInv, PageTypes, PageOK, PayOK, Page, CardInv, SubmitCard, MaySubmit
<1>2. /\ page' \in Page /\ page'.button["pay"] = StartButton(page.button["pay"])
      /\ StartButton(page.button["pay"]).strays = 0
      /\ StartButton(page.button["pay"]).shows = "loading"
      /\ ~StartButton(page.button["pay"]).timer
  <2>1. /\ StartButton(page.button["pay"]) \in Buttons
        /\ StartButton(page.button["pay"]).strays = 0
        /\ StartButton(page.button["pay"]).shows = "loading"
        /\ ~StartButton(page.button["pay"]).timer
    BY <1>1, ButtonSteps
  <2>2. page' = [page EXCEPT !.button["pay"] = StartButton(page.button["pay"])]
    BY DEF SubmitCard
  <2>3. QED
    BY <1>1, <2>1, <2>2 DEF Page
<1>3. pay' \in Payment /\ pay'.submitting /\ (pay.cards = 0 => pay'.threw)
  <2>1. pay' = [pay EXCEPT !.submitting = TRUE, !.threw = pay.threw \/ pay.cards = 0]
    BY DEF SubmitCard
  <2>2. QED
    BY <1>1, <2>1 DEF Payment
<1>4. CASE pay.cards > 0
  <2>1. PICK p \in Posts : /\ NetOK' /\ net'.posts = net.posts \cup {p}
                           /\ p.kind = "card" /\ p.stage = "token" /\ p.change = 0
    BY <1>4, PostTyped DEF SubmitCard
  <2>2. Cards' = {p}
    BY <1>1, <2>1 DEF Cards
  <2>3. CardInv'
    BY <1>2, <1>3, <2>1, <2>2 DEF PageInv, CardInv
  <2>4. ToldInv'
    BY <1>1, <2>1 DEF PageInv, PageTypes, ServerOK, ToldInv
  <2>5. QED
    BY <1>1, <1>2, <1>3, <2>1, <2>3, <2>4
       DEF PageInv, PageTypes, PageOK, PayOK, ViewOK, ServerOK
<1>5. CASE ~(pay.cards > 0)
  <2>1. net' = net /\ pay.cards = 0
    BY <1>1, <1>5 DEF SubmitCard, Payment
  <2>2. Cards' = {}
    BY <1>1, <2>1 DEF Cards
  <2>3. CardInv'
    BY <1>2, <1>3, <2>1, <2>2 DEF PageInv, CardInv
  <2>4. ToldInv'
    BY <1>1, <2>1 DEF PageInv, ToldInv
  <2>5. QED
    BY <1>1, <1>2, <1>3, <2>1, <2>3, <2>4
       DEF PageInv, PageTypes, PageOK, PayOK, NetOK, ViewOK, ServerOK
<1>6. QED
  BY <1>4, <1>5

(* Requests that are no card's: they are sent ...                           *)
LEMMA SentStep ==
  ASSUME PageInv, NEW kind \in {"reactivate", "delete"}, Post(kind, "sent"),
         UNCHANGED <<pay, view, server>>, page' \in Page,
         page'.button["pay"] = page.button["pay"]
  PROVE  PageInv'
<1>1. PICK p \in Posts : /\ NetOK' /\ net'.posts = net.posts \cup {p}
                         /\ p.kind = kind /\ p.stage = "sent" /\ p.change = 0
  BY PostTyped
<1>2. Cards' = Cards
  BY <1>1 DEF Cards
<1>3. CardInv'
  BY <1>1, <1>2, CardsKept DEF PageInv, CardInv
<1>4. ToldInv'
  BY <1>1 DEF PageInv, PageTypes, ServerOK, ToldInv
<1>5. QED
  BY <1>1, <1>3, <1>4 DEF PageInv, PageTypes, PageOK, PayOK, ViewOK, ServerOK

(* ... and are answered, after which the account may be reloaded.           *)
LEMMA AnsweredStep ==
  ASSUME PageInv, NEW p \in net.posts, p.kind # "card", Gone(p),
         UNCHANGED <<pay, server>>, view' \in {view, Reload(p)}, page' \in Page,
         page'.button["pay"] = page.button["pay"]
  PROVE  PageInv'
<1>1. NetOK' /\ net'.posts = net.posts \ {p}
  BY GoneTyped
<1>2. Cards' = Cards
  BY <1>1 DEF Cards
<1>3. CardInv'
  BY <1>1, <1>2, CardsKept DEF PageInv, CardInv
<1>4. ViewOK' /\ ToldInv'
  <2>1. CASE view' = view
    BY <1>1, <2>1 DEF PageInv, PageTypes, ViewOK, ToldInv
  <2>2. CASE view' = Reload(p)
    BY <1>1, <2>2, Reloads
  <2>3. QED
    BY <2>1, <2>2
<1>5. QED
  BY <1>1, <1>3, <1>4 DEF PageInv, PageTypes, PageOK, PayOK, ServerOK

(* A card's submission ends, with success or not.                           *)
LEMMA CardAnsweredStep ==
  ASSUME PageInv, NEW p \in Cards, Gone(p), NEW outcome \in {"success", "fail"},
         pay' \in Payment, ~pay'.submitting,
         page' \in Page, page'.button["pay"] = EndButton(page.button["pay"], outcome),
         view' \in {view, Reload(p)}, UNCHANGED server
  PROVE  PageInv'
<1>1. p \in net.posts
  BY DEF Cards
<1>2. NetOK' /\ net'.posts = net.posts \ {p}
  BY <1>1, GoneTyped
<1>3. CardInv'
  BY CardEnds
<1>4. ViewOK' /\ ToldInv'
  <2>1. CASE view' = view
    BY <1>2, <2>1 DEF PageInv, PageTypes, ViewOK, ToldInv
  <2>2. CASE view' = Reload(p)
    BY <1>1, <1>2, <2>2, Reloads
  <2>3. QED
    BY <2>1, <2>2
<1>5. QED
  BY <1>2, <1>3, <1>4 DEF PageInv, PageTypes, PageOK, PayOK, ServerOK

-----------------------------------------------------------------------------
(* The answers to the requests.                                             *)
LEMMA AnswerStep ==
  ASSUME PageInv, NEW p \in net.posts, Answer(p)
  PROVE  PageInv'
<1>1. /\ page \in Page /\ pay \in Payment /\ p \in Posts /\ PageOK
      /\ page.button["delete"] \in Buttons /\ server.changes \in Nat
      /\ p.stage = "token" => p.kind = "card"
  BY DEF PageInv, PageTypes, PageOK, PayOK, NetOK, ServerOK, Page, CardInv
<1>2. p.kind = "card" => p \in Cards
  BY DEF Cards
<1>3. CASE TokenRefused(p)
  <2>1. pay' \in Payment /\ ~pay'.submitting
    BY <1>1, <1>3 DEF TokenRefused, Payment
  <2>2. page' \in Page /\ page'.button["pay"] = EndButton(page.button["pay"], "fail")
    BY <1>1, <1>3, EndPayTyped DEF TokenRefused
  <2>3. p \in Cards /\ Gone(p) /\ UNCHANGED <<view, server>>
    BY <1>1, <1>2, <1>3 DEF TokenRefused
  <2>4. QED
    BY <2>1, <2>2, <2>3, CardAnsweredStep
<1>4. CASE TokenCreated(p)
  <2> DEFINE q == [p EXCEPT !.stage = "sent"]
  <2>1. q \in Posts /\ q.kind = p.kind /\ q.stage = "sent" /\ q.change = p.change
    BY <1>1 DEF Posts
  <2>2. Becomes(p, q) /\ UNCHANGED <<page, pay, view, server>>
    BY <1>4 DEF TokenCreated
  <2> HIDE DEF q
  <2>3. NetOK' /\ net'.posts = (net.posts \ {p}) \cup {q} /\ CardInv'
    BY <2>1, <2>2, BecomesTyped
  <2>4. ToldInv'
    BY <2>1, <2>2, <2>3 DEF PageInv, ToldInv
  <2>5. QED
    BY <2>2, <2>3, <2>4 DEF PageInv, PageTypes, PageOK, PayOK, ViewOK, ServerOK
<1>5. CASE Served(p)
  <2> DEFINE q == [p EXCEPT !.stage = "done", !.change = server.changes + 1]
  <2>a. server.changes + 1 \in Nat
    BY <1>1
  <2>1. q \in Posts /\ q.kind = p.kind /\ q.stage = "done" /\ q.change = server.changes + 1
    BY <1>1, <2>a DEF Posts
  <2>2. /\ Becomes(p, q) /\ UNCHANGED <<page, pay, view>>
        /\ server' = [changes |-> server.changes + 1, deleted |-> p.kind = "delete"]
    BY <1>5 DEF Served
  <2> HIDE DEF q
  <2>3. NetOK' /\ net'.posts = (net.posts \ {p}) \cup {q} /\ CardInv'
    BY <2>1, <2>2, BecomesTyped
  <2>4. ServerOK' /\ server'.changes = server.changes + 1
    BY <1>1, <2>2 DEF ServerOK
  <2>5. \A r \in net'.posts : r.change <= server'.changes
    <3>1. ASSUME NEW r \in net.posts PROVE r.change \in Nat /\ r.change <= server.changes
      BY DEF PageInv, PageTypes, NetOK, Posts, ToldInv
    <3>2. QED
      BY <1>1, <2>1, <2>3, <2>4, <3>1
  <2>6. ToldInv'
    BY <1>1, <2>2, <2>4, <2>5, ToldKept
  <2>7. QED
    BY <2>2, <2>3, <2>4, <2>6 DEF PageInv, PageTypes, PageOK, PayOK, ViewOK
<1>6. CASE SubscribeDone(p)
  <2>1. pay' \in Payment /\ ~pay'.submitting
    BY <1>1, <1>6 DEF SubscribeDone, Payment
  <2>2. /\ EndPay("success") \in Page
        /\ EndPay("success").button["pay"] = EndButton(page.button["pay"], "success")
    BY <1>1, EndPayTyped
  <2> DEFINE d == EndPay("success")
  <2> HIDE DEF d
  <2>3. page' \in Page /\ page'.button = d.button
    <3>1. CASE page' = d
      BY <2>2, <3>1 DEF d
    <3>2. ASSUME NEW c \in Calls, page' = [d EXCEPT !.purpose[c] = "congratulations"]
          PROVE  page' \in Page /\ page'.button = d.button
      BY <2>2, <3>2, PurposeTyped DEF d
    <3>3. CASE page' = [d EXCEPT !.note = TRUE, !.timers = @ + 1]
      <4>1. d \in Page /\ d.timers + 1 \in Nat
        BY <2>2 DEF Page, d
      <4>2. page' = [d EXCEPT !.note = TRUE, !.timers = d.timers + 1]
        BY <3>3
      <4>3. QED
        BY <4>1, <4>2 DEF Page
    <3>4. QED
      BY <1>6, <3>1, <3>2, <3>3 DEF SubscribeDone, NewCall, d
  <2>4. p \in Cards /\ Gone(p) /\ UNCHANGED server /\ view' \in {view, Reload(p)}
    BY <1>2, <1>6 DEF SubscribeDone
  <2>5. page'.button["pay"] = EndButton(page.button["pay"], "success")
    BY <2>2, <2>3 DEF d
  <2>6. QED
    BY <2>1, <2>3, <2>4, <2>5, CardAnsweredStep
<1>7. CASE SubscribeFailed(p)
  <2>1. pay' \in Payment /\ ~pay'.submitting
    BY <1>1, <1>7 DEF SubscribeFailed, Payment
  <2>2. page' \in Page /\ page'.button["pay"] = EndButton(page.button["pay"], "fail")
    BY <1>1, <1>7, EndPayTyped DEF SubscribeFailed
  <2>3. p \in Cards /\ Gone(p) /\ UNCHANGED <<view, server>>
    BY <1>2, <1>7 DEF SubscribeFailed
  <2>4. QED
    BY <2>1, <2>2, <2>3, CardAnsweredStep
<1>8. CASE Reactivated(p) \/ NotReactivated(p)
  <2>1. PICK c \in Calls, what \in {"congratulations", "warning"} :
           page' = [page EXCEPT !.purpose[c] = what]
    BY <1>8 DEF Reactivated, NotReactivated, Ask, NewCall
  <2>2. page' \in Page /\ page'.button["pay"] = page.button["pay"]
    BY <1>1, <2>1, PurposeTyped
  <2>3. p.kind # "card" /\ Gone(p) /\ UNCHANGED <<pay, server>> /\ view' \in {view, Reload(p)}
    BY <1>8 DEF Reactivated, NotReactivated
  <2>4. QED
    BY <2>2, <2>3, AnsweredStep
<1>9. CASE DeleteDone(p) \/ DeleteFailed(p)
  <2>1. PICK c \in Calls, what \in {"deleted", "warning"}, outcome \in {"success", "fail"} :
           page' = [page EXCEPT !.purpose[c] = what,
                                !.button["delete"] = EndButton(@, outcome)]
    BY <1>9 DEF DeleteDone, DeleteFailed, NewCall
  <2>2. EndButton(page.button["delete"], outcome) \in Buttons
    BY <1>1, ButtonSteps
  <2> DEFINE d == [page EXCEPT !.purpose[c] = what]
  <2>3. d \in Page /\ d.button = page.button
    BY <1>1, PurposeTyped
  <2>4. page' = [d EXCEPT !.button["delete"] = EndButton(page.button["delete"], outcome)]
    BY <1>1, <2>1 DEF Page
  <2> HIDE DEF d
  <2>5. page' \in Page /\ page'.button["pay"] = page.button["pay"]
    BY <2>2, <2>3, <2>4 DEF Page
  <2>6. p.kind # "card" /\ Gone(p) /\ UNCHANGED <<pay, view, server>>
    BY <1>9 DEF DeleteDone, DeleteFailed
  <2>7. QED
    BY <2>5, <2>6, AnsweredStep
<1>10. QED
  BY <1>3, <1>4, <1>5, <1>6, <1>7, <1>8, <1>9 DEF Answer

(* The requests for the account.                                            *)
LEMMA RefreshStep ==
  ASSUME PageInv, NEW r \in view.refreshes, RefreshServed(r) \/ RefreshDone(r) \/ RefreshFailed(r)
  PROVE  PageInv'
<1>1. /\ ViewOK /\ ServerOK /\ r \in Refreshes /\ ToldInv
      /\ UNCHANGED <<page, pay, net, server>>
  BY DEF PageInv, PageTypes, ViewOK, RefreshServed, RefreshDone, RefreshFailed
<1>2. /\ view.asked \in Nat /\ view.told \in Nat /\ view.latest \in Nat
      /\ server.changes \in Nat /\ view.told <= server.changes
      /\ r.no \in Nat /\ r.account \in Nat /\ r.told \in Nat
      /\ r.no <= view.asked /\ r.told <= view.told
      /\ r.no = view.asked => r.told = view.told
      /\ r.served => r.account >= r.told
  BY <1>1 DEF ViewOK, ServerOK, Refreshes, ToldInv
<1>3. ViewOK' /\ ToldInv'
  <2>1. CASE RefreshServed(r)
    <3> DEFINE s == [r EXCEPT !.served = TRUE, !.account = server.changes]
    <3>1. /\ s \in Refreshes /\ s.no = r.no /\ s.told = r.told
          /\ s.account = server.changes
      BY <1>1, <1>2 DEF Refreshes
    <3>2. view' = [view EXCEPT !.refreshes = (view.refreshes \ {r}) \cup {s}]
      BY <1>1, <2>1 DEF RefreshServed, ViewOK
    <3> HIDE DEF s
    <3>3. /\ view'.refreshes = (view.refreshes \ {r}) \cup {s}
          /\ view'.asked = view.asked /\ view'.told = view.told
          /\ view'.latest = view.latest /\ view'.account = view.account
          /\ view'.toldThen = view.toldThen
      BY <1>1, <3>2 DEF ViewOK
    <3>4. ViewOK'
      BY <1>1, <3>1, <3>2 DEF ViewOK
    <3>5. ToldInv'
      BY <1>1, <1>2, <3>1, <3>3 DEF ToldInv
    <3>6. QED
      BY <3>4, <3>5
  <2>2. CASE RefreshDone(r)
    <3>1. /\ ViewOK' /\ view'.refreshes = view.refreshes \ {r}
          /\ view'.asked = view.asked /\ view'.told = view.told
          /\ view'.latest = r.no /\ view'.account = r.account /\ r.served
          /\ view'.toldThen = r.told
      BY <1>1, <1>2, <2>2 DEF RefreshDone, ViewOK
    <3>2. ToldInv'
      BY <1>1, <1>2, <3>1 DEF ToldInv
    <3>3. QED
      BY <3>1, <3>2
  <2>3. CASE RefreshFailed(r)
    <3>1. /\ ViewOK' /\ view'.refreshes = view.refreshes \ {r}
          /\ view'.asked = view.asked /\ view'.told = view.told
          /\ view'.latest = view.latest /\ view'.account = view.account
          /\ view'.toldThen = view.toldThen
      BY <1>1, <1>2, <2>3 DEF RefreshFailed, ViewOK
    <3>2. ToldInv'
      BY <1>1, <1>2, <3>1 DEF ToldInv
    <3>3. QED
      BY <3>1, <3>2
  <2>4. QED
    BY <2>1, <2>2, <2>3
<1>4. CardInv'
  BY <1>1 DEF PageInv, CardInv, Cards
<1>5. QED
  BY <1>1, <1>3, <1>4 DEF PageInv, PageTypes, PageOK, PayOK, NetOK, ServerOK

LEMMA PageStep ==
  ASSUME PageInv, [DashNext]_pageVars PROVE PageInv'
<1>1. CASE UNCHANGED pageVars
  BY <1>1 DEF pageVars, PageInv, PageTypes, PageOK, PayOK, NetOK, ViewOK, ServerOK,
             CardInv, Cards, ToldInv
<1>2. CASE Reaction
  <2>1. ASSUME NEW c \in Calls, Confirmed(c) PROVE PageInv'
    <3> DEFINE d == [page EXCEPT !.purpose[c] = "none"]
               b == StartButton(page.button["delete"])
    <3>1. page \in Page /\ page.button["delete"] \in Buttons
      BY DEF PageInv, PageTypes, PageOK, Page
    <3>2. d \in Page /\ d.button = page.button /\ b \in Buttons
      BY <3>1, PurposeTyped, ButtonSteps
    <3>3. page' = [d EXCEPT !.button["delete"] = b]
      BY <2>1, <3>1 DEF Confirmed, Page
    <3> HIDE DEF d, b
    <3>4. page' \in Page /\ page'.button["pay"] = page.button["pay"]
      BY <3>2, <3>3 DEF Page
    <3>5. QED
      BY <2>1, <3>4, SentStep DEF Confirmed
  <2>2. QED
    BY <1>2, <2>1, QuietSteps DEF Reaction
<1>3. CASE DashEvent
  <2>1. CASE Reactivate
    <3>1. page' \in Page /\ page'.button["pay"] = page.button["pay"]
      BY <2>1 DEF Reactivate, PageInv, PageTypes, PageOK
    <3>2. QED
      BY <2>1, <3>1, SentStep DEF Reactivate
  <2>2. QED
    BY <1>3, <2>1, QuietSteps, SubmitStep, AnswerStep, RefreshStep, PayTimerStep DEF DashEvent
<1>4. CASE DashDialogs
  BY <1>1, <1>4 DEF DashDialogs
<1>5. QED
  BY <1>1, <1>2, <1>3, <1>4 DEF DashNext

LEMMA PageInit == DashInit => PageInv
<1> SUFFICES ASSUME DashInit PROVE PageInv
  OBVIOUS
<1>1. IdleButton \in Buttons /\ IdleButton.strays = 0
  BY DEF IdleButton, Buttons
<1>2. PageOK /\ page.button["pay"].strays = 0
  BY <1>1 DEF DashInit, PageOK, Page
<1>3. PayOK /\ ~pay.submitting
  BY DEF DashInit, PayOK, Payment
<1>4. NetOK /\ net.posts = {} /\ Cards = {}
  BY DEF DashInit, NetOK, Cards
<1>5. ViewOK /\ ServerOK /\ ToldInv
  BY <1>4 DEF DashInit, ViewOK, ServerOK, ToldInv
<1>6. QED
  BY <1>2, <1>3, <1>4, <1>5 DEF PageInv, PageTypes, CardInv

LEMMA PageInvariance == PageSpec => []PageInv
BY PageInit, PageStep, PTL DEF PageSpec

-----------------------------------------------------------------------------
(* cloud-dashboard.js:20146-20188,397-447,20259-20268: a card is submitted, *)
(* an event reported and a promotion counted down once at a time, for any   *)
(* number of payments, events and accounts.                                 *)
THEOREM ClientOneAtOnce == SafeSpec => []OneAtOnce
<1>1. PageInv => OneSubmission
  <2>1. ASSUME PageInv PROVE Cardinality(Cards) <= 1
    BY <2>1, AtMostOne DEF PageInv, CardInv
  <2>2. QED
    BY <2>1 DEF OneSubmission, PageInv, CardInv
<1>2. OneSubmission /\ OneAtATime /\ OneCountdown => OneAtOnce
  BY DEF OneAtOnce
<1>3. QED
  BY <1>1, <1>2, ClientShowsPage, PageInvariance, ClientTracks, TracksInTurn,
     ClientPromotes, PromoCounts, PTL

(* cloud-dashboard.js:20572,20640: what the user was told of is in the      *)
(* account shown once the answer to the last request for it is in, whatever *)
(* the order in which answers arrive.                                       *)
THEOREM ClientToldIsShown == SafeSpec => []ToldIsShown
<1>1. PageInv => ToldIsShown
  BY DEF PageInv, ToldInv, ToldIsShown
<1>2. QED
  BY <1>1, ClientShowsPage, PageInvariance, PTL
=============================================================================
