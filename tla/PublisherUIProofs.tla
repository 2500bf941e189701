--------------------------- MODULE PublisherUIProofs ---------------------------
(***************************************************************************)
(* Proofs about the window of multipusher, for any finite set of stream   *)
(* names, any number of status polls and of acts of the user.              *)
(***************************************************************************)
EXTENDS PublisherUI, FiniteSetTheorems, TLAPS

\* The rests of the lists of steps.
Start2 ==
  <<"mark", "assign", "draw", "start", "run", "buttons", "poll", "set", "assign", "draw", "detach",
    "attach">>
Start3 ==
  <<"assign", "draw", "start", "run", "buttons", "poll", "set", "assign", "draw", "detach", "attach">>
Start4 == <<"draw", "start", "run", "buttons", "poll", "set", "assign", "draw", "detach", "attach">>
Start5 == <<"start", "run", "buttons", "poll", "set", "assign", "draw", "detach", "attach">>
Start6 == <<"run", "buttons", "poll", "set", "assign", "draw", "detach", "attach">>
Start7 == <<"buttons", "poll", "set", "assign", "draw", "detach", "attach">>
Start8 == <<"poll", "set", "assign", "draw", "detach", "attach">>
Start9 == <<"set", "assign", "draw", "detach", "attach">>
Start10 == <<"assign", "draw", "detach", "attach">>
Start11 == <<"draw", "detach", "attach">>
Start12 == <<"detach", "attach">>
Start13 == <<"attach">>
Buttons == <<"buttons">>
Mark == <<"mark", "assign", "draw">>
Draw == <<"draw">>
Stop2 == <<"clear", "buttons", "detach", "mark", "assign", "draw">>
Stop3 == <<"buttons", "detach", "mark", "assign", "draw">>
Stop4 == <<"detach", "mark", "assign", "draw">>
Confirm == <<"confirm">>
Closed == <<"closed">>

AllTodos ==
  {<<>>, Start, Start2, Start3, Start4, Start5, Start6, Start7, Start8, Start9,
   Start10, Start11, Start12, Start13, Recovery, Stop, Stop2, Stop3, Stop4, Mark,
   RefreshPreview, Draw, StatusRefresh, Buttons, Confirm, StopAndClose, Close, Closed}

\* Where a goroutine is, as a number: 0 when it rests, 1 to 13 in startPublisher, 20 in the
\* recovery of startOnReady, 21 to 24 in stopAction; 25 to 27 in the refresh of the table that
\* ends these two and is the callback of the form, 30 where a poll comes to it; 40 at the
\* buttons alone, 50 to 53 in the close.  The table is assigned at 3, 10 and 26 and drawn at
\* 4, 11 and 27.
Place(todo) ==
  CASE todo = <<>> -> 0
    [] todo = Start -> 1
    [] todo = Start2 -> 2
    [] todo = Start3 -> 3
    [] todo = Start4 -> 4
    [] todo = Start5 -> 5
    [] todo = Start6 -> 6
    [] todo = Start7 -> 7
    [] todo = Start8 -> 8
    [] todo = Start9 -> 9
    [] todo = Start10 -> 10
    [] todo = Start11 -> 11
    [] todo = Start12 -> 12
    [] todo = Start13 -> 13
    [] todo = Recovery -> 20
    [] todo = Stop -> 21
    [] todo = Stop2 -> 22
    [] todo = Stop3 -> 23
    [] todo = Stop4 -> 24
    [] todo = Mark -> 25
    [] todo = RefreshPreview -> 26
    [] todo = Draw -> 27
    [] todo = StatusRefresh -> 30
    [] todo = Buttons -> 40
    [] todo = Confirm -> 50
    [] todo = StopAndClose -> 51
    [] todo = Close -> 52
    [] todo = Closed -> 53

LEMMA PlaceFacts ==
  /\ Place(<<>>) = 0 /\ Place(Start) = 1 /\ Place(Start2) = 2 /\ Place(Start3) = 3
  /\ Place(Start4) = 4 /\ Place(Start5) = 5 /\ Place(Start6) = 6 /\ Place(Start7) = 7
  /\ Place(Start8) = 8 /\ Place(Start9) = 9 /\ Place(Start10) = 10 /\ Place(Start11) = 11
  /\ Place(Start12) = 12 /\ Place(Start13) = 13 /\ Place(Recovery) = 20 /\ Place(Stop) = 21
  /\ Place(Stop2) = 22 /\ Place(Stop3) = 23 /\ Place(Stop4) = 24 /\ Place(Mark) = 25
  /\ Place(RefreshPreview) = 26 /\ Place(Draw) = 27 /\ Place(StatusRefresh) = 30 /\ Place(Buttons) = 40
  /\ Place(Confirm) = 50 /\ Place(StopAndClose) = 51 /\ Place(Close) = 52 /\ Place(Closed) = 53
  BY DEF Place, Start, Start2, Start3, Start4, Start5, Start6, Start7, Start8, Start9, Start10,
     Start11, Start12, Start13, Buttons, Recovery, Mark, RefreshPreview, Draw, Stop, Stop2,
     Stop3, Stop4, Confirm, StopAndClose, Close, Closed, StatusRefresh

\* A list begins with this step at place n and goes on at place m.
From(s, n, step, m) ==
  /\ s # <<>> /\ Head(s) = step /\ Tail(s) \in AllTodos
  /\ Place(s) = n /\ Place(Tail(s)) = m
  /\ step = "mark" => (Len(Tail(s)) > Len(RefreshPreview) <=> n = 2)

LEMMA PlaceSteps ==
  /\ From(Start, 1, "config", 2)
  /\ From(Start2, 2, "mark", 3)
  /\ From(Start3, 3, "assign", 4)
  /\ From(Start4, 4, "draw", 5)
  /\ From(Start5, 5, "start", 6)
  /\ From(Start6, 6, "run", 7)
  /\ From(Start7, 7, "buttons", 8)
  /\ From(Start8, 8, "poll", 9)
  /\ From(Start9, 9, "set", 10)
  /\ From(Start10, 10, "assign", 11)
  /\ From(Start11, 11, "draw", 12)
  /\ From(Start12, 12, "detach", 13)
  /\ From(Start13, 13, "attach", 0)
  /\ From(Buttons, 40, "buttons", 0)
  /\ From(Recovery, 20, "buttons", 25)
  /\ From(Mark, 25, "mark", 26)
  /\ From(RefreshPreview, 26, "assign", 27)
  /\ From(Draw, 27, "draw", 0)
  /\ From(Stop, 21, "stop", 22)
  /\ From(Stop2, 22, "clear", 23)
  /\ From(Stop3, 23, "buttons", 24)
  /\ From(Stop4, 24, "detach", 25)
  /\ From(Confirm, 50, "confirm", 0)
  /\ From(StopAndClose, 51, "stop", 52)
  /\ From(Close, 52, "detach", 53)
  /\ From(Closed, 53, "closed", 0)
  /\ From(StatusRefresh, 30, "set", 26)
<1>1. From(Start, 1, "config", 2)
  <2>1. Start # <<>> /\ Head(Start) = "config" /\ Tail(Start) = Start2
    BY DEF Start, Start2
  <2>2. Start2 \in AllTodos
    BY DEF AllTodos
  <2>3. Place(Start) = 1 /\ Place(Start2) = 2
    BY PlaceFacts
  <2>4. QED
    BY <2>1, <2>2, <2>3 DEF From
<1>2. From(Start2, 2, "mark", 3)
  <2>1. Start2 # <<>> /\ Head(Start2) = "mark" /\ Tail(Start2) = Start3
    BY DEF Start2, Start3
  <2>2. Start3 \in AllTodos
    BY DEF AllTodos
  <2>3. Place(Start2) = 2 /\ Place(Start3) = 3
    BY PlaceFacts
  <2>4. Len(Tail(Start2)) > Len(RefreshPreview) <=> 2 = 2
    BY DEF Start2, RefreshPreview
  <2>5. QED
    BY <2>1, <2>2, <2>3, <2>4, Zenon DEF From
<1>3. From(Start3, 3, "assign", 4)
  <2>1. Start3 # <<>> /\ Head(Start3) = "assign" /\ Tail(Start3) = Start4
    BY DEF Start3, Start4
  <2>2. Start4 \in AllTodos
    BY DEF AllTodos
  <2>3. Place(Start3) = 3 /\ Place(Start4) = 4
    BY PlaceFacts
  <2>4. QED
    BY <2>1, <2>2, <2>3 DEF From
<1>4. From(Start4, 4, "draw", 5)
  <2>1. Start4 # <<>> /\ Head(Start4) = "draw" /\ Tail(Start4) = Start5
    BY DEF Start4, Start5
  <2>2. Start5 \in AllTodos
    BY DEF AllTodos
  <2>3. Place(Start4) = 4 /\ Place(Start5) = 5
    BY PlaceFacts
  <2>4. QED
    BY <2>1, <2>2, <2>3 DEF From
<1>5. From(Start5, 5, "start", 6)
  <2>1. Start5 # <<>> /\ Head(Start5) = "start" /\ Tail(Start5) = Start6
    BY DEF Start5, Start6
  <2>2. Start6 \in AllTodos
    BY DEF AllTodos
  <2>3. Place(Start5) = 5 /\ Place(Start6) = 6
    BY PlaceFacts
  <2>4. QED
    BY <2>1, <2>2, <2>3 DEF From
<1>6. From(Start6, 6, "run", 7)
  <2>1. Start6 # <<>> /\ Head(Start6) = "run" /\ Tail(Start6) = Start7
    BY DEF Start6, Start7
  <2>2. Start7 \in AllTodos
    BY DEF AllTodos
  <2>3. Place(Start6) = 6 /\ Place(Start7) = 7
    BY PlaceFacts
  <2>4. QED
    BY <2>1, <2>2, <2>3 DEF From
<1>7. From(Start7, 7, "buttons", 8)
  <2>1. Start7 # <<>> /\ Head(Start7) = "buttons" /\ Tail(Start7) = Start8
    BY DEF Start7, Start8
  <2>2. Start8 \in AllTodos
    BY DEF AllTodos
  <2>3. Place(Start7) = 7 /\ Place(Start8) = 8
    BY PlaceFacts
  <2>4. QED
    BY <2>1, <2>2, <2>3 DEF From
<1>8. From(Start8, 8, "poll", 9)
  <2>1. Start8 # <<>> /\ Head(Start8) = "poll" /\ Tail(Start8) = Start9
    BY DEF Start8, Start9
  <2>2. Start9 \in AllTodos
    BY DEF AllTodos
  <2>3. Place(Start8) = 8 /\ Place(Start9) = 9
    BY PlaceFacts
  <2>4. QED
    BY <2>1, <2>2, <2>3 DEF From
<1>9. From(Start9, 9, "set", 10)
  <2>1. Start9 # <<>> /\ Head(Start9) = "set" /\ Tail(Start9) = Start10
    BY DEF Start9, Start10
  <2>2. Start10 \in AllTodos
    BY DEF AllTodos
  <2>3. Place(Start9) = 9 /\ Place(Start10) = 10
    BY PlaceFacts
  <2>4. QED
    BY <2>1, <2>2, <2>3 DEF From
<1>10. From(Start10, 10, "assign", 11)
  <2>1. Start10 # <<>> /\ Head(Start10) = "assign" /\ Tail(Start10) = Start11
    BY DEF Start10, Start11
  <2>2. Start11 \in AllTodos
    BY DEF AllTodos
  <2>3. Place(Start10) = 10 /\ Place(Start11) = 11
    BY PlaceFacts
  <2>4. QED
    BY <2>1, <2>2, <2>3 DEF From
<1>11. From(Start11, 11, "draw", 12)
  <2>1. Start11 # <<>> /\ Head(Start11) = "draw" /\ Tail(Start11) = Start12
    BY DEF Start11, Start12
  <2>2. Start12 \in AllTodos
    BY DEF AllTodos
  <2>3. Place(Start11) = 11 /\ Place(Start12) = 12
    BY PlaceFacts
  <2>4. QED
    BY <2>1, <2>2, <2>3 DEF From
<1>12. From(Start12, 12, "detach", 13)
  <2>1. Start12 # <<>> /\ Head(Start12) = "detach" /\ Tail(Start12) = Start13
    BY DEF Start12, Start13
  <2>2. Start13 \in AllTodos
    BY DEF AllTodos
  <2>3. Place(Start12) = 12 /\ Place(Start13) = 13
    BY PlaceFacts
  <2>4. QED
    BY <2>1, <2>2, <2>3 DEF From
<1>13. From(Start13, 13, "attach", 0)
  <2>1. Start13 # <<>> /\ Head(Start13) = "attach" /\ Tail(Start13) = <<>>
    BY DEF Start13
  <2>2. <<>> \in AllTodos
    BY DEF AllTodos
  <2>3. Place(Start13) = 13 /\ Place(<<>>) = 0
    BY PlaceFacts
  <2>4. QED
    BY <2>1, <2>2, <2>3 DEF From
<1>14. From(Buttons, 40, "buttons", 0)
  <2>1. Buttons # <<>> /\ Head(Buttons) = "buttons" /\ Tail(Buttons) = <<>>
    BY DEF Buttons
  <2>2. <<>> \in AllTodos
    BY DEF AllTodos
  <2>3. Place(Buttons) = 40 /\ Place(<<>>) = 0
    BY PlaceFacts
  <2>4. QED
    BY <2>1, <2>2, <2>3 DEF From
<1>15. From(Recovery, 20, "buttons", 25)
  <2>1. Recovery # <<>> /\ Head(Recovery) = "buttons" /\ Tail(Recovery) = Mark
    BY DEF Recovery, Mark
  <2>2. Mark \in AllTodos
    BY DEF AllTodos
  <2>3. Place(Recovery) = 20 /\ Place(Mark) = 25
    BY PlaceFacts
  <2>4. QED
    BY <2>1, <2>2, <2>3 DEF From
<1>16. From(Mark, 25, "mark", 26)
  <2>1. Mark # <<>> /\ Head(Mark) = "mark" /\ Tail(Mark) = RefreshPreview
    BY DEF Mark, RefreshPreview
  <2>2. RefreshPreview \in AllTodos
    BY DEF AllTodos
  <2>3. Place(Mark) = 25 /\ Place(RefreshPreview) = 26
    BY PlaceFacts
  <2>4. Len(Tail(Mark)) > Len(RefreshPreview) <=> 25 = 2
    BY DEF Mark, RefreshPreview
  <2>5. QED
    BY <2>1, <2>2, <2>3, <2>4, Zenon DEF From
<1>17. From(RefreshPreview, 26, "assign", 27)
  <2>1. RefreshPreview # <<>> /\ Head(RefreshPreview) = "assign" /\ Tail(RefreshPreview) = Draw
    BY DEF RefreshPreview, Draw
  <2>2. Draw \in AllTodos
    BY DEF AllTodos
  <2>3. Place(RefreshPreview) = 26 /\ Place(Draw) = 27
    BY PlaceFacts
  <2>4. QED
    BY <2>1, <2>2, <2>3 DEF From
<1>18. From(Draw, 27, "draw", 0)
  <2>1. Draw # <<>> /\ Head(Draw) = "draw" /\ Tail(Draw) = <<>>
    BY DEF Draw
  <2>2. <<>> \in AllTodos
    BY DEF AllTodos
  <2>3. Place(Draw) = 27 /\ Place(<<>>) = 0
    BY PlaceFacts
  <2>4. QED
    BY <2>1, <2>2, <2>3 DEF From
<1>19. From(Stop, 21, "stop", 22)
  <2>1. Stop # <<>> /\ Head(Stop) = "stop" /\ Tail(Stop) = Stop2
    BY DEF Stop, Stop2
  <2>2. Stop2 \in AllTodos
    BY DEF AllTodos
  <2>3. Place(Stop) = 21 /\ Place(Stop2) = 22
    BY PlaceFacts
  <2>4. QED
    BY <2>1, <2>2, <2>3 DEF From
<1>20. From(Stop2, 22, "clear", 23)
  <2>1. Stop2 # <<>> /\ Head(Stop2) = "clear" /\ Tail(Stop2) = Stop3
    BY DEF Stop2, Stop3
  <2>2. Stop3 \in AllTodos
    BY DEF AllTodos
  <2>3. Place(Stop2) = 22 /\ Place(Stop3) = 23
    BY PlaceFacts
  <2>4. QED
    BY <2>1, <2>2, <2>3 DEF From
<1>21. From(Stop3, 23, "buttons", 24)
  <2>1. Stop3 # <<>> /\ Head(Stop3) = "buttons" /\ Tail(Stop3) = Stop4
    BY DEF Stop3, Stop4
  <2>2. Stop4 \in AllTodos
    BY DEF AllTodos
  <2>3. Place(Stop3) = 23 /\ Place(Stop4) = 24
    BY PlaceFacts
  <2>4. QED
    BY <2>1, <2>2, <2>3 DEF From
<1>22. From(Stop4, 24, "detach", 25)
  <2>1. Stop4 # <<>> /\ Head(Stop4) = "detach" /\ Tail(Stop4) = Mark
    BY DEF Stop4, Mark
  <2>2. Mark \in AllTodos
    BY DEF AllTodos
  <2>3. Place(Stop4) = 24 /\ Place(Mark) = 25
    BY PlaceFacts
  <2>4. QED
    BY <2>1, <2>2, <2>3 DEF From
<1>23. From(Confirm, 50, "confirm", 0)
  <2>1. Confirm # <<>> /\ Head(Confirm) = "confirm" /\ Tail(Confirm) = <<>>
    BY DEF Confirm
  <2>2. <<>> \in AllTodos
    BY DEF AllTodos
  <2>3. Place(Confirm) = 50 /\ Place(<<>>) = 0
    BY PlaceFacts
  <2>4. QED
    BY <2>1, <2>2, <2>3 DEF From
<1>24. From(StopAndClose, 51, "stop", 52)
  <2>1. StopAndClose # <<>> /\ Head(StopAndClose) = "stop" /\ Tail(StopAndClose) = Close
    BY DEF StopAndClose, Close
  <2>2. Close \in AllTodos
    BY DEF AllTodos
  <2>3. Place(StopAndClose) = 51 /\ Place(Close) = 52
    BY PlaceFacts
  <2>4. QED
    BY <2>1, <2>2, <2>3 DEF From
<1>25. From(Close, 52, "detach", 53)
  <2>1. Close # <<>> /\ Head(Close) = "detach" /\ Tail(Close) = Closed
    BY DEF Close, Closed
  <2>2. Closed \in AllTodos
    BY DEF AllTodos
  <2>3. Place(Close) = 52 /\ Place(Closed) = 53
    BY PlaceFacts
  <2>4. QED
    BY <2>1, <2>2, <2>3 DEF From
<1>26. From(Closed, 53, "closed", 0)
  <2>1. Closed # <<>> /\ Head(Closed) = "closed" /\ Tail(Closed) = <<>>
    BY DEF Closed
  <2>2. <<>> \in AllTodos
    BY DEF AllTodos
  <2>3. Place(Closed) = 53 /\ Place(<<>>) = 0
    BY PlaceFacts
  <2>4. QED
    BY <2>1, <2>2, <2>3 DEF From
<1>27. From(StatusRefresh, 30, "set", 26)
  <2>1. StatusRefresh # <<>> /\ Head(StatusRefresh) = "set" /\ Tail(StatusRefresh) = RefreshPreview
    BY DEF StatusRefresh, RefreshPreview
  <2>2. RefreshPreview \in AllTodos
    BY DEF AllTodos
  <2>3. Place(StatusRefresh) = 30 /\ Place(RefreshPreview) = 26
    BY PlaceFacts
  <2>4. QED
    BY <2>1, <2>2, <2>3 DEF From
<1> QED
  BY <1>1, <1>2, <1>3, <1>4, <1>5, <1>6, <1>7, <1>8, <1>9, <1>10, <1>11, <1>12, <1>13, <1>14,
     <1>15, <1>16, <1>17, <1>18, <1>19, <1>20, <1>21, <1>22, <1>23, <1>24, <1>25, <1>26, <1>27

LEMMA AllSteps ==
  ASSUME NEW s \in AllTodos
  PROVE  \/ s = <<>> /\ Place(s) = 0
         \/ From(s, 1, "config", 2)
         \/ From(s, 2, "mark", 3)
         \/ From(s, 3, "assign", 4)
         \/ From(s, 4, "draw", 5)
         \/ From(s, 5, "start", 6)
         \/ From(s, 6, "run", 7)
         \/ From(s, 7, "buttons", 8)
         \/ From(s, 8, "poll", 9)
         \/ From(s, 9, "set", 10)
         \/ From(s, 10, "assign", 11)
         \/ From(s, 11, "draw", 12)
         \/ From(s, 12, "detach", 13)
         \/ From(s, 13, "attach", 0)
         \/ From(s, 40, "buttons", 0)
         \/ From(s, 20, "buttons", 25)
         \/ From(s, 25, "mark", 26)
         \/ From(s, 26, "assign", 27)
         \/ From(s, 27, "draw", 0)
         \/ From(s, 21, "stop", 22)
         \/ From(s, 22, "clear", 23)
         \/ From(s, 23, "buttons", 24)
         \/ From(s, 24, "detach", 25)
         \/ From(s, 50, "confirm", 0)
         \/ From(s, 51, "stop", 52)
         \/ From(s, 52, "detach", 53)
         \/ From(s, 53, "closed", 0)
         \/ From(s, 30, "set", 26)
  BY PlaceSteps, PlaceFacts DEF AllTodos

\* Where a goroutine is when it is at a step, and where it goes.
LEMMA Steps ==
  ASSUME NEW s \in AllTodos
  PROVE  /\ s = <<>> <=> Place(s) = 0
         /\ s # <<>> => Tail(s) \in AllTodos
         /\ s # <<>> /\ Head(s) = "mark" => (Len(Tail(s)) > Len(RefreshPreview) <=> Place(s) = 2)
         /\ s # <<>> /\ Head(s) = "config" =>
              Place(s) = 1 /\ Place(Tail(s)) = 2
         /\ s # <<>> /\ Head(s) = "mark" =>
              \/ Place(s) = 2 /\ Place(Tail(s)) = 3
              \/ Place(s) = 25 /\ Place(Tail(s)) = 26
         /\ s # <<>> /\ Head(s) = "assign" =>
              \/ Place(s) = 3 /\ Place(Tail(s)) = 4
              \/ Place(s) = 10 /\ Place(Tail(s)) = 11
              \/ Place(s) = 26 /\ Place(Tail(s)) = 27
         /\ s # <<>> /\ Head(s) = "draw" =>
              \/ Place(s) = 4 /\ Place(Tail(s)) = 5
              \/ Place(s) = 11 /\ Place(Tail(s)) = 12
              \/ Place(s) = 27 /\ Place(Tail(s)) = 0
         /\ s # <<>> /\ Head(s) = "start" =>
              Place(s) = 5 /\ Place(Tail(s)) = 6
         /\ s # <<>> /\ Head(s) = "run" =>
              Place(s) = 6 /\ Place(Tail(s)) = 7
         /\ s # <<>> /\ Head(s) = "buttons" =>
              \/ Place(s) = 7 /\ Place(Tail(s)) = 8
              \/ Place(s) = 40 /\ Place(Tail(s)) = 0
              \/ Place(s) = 20 /\ Place(Tail(s)) = 25
              \/ Place(s) = 23 /\ Place(Tail(s)) = 24
         /\ s # <<>> /\ Head(s) = "poll" =>
              Place(s) = 8 /\ Place(Tail(s)) = 9
         /\ s # <<>> /\ Head(s) = "set" =>
              \/ Place(s) = 9 /\ Place(Tail(s)) = 10
              \/ Place(s) = 30 /\ Place(Tail(s)) = 26
         /\ s # <<>> /\ Head(s) = "detach" =>
              \/ Place(s) = 12 /\ Place(Tail(s)) = 13
              \/ Place(s) = 24 /\ Place(Tail(s)) = 25
              \/ Place(s) = 52 /\ Place(Tail(s)) = 53
         /\ s # <<>> /\ Head(s) = "attach" =>
              Place(s) = 13 /\ Place(Tail(s)) = 0
         /\ s # <<>> /\ Head(s) = "stop" =>
              \/ Place(s) = 21 /\ Place(Tail(s)) = 22
              \/ Place(s) = 51 /\ Place(Tail(s)) = 52
         /\ s # <<>> /\ Head(s) = "clear" =>
              Place(s) = 22 /\ Place(Tail(s)) = 23
         /\ s # <<>> /\ Head(s) = "confirm" =>
              Place(s) = 50 /\ Place(Tail(s)) = 0
         /\ s # <<>> /\ Head(s) = "closed" =>
              Place(s) = 53 /\ Place(Tail(s)) = 0
  BY AllSteps DEF From

\* The steps that refresh the table.
LEMMA RefreshPlaces ==
  ASSUME NEW s \in AllTodos
  PROVE  /\ s # <<>> /\ Head(s) = "set" <=> Place(s) \in {9, 30}
         /\ s # <<>> /\ Head(s) = "assign" <=> Place(s) \in {3, 10, 26}
         /\ s # <<>> /\ Head(s) = "draw" <=> Place(s) \in {4, 11, 27}
  BY AllSteps DEF From

-----------------------------------------------------------------------------
(* The goroutines.                                                         *)

P(t) == Place(thread[t].todo)

WindowPlaces == 0..13 \cup 21..27 \cup {40} \cup 50..53
ReadyPlaces == 0..13 \cup {20, 25, 26, 27, 40}
PollPlaces == {0, 26, 27, 30}
PlacesOf(t) == IF t = "window" THEN WindowPlaces ELSE IF t = "ready" THEN ReadyPlaces ELSE PollPlaces

Values == {"Idle", "Starting", "Running", "Stopped"}
Statuses == UNION {[D -> Values] : D \in SUBSET Names}
Thread == [alive : BOOLEAN, todo : AllTodos, form : Forms, built : BOOLEAN, status : Statuses,
           rows : Nat]

\* Each goroutine is at a place of its code; one that has ended is at none.
ThreadsFit ==
  /\ thread \in [Threads -> Thread]
  /\ \A t \in Threads : P(t) \in PlacesOf(t) /\ (~thread[t].alive => P(t) = 0)

Typed ==
  /\ form \in Forms /\ running \in BOOLEAN /\ startOn \in BOOLEAN /\ stopOn \in BOOLEAN
  /\ statusStop \in Polls \cup {None} /\ stopped \subseteq Polls
  /\ targetStatus \in Statuses /\ previews \in Statuses
  /\ publisher \in [targets : SUBSET Names,
                    worker : {"Stopped", "Starting", "Running", "Ending"}]
  /\ raced \subseteq {"handler", "table"}
  /\ ThreadsFit

LEMMA StatusOfNames ==
  ASSUME NEW D \in SUBSET Names, NEW s \in [D -> Values]
  PROVE  s \in Statuses
  BY DEF Statuses

LEMMA StatusIsFunction ==
  ASSUME NEW s \in Statuses
  PROVE  DOMAIN s \subseteq Names /\ \A n \in DOMAIN s : s[n] \in Values
<1>1. PICK D \in SUBSET Names : s \in [D -> Values]
  BY DEF Statuses
<1>2. QED
  BY <1>1

LEMMA NoStatusIsStatus == NoStatus \in Statuses
<1>1. NoStatus \in [{} -> Values]
  BY DEF NoStatus
<1>2. QED
  BY <1>1, StatusOfNames

LEMMA NamesOfForm ==
  ASSUME NEW f \in Forms
  PROVE  NamesOf(f) \subseteq Names /\ IsFiniteSet(NamesOf(f)) /\ Cardinality(NamesOf(f)) \in Nat
<1>1. NamesOf(f) \subseteq {<<f.site, "video">>} \cup {<<f.site, "audio">>}
  BY DEF NamesOf
<1>2. f.site \in Sites
  BY DEF Forms
<1>3. IsFiniteSet({<<f.site, "video">>} \cup {<<f.site, "audio">>})
  BY FS_Singleton, FS_Union
<1>4. IsFiniteSet(NamesOf(f))
  BY <1>1, <1>3, FS_Subset
<1>5. QED
  BY <1>1, <1>2, <1>4, FS_CardinalityType DEF Names

LEMMA SnapshotIsStatus ==
  ASSUME Typed
  PROVE  Snapshot \in Statuses
<1>1. Snapshot \in [publisher.targets -> Values] /\ publisher.targets \subseteq Names
  BY DEF Typed, Snapshot, Values
<1>2. QED
  BY <1>1, StatusOfNames

LEMMA BeginIsThread ==
  ASSUME Typed
  PROVE  /\ Begin \in Thread /\ Off \in Thread
         /\ Begin.alive /\ ~Off.alive /\ Begin.todo = <<>> /\ Off.todo = <<>>
<1>1. (CHOOSE f \in Forms : TRUE) \in Forms
  BY DEF Typed
<1>2. <<>> \in AllTodos
  BY DEF AllTodos
<1>3. QED
  BY <1>1, <1>2, NoStatusIsStatus DEF Begin, Off, Thread

\* The other goroutines stay where they are.
Moves(t) ==
  /\ thread' \in [Threads -> Thread]
  /\ \A u \in Threads \ {t} : thread'[u] = thread[u] /\ P(u)' = P(u)

LEMMA MoveFits ==
  ASSUME ThreadsFit, NEW t \in Threads, Moves(t), P(t)' \in PlacesOf(t),
         thread'[t].alive \/ P(t)' = 0
  PROVE  ThreadsFit'
  BY DEF ThreadsFit, Moves

\* Where a goroutine is at a step, and where the step leads.
LEMMA AtPlaces ==
  ASSUME ThreadsFit, NEW t \in Threads, Busy(t)
  PROVE  /\ thread[t].alive /\ Left(t) \in AllTodos /\ thread[t].todo \in AllTodos /\ P(t) # 0
         /\ Head(thread[t].todo) = "config" =>
              P(t) = 1 /\ Place(Left(t)) = 2
         /\ Head(thread[t].todo) = "mark" =>
              \/ P(t) = 2 /\ Place(Left(t)) = 3
              \/ P(t) = 25 /\ Place(Left(t)) = 26
         /\ Head(thread[t].todo) = "assign" =>
              \/ P(t) = 3 /\ Place(Left(t)) = 4
              \/ P(t) = 10 /\ Place(Left(t)) = 11
              \/ P(t) = 26 /\ Place(Left(t)) = 27
         /\ Head(thread[t].todo) = "draw" =>
              \/ P(t) = 4 /\ Place(Left(t)) = 5
              \/ P(t) = 11 /\ Place(Left(t)) = 12
              \/ P(t) = 27 /\ Place(Left(t)) = 0
         /\ Head(thread[t].todo) = "start" =>
              P(t) = 5 /\ Place(Left(t)) = 6
         /\ Head(thread[t].todo) = "run" =>
              P(t) = 6 /\ Place(Left(t)) = 7
         /\ Head(thread[t].todo) = "buttons" =>
              \/ P(t) = 7 /\ Place(Left(t)) = 8
              \/ P(t) = 40 /\ Place(Left(t)) = 0
              \/ P(t) = 20 /\ Place(Left(t)) = 25
              \/ P(t) = 23 /\ Place(Left(t)) = 24
         /\ Head(thread[t].todo) = "poll" =>
              P(t) = 8 /\ Place(Left(t)) = 9
         /\ Head(thread[t].todo) = "set" =>
              \/ P(t) = 9 /\ Place(Left(t)) = 10
              \/ P(t) = 30 /\ Place(Left(t)) = 26
         /\ Head(thread[t].todo) = "detach" =>
              \/ P(t) = 12 /\ Place(Left(t)) = 13
              \/ P(t) = 24 /\ Place(Left(t)) = 25
              \/ P(t) = 52 /\ Place(Left(t)) = 53
         /\ Head(thread[t].todo) = "attach" =>
              P(t) = 13 /\ Place(Left(t)) = 0
         /\ Head(thread[t].todo) = "stop" =>
              \/ P(t) = 21 /\ Place(Left(t)) = 22
              \/ P(t) = 51 /\ Place(Left(t)) = 52
         /\ Head(thread[t].todo) = "clear" =>
              P(t) = 22 /\ Place(Left(t)) = 23
         /\ Head(thread[t].todo) = "confirm" =>
              P(t) = 50 /\ Place(Left(t)) = 0
         /\ Head(thread[t].todo) = "closed" =>
              P(t) = 53 /\ Place(Left(t)) = 0
<1>1. thread[t].todo \in AllTodos /\ thread[t].todo # <<>>
  BY DEF ThreadsFit, Thread, Busy
<1>2. P(t) # 0
  BY <1>1, Steps DEF P
<1>3. thread[t].alive
  BY <1>2 DEF ThreadsFit
<1>4. QED
  BY <1>1, <1>2, <1>3, Steps DEF P, Left

LEMMA IdlePlace ==
  ASSUME ThreadsFit, NEW t \in Threads
  PROVE  (P(t) = 0 <=> thread[t].todo = <<>>) /\ (Busy(t) <=> P(t) # 0)
  BY Steps DEF ThreadsFit, Thread, P, Busy

LEMMA GotoWrites ==
  ASSUME Typed, NEW t \in Threads, thread[t].alive, NEW todo \in AllTodos, Goto(t, todo)
  PROVE  /\ Moves(t) /\ P(t)' = Place(todo)
         /\ thread'[t].alive \/ P(t)' = 0
         /\ todo # <<>> => thread'[t] = [thread[t] EXCEPT !.todo = todo]
         /\ todo = <<>> => thread'[t] = Rest(t)
<1>1. thread \in [Threads -> Thread]
  BY DEF Typed, ThreadsFit
<1>2. thread[t] \in Thread /\ thread'[t] = Does(t, todo, thread[t])
  BY <1>1 DEF Goto
<1>3. Place(<<>>) = 0
  BY PlaceFacts
<1>4. CASE todo = <<>>
  <2>1. thread'[t] = Rest(t) /\ Rest(t) \in Thread /\ Rest(t).todo = <<>>
    BY <1>2, <1>4, BeginIsThread DEF Does, Rest
  <2>2. QED
    BY <1>1, <1>3, <1>4, <2>1 DEF Goto, Moves, P
<1>5. CASE todo # <<>>
  <2>1. thread'[t] = [thread[t] EXCEPT !.todo = todo]
    BY <1>2, <1>5 DEF Does
  <2>2. thread'[t] \in Thread /\ thread'[t].todo = todo /\ thread'[t].alive
    BY <1>2, <2>1 DEF Thread
  <2>3. QED
    BY <1>1, <1>5, <2>1, <2>2 DEF Goto, Moves, P
<1>6. QED
  BY <1>4, <1>5

LEMMA GotoMoves ==
  ASSUME Typed, NEW t \in Threads, thread[t].alive, NEW todo \in AllTodos, Goto(t, todo)
  PROVE  Moves(t) /\ P(t)' = Place(todo) /\ (thread'[t].alive \/ P(t)' = 0)
  BY GotoWrites

\* Goroutine t gets these locals.
LEMMA Writes ==
  ASSUME ThreadsFit, NEW t \in Threads, NEW r \in Thread, thread' = [thread EXCEPT ![t] = r]
  PROVE  Moves(t) /\ thread'[t] = r /\ P(t)' = Place(r.todo)
  BY DEF ThreadsFit, Moves, P

-----------------------------------------------------------------------------
(* What the steps do.                                                      *)

Handlers == {"window", "ready"}

LEMMA StartMoves ==
  ASSUME Typed, NEW t \in Handlers, Idle(t), StartPublisher(t)
  PROVE  /\ Moves(t) /\ P(t) = 0 /\ P(t)' = (IF running THEN 40 ELSE 1)
         /\ thread'[t].alive
<1>1. t \in Threads /\ thread[t].alive /\ P(t) = 0
  BY IdlePlace DEF Handlers, Threads, Idle, Typed
<1>2. /\ <<"buttons">> = Buttons /\ Buttons \in AllTodos /\ Start \in AllTodos
      /\ Place(Buttons) = 40 /\ Place(Start) = 1
  BY PlaceFacts DEF AllTodos, Buttons
<1>3. ASSUME running PROVE Moves(t) /\ P(t)' = 40 /\ thread'[t].alive
  <2>1. Goto(t, Buttons)
    BY <1>2, <1>3 DEF StartPublisher
  <2>2. QED
    BY <1>1, <1>2, <2>1, GotoMoves
<1>4. ASSUME ~running PROVE Moves(t) /\ P(t)' = 1 /\ thread'[t].alive
  <2>1. Goto(t, Start)
    BY <1>4 DEF StartPublisher
  <2>2. QED
    BY <1>1, <1>2, <2>1, GotoMoves
<1>5. QED
  BY <1>1, <1>3, <1>4

LEMMA ReadConfigMoves ==
  ASSUME Typed, NEW t \in Threads, ReadConfig(t)
  PROVE  /\ Moves(t) /\ P(t) = 1 /\ thread'[t].alive
         /\ \/ P(t)' = 2 /\ publisher' = [publisher EXCEPT !.targets = NamesOf(form)]
            \/ P(t)' = 40 /\ UNCHANGED publisher
<1>1. /\ thread[t].alive /\ Left(t) \in AllTodos /\ P(t) = 1 /\ Place(Left(t)) = 2
  BY AtPlaces DEF ReadConfig, At, Typed
<1>2. <<"buttons">> = Buttons /\ Buttons \in AllTodos /\ Place(Buttons) = 40
  BY PlaceFacts DEF AllTodos, Buttons
<1>3. ASSUME Goto(t, Left(t)) PROVE Moves(t) /\ P(t)' = 2 /\ thread'[t].alive
  BY <1>1, <1>3, GotoMoves
<1>4. ASSUME Goto(t, Buttons) PROVE Moves(t) /\ P(t)' = 40 /\ thread'[t].alive
  BY <1>1, <1>2, <1>4, GotoMoves
<1>5. \/ publisher' = [publisher EXCEPT !.targets = NamesOf(form)] /\ Goto(t, Left(t))
      \/ Goto(t, Buttons) /\ UNCHANGED publisher
  BY <1>2 DEF ReadConfig
<1>6. QED
  BY <1>1, <1>3, <1>4, <1>5

LEMMA MarkAllMoves ==
  ASSUME Typed, NEW t \in Threads, MarkAll(t)
  PROVE  /\ Moves(t) /\ thread'[t].form = form /\ ~thread'[t].built /\ thread'[t].alive
         /\ \/ P(t) = 2 /\ P(t)' = 3 /\ targetStatus' = SetAll("Starting")
            \/ P(t) = 25 /\ P(t)' = 26 /\ targetStatus' = SetAll("Stopped")
<1>1. /\ thread[t].alive /\ Left(t) \in AllTodos
      /\ \/ P(t) = 2 /\ Place(Left(t)) = 3
         \/ P(t) = 25 /\ Place(Left(t)) = 26
  BY AtPlaces DEF MarkAll, At, Typed
<1>2. Len(Left(t)) > Len(RefreshPreview) <=> P(t) = 2
  <2>1. thread[t].todo \in AllTodos /\ thread[t].todo # <<>> /\ Head(thread[t].todo) = "mark"
    BY AtPlaces DEF MarkAll, At, Typed, Busy
  <2>2. QED
    BY <2>1, Steps DEF P, Left
<1> DEFINE r == [thread[t] EXCEPT !.todo = Left(t), !.form = form, !.built = FALSE]
<1>3. r \in Thread /\ r.todo = Left(t) /\ r.form = form /\ ~r.built /\ r.alive
  BY <1>1 DEF Typed, ThreadsFit, Thread
<1>4. thread' = [thread EXCEPT ![t] = r]
  BY DEF MarkAll, Left, Typed, ThreadsFit
<1> HIDE DEF r
<1>5. Moves(t) /\ thread'[t] = r /\ P(t)' = Place(Left(t))
  BY <1>3, <1>4, Writes DEF Typed
<1>6. targetStatus' = SetAll(IF P(t) = 2 THEN "Starting" ELSE "Stopped")
  BY <1>2 DEF MarkAll
<1>7. QED
  BY <1>1, <1>3, <1>5, <1>6

LEMMA GotoLeftMoves ==
  ASSUME Typed, NEW t \in Threads, Busy(t), Goto(t, Left(t))
  PROVE  /\ Moves(t) /\ P(t)' = Place(Left(t))
         /\ thread'[t].alive \/ P(t)' = 0
  BY AtPlaces, GotoMoves DEF Typed

LEMMA StartWorkerMoves ==
  ASSUME Typed, NEW t \in Threads, StartWorker(t)
  PROVE  Moves(t) /\ P(t) = 5 /\ P(t)' = 6 /\ thread'[t].alive
<1>1. Busy(t) /\ P(t) = 5 /\ Place(Left(t)) = 6
  BY AtPlaces DEF StartWorker, At, Typed
<1>2. QED
  BY <1>1, GotoLeftMoves DEF StartWorker

LEMMA SetRunningMoves ==
  ASSUME Typed, NEW t \in Threads, SetRunning(t)
  PROVE  Moves(t) /\ P(t) = 6 /\ P(t)' = 7 /\ thread'[t].alive
<1>1. Busy(t) /\ P(t) = 6 /\ Place(Left(t)) = 7
  BY AtPlaces DEF SetRunning, At, Typed
<1>2. QED
  BY <1>1, GotoLeftMoves DEF SetRunning

LEMMA SetButtonsMoves ==
  ASSUME Typed, NEW t \in Threads, SetButtons(t)
  PROVE  /\ Moves(t) /\ (thread'[t].alive \/ P(t)' = 0)
         /\ \/ P(t) = 7 /\ P(t)' = 8
            \/ P(t) = 40 /\ P(t)' = 0
            \/ P(t) = 20 /\ P(t)' = 25
            \/ P(t) = 23 /\ P(t)' = 24
<1>1. /\ Busy(t)
      /\ \/ P(t) = 7 /\ Place(Left(t)) = 8
         \/ P(t) = 40 /\ Place(Left(t)) = 0
         \/ P(t) = 20 /\ Place(Left(t)) = 25
         \/ P(t) = 23 /\ Place(Left(t)) = 24
  BY AtPlaces DEF SetButtons, At, Typed
<1>2. QED
  BY <1>1, GotoLeftMoves DEF SetButtons

LEMMA ReadStatusMoves ==
  ASSUME Typed, NEW t \in Threads, ReadStatus(t)
  PROVE  /\ Moves(t) /\ P(t) = 8 /\ P(t)' = 9 /\ thread'[t].alive
         /\ thread'[t].status = Snapshot
<1>1. /\ thread[t].alive /\ Left(t) \in AllTodos /\ P(t) = 8 /\ Place(Left(t)) = 9
  BY AtPlaces DEF ReadStatus, At, Typed
<1> DEFINE r == [thread[t] EXCEPT !.todo = Left(t), !.status = Snapshot]
<1>2. r \in Thread /\ r.todo = Left(t) /\ r.status = Snapshot /\ r.alive
  BY <1>1, SnapshotIsStatus DEF Typed, ThreadsFit, Thread
<1>3. thread' = [thread EXCEPT ![t] = r]
  BY DEF ReadStatus, Left, Typed, ThreadsFit
<1> HIDE DEF r
<1>4. Moves(t) /\ thread'[t] = r /\ P(t)' = Place(Left(t))
  BY <1>2, <1>3, Writes DEF Typed
<1>5. QED
  BY <1>1, <1>2, <1>4

LEMMA SetTargetStatusMoves ==
  ASSUME Typed, NEW t \in Threads, SetTargetStatus(t)
  PROVE  /\ Moves(t) /\ thread'[t].form = form /\ ~thread'[t].built /\ thread'[t].alive
         /\ \/ P(t) = 9 /\ P(t)' = 10
            \/ P(t) = 30 /\ P(t)' = 26
<1>1. /\ thread[t].alive /\ Left(t) \in AllTodos
      /\ \/ P(t) = 9 /\ Place(Left(t)) = 10
         \/ P(t) = 30 /\ Place(Left(t)) = 26
  BY AtPlaces DEF SetTargetStatus, At, Typed
<1> DEFINE r == [thread[t] EXCEPT !.todo = Left(t), !.status = NoStatus, !.form = form,
                                  !.built = FALSE]
<1>2. r \in Thread /\ r.todo = Left(t) /\ r.form = form /\ ~r.built /\ r.alive
  BY <1>1, NoStatusIsStatus DEF Typed, ThreadsFit, Thread
<1>3. thread' = [thread EXCEPT ![t] = r]
  BY DEF SetTargetStatus, Left, Typed, ThreadsFit
<1> HIDE DEF r
<1>4. Moves(t) /\ thread'[t] = r /\ P(t)' = Place(Left(t))
  BY <1>2, <1>3, Writes DEF Typed
<1>5. QED
  BY <1>1, <1>2, <1>4

LEMMA BuildPreviewsMoves ==
  ASSUME Typed, NEW t \in Threads, BuildPreviews(t)
  PROVE  /\ Moves(t) /\ P(t)' = P(t) /\ thread'[t].form = thread[t].form
         /\ thread[t].alive /\ thread'[t].alive /\ thread[t].form \in Forms
         /\ P(t) \in {3, 10, 26}
<1>1. thread[t].alive /\ thread[t].todo \in AllTodos /\ P(t) \in {3, 10, 26}
  BY AtPlaces DEF BuildPreviews, At, Typed
<1> DEFINE r == [thread[t] EXCEPT !.built = TRUE]
<1>2. thread[t] \in Thread
  BY DEF Typed, ThreadsFit
<1>3. /\ r \in Thread /\ r.todo = thread[t].todo /\ r.form = thread[t].form /\ r.alive
      /\ thread[t].form \in Forms
  BY <1>1, <1>2 DEF Thread
<1>4. thread' = [thread EXCEPT ![t] = r]
  BY DEF BuildPreviews, Typed, ThreadsFit
<1> HIDE DEF r
<1>5. Moves(t) /\ thread'[t] = r /\ P(t)' = Place(thread[t].todo)
  BY <1>1, <1>3, <1>4, Writes DEF Typed
<1>6. QED
  BY <1>1, <1>3, <1>5 DEF P

\* No goroutine comes to another place.
LEMMA BuildStays ==
  ASSUME Typed, NEW t \in Threads, BuildPreviews(t)
  PROVE  \A u \in Threads : P(u)' = P(u)
BY BuildPreviewsMoves DEF Moves

LEMMA ApplyStatusMoves ==
  ASSUME Typed, NEW t \in Threads, ApplyStatus(t)
  PROVE  /\ Moves(t) /\ thread'[t].rows = RowsOf(previews) /\ thread'[t].alive
         /\ thread[t].built
         /\ \/ P(t) = 3 /\ P(t)' = 4
            \/ P(t) = 10 /\ P(t)' = 11
            \/ P(t) = 26 /\ P(t)' = 27
<1>1. /\ thread[t].alive /\ Left(t) \in AllTodos
      /\ \/ P(t) = 3 /\ Place(Left(t)) = 4
         \/ P(t) = 10 /\ Place(Left(t)) = 11
         \/ P(t) = 26 /\ Place(Left(t)) = 27
  BY AtPlaces DEF ApplyStatus, At, Typed
<1> DEFINE r == [thread[t] EXCEPT !.todo = Left(t), !.form = Begin.form, !.built = FALSE,
                                  !.rows = RowsOf(previews)]
<1>2. Begin.form \in Forms /\ thread[t].built
  BY BeginIsThread DEF Typed, ThreadsFit, Thread, ApplyStatus
<1>3. RowsOf(previews) \in Nat
  <2>1. IsFiniteSet(Names)
    <3> DEFINE kinds == {"video"} \cup {"audio"}
    <3>1. IsFiniteSet(kinds)
      BY FS_Singleton, FS_Union
    <3>2. IsFiniteSet(Sites \X kinds)
      BY <3>1, UIAssumption, FS_Product
    <3>3. {"video", "audio"} = kinds
      OBVIOUS
    <3>4. QED
      BY <3>2, <3>3 DEF Names
  <2>2. IsFiniteSet(DOMAIN previews)
    BY <2>1, StatusIsFunction, FS_Subset DEF Typed
  <2>3. QED
    BY <2>2, FS_CardinalityType DEF RowsOf
<1>4. r \in Thread /\ r.todo = Left(t) /\ r.rows = RowsOf(previews) /\ r.alive
  BY <1>1, <1>2, <1>3 DEF Typed, ThreadsFit, Thread
<1>5. thread' = [thread EXCEPT ![t] = r]
  BY DEF ApplyStatus, Left, Typed, ThreadsFit
<1> HIDE DEF r
<1>6. Moves(t) /\ thread'[t] = r /\ P(t)' = Place(Left(t))
  BY <1>4, <1>5, Writes DEF Typed
<1>7. QED
  BY <1>1, <1>2, <1>4, <1>6

LEMMA ChangeFormMoves ==
  ASSUME Typed, ChangeForm
  PROVE  /\ Moves("window") /\ P("window") = 0 /\ P("window")' = 26
         /\ thread'["window"].form = form' /\ ~thread'["window"].built
         /\ form' \in Forms /\ thread'["window"].alive
<1> DEFINE t == "window"
           r == [Begin EXCEPT !.todo = RefreshPreview, !.form = form']
<1>1. t \in Threads /\ P(t) = 0 /\ Begin \in Thread /\ Begin.alive /\ ~Begin.built
  BY IdlePlace, BeginIsThread DEF Threads, Idle, Typed, ChangeForm, UserActs, Begin
<1>2. form' \in Forms /\ RefreshPreview \in AllTodos /\ Place(RefreshPreview) = 26
  BY PlaceFacts DEF ChangeForm, AllTodos
<1>3. r \in Thread /\ r.todo = RefreshPreview /\ r.form = form' /\ ~r.built /\ r.alive
  BY <1>1, <1>2 DEF Thread
<1>4. thread' = [thread EXCEPT ![t] = r]
  BY DEF ChangeForm
<1> HIDE DEF r
<1>5. Moves(t) /\ thread'[t] = r /\ P(t)' = Place(RefreshPreview)
  BY <1>1, <1>2, <1>3, <1>4, Writes DEF Typed
<1> HIDE DEF t
<1>6. QED
  BY <1>1, <1>2, <1>3, <1>5 DEF t

LEMMA DrawRowsMoves ==
  ASSUME Typed, NEW t \in Threads, DrawRows(t)
  PROVE  \/ /\ Moves(t) /\ UNCHANGED <<running, life, raced>>
            /\ thread'[t].alive \/ P(t)' = 0
            /\ \/ P(t) = 4 /\ P(t)' = 5
               \/ P(t) = 11 /\ P(t)' = 12
               \/ P(t) = 27 /\ P(t)' = 0
         \/ /\ Moves(t) /\ t = "ready" /\ running' = FALSE /\ Race({"handler"}) /\ UNCHANGED life
            /\ P(t) \in {4, 11} /\ P(t)' = 20 /\ thread'[t].alive
            /\ Cardinality(DOMAIN previews) < thread[t].rows
         \/ /\ life' = "crashed" /\ UNCHANGED <<running, thread, raced>> /\ P(t) \in {4, 11, 27}
            /\ Cardinality(DOMAIN previews) < thread[t].rows
<1>1. /\ thread[t].alive /\ Left(t) \in AllTodos
      /\ \/ P(t) = 4 /\ Place(Left(t)) = 5
         \/ P(t) = 11 /\ Place(Left(t)) = 12
         \/ P(t) = 27 /\ Place(Left(t)) = 0
  BY AtPlaces DEF DrawRows, At, Typed
<1>2. Left(t) = <<>> <=> P(t) = 27
  BY <1>1, Steps
<1>3. CASE ~(Cardinality(DOMAIN previews) < thread[t].rows)
  <2> DEFINE r == Does(t, Left(t), [thread[t] EXCEPT !.rows = 0])
  <2>1. thread[t] \in Thread
    BY DEF Typed, ThreadsFit
  <2>2. r \in Thread /\ r.todo = Left(t) /\ (r.alive \/ Left(t) = <<>>)
    <3>1. CASE Left(t) = <<>>
      BY <3>1, BeginIsThread DEF Does, Rest
    <3>2. CASE Left(t) # <<>>
      <4> DEFINE q == [thread[t] EXCEPT !.rows = 0, !.todo = Left(t)]
      <4>1. r = q
        BY <2>1, <3>2 DEF Does, Thread
      <4>2. q \in Thread /\ q.todo = Left(t) /\ q.alive
        BY <1>1, <2>1 DEF Thread
      <4> HIDE DEF r, q
      <4>3. QED
        BY <4>1, <4>2
    <3>3. QED
      BY <3>1, <3>2
  <2>3. thread' = [thread EXCEPT ![t] = r] /\ UNCHANGED <<running, life, raced>>
    BY <1>3 DEF DrawRows, Typed, ThreadsFit
  <2> HIDE DEF r
  <2>4. Moves(t) /\ thread'[t] = r /\ P(t)' = Place(Left(t))
    BY <2>2, <2>3, Writes DEF Typed
  <2>5. QED
    BY <1>1, <1>2, <2>2, <2>3, <2>4
<1>4. CASE Cardinality(DOMAIN previews) < thread[t].rows
  <2>1. Panics(t)
    BY <1>4 DEF DrawRows
  <2>2. CASE t = "ready" /\ Left(t) # <<>>
    <3> DEFINE r == [Begin EXCEPT !.todo = Recovery]
    <3>1. Recovery \in AllTodos /\ Place(Recovery) = 20
      BY PlaceFacts DEF AllTodos
    <3>2. r \in Thread /\ r.todo = Recovery /\ r.alive
      BY <3>1, BeginIsThread DEF Thread
    <3>3. thread' = [thread EXCEPT ![t] = r] /\ running' = FALSE /\ Race({"handler"}) /\ UNCHANGED life
      BY <2>1, <2>2 DEF Panics
    <3> HIDE DEF r
    <3>4. Moves(t) /\ thread'[t] = r /\ P(t)' = 20
      BY <3>1, <3>2, <3>3, Writes DEF Typed
    <3>5. QED
      BY <1>1, <1>2, <1>4, <2>2, <3>2, <3>3, <3>4
  <2>3. CASE ~(t = "ready" /\ Left(t) # <<>>)
    BY <1>1, <1>4, <2>1, <2>3 DEF Panics
  <2>4. QED
    BY <2>2, <2>3
<1>5. QED
  BY <1>3, <1>4

LEMMA StopPollingMoves ==
  ASSUME Typed, NEW t \in Threads, StopPolling(t)
  PROVE  /\ Moves(t) /\ (thread'[t].alive \/ P(t)' = 0)
         /\ \/ P(t) = 12 /\ P(t)' = 13
            \/ P(t) = 24 /\ P(t)' = 25
            \/ P(t) = 52 /\ P(t)' = 53
<1>1. /\ Busy(t)
      /\ \/ P(t) = 12 /\ Place(Left(t)) = 13
         \/ P(t) = 24 /\ Place(Left(t)) = 25
         \/ P(t) = 52 /\ Place(Left(t)) = 53
  BY AtPlaces DEF StopPolling, At, Typed
<1>2. QED
  BY <1>1, GotoLeftMoves DEF StopPolling

LEMMA StartPollingMoves ==
  ASSUME Typed, NEW t \in Handlers, StartPolling(t)
  PROVE  /\ P(t) = 13 /\ P(t)' = 0 /\ thread' \in [Threads -> Thread]
         /\ \E p \in Polls \ (stopped \cup {statusStop}) :
              /\ statusStop' = p /\ P(p) = 0 /\ P(p)' = 0
              /\ ~thread[p].alive /\ thread'[p] = Begin
              /\ \A u \in Threads \ {t, p} : thread'[u] = thread[u] /\ P(u)' = P(u)
<1>1. t \in Threads
  BY DEF Handlers, Threads
<1>2. P(t) = 13
  BY <1>1, AtPlaces DEF StartPolling, At, Typed
<1>3. PICK p \in Polls \ (stopped \cup {statusStop}) :
       /\ ~thread[p].alive /\ statusStop' = p
       /\ thread' = [thread EXCEPT ![p] = Begin, ![t] = Rest(t)]
  BY DEF StartPolling
<1>4. p \in Threads /\ p # t
  BY UIAssumption DEF Threads, Handlers
<1>5. Begin \in Thread /\ Rest(t) \in Thread /\ Begin.todo = <<>> /\ Rest(t).todo = <<>>
  BY BeginIsThread DEF Rest
<1>6. /\ thread' \in [Threads -> Thread] /\ thread'[p] = Begin /\ thread'[t] = Rest(t)
      /\ \A u \in Threads \ {t, p} : thread'[u] = thread[u]
  BY <1>1, <1>3, <1>4, <1>5 DEF Typed, ThreadsFit
<1>7. P(p) = 0
  BY <1>3, <1>4 DEF Typed, ThreadsFit
<1>8. P(p)' = 0 /\ P(t)' = 0 /\ \A u \in Threads \ {t, p} : P(u)' = P(u)
  BY <1>5, <1>6, PlaceFacts DEF P
<1>9. QED
  BY <1>2, <1>3, <1>6, <1>7, <1>8

LEMMA PollTicksMoves ==
  ASSUME Typed, NEW p \in Polls, PollTicks(p)
  PROVE  /\ Moves(p) /\ P(p) = 0 /\ P(p)' = 30 /\ thread'[p].alive
         /\ thread'[p].status = Snapshot
<1>1. p \in Threads /\ thread[p] \in Thread /\ thread[p].alive /\ P(p) = 0
  BY IdlePlace DEF Threads, Idle, Typed, ThreadsFit, PollTicks
<1>2. /\ StatusRefresh \in AllTodos /\ Place(StatusRefresh) = 30
      /\ Snapshot \in Statuses
  BY PlaceFacts, SnapshotIsStatus DEF AllTodos
<1> DEFINE r == [thread[p] EXCEPT !.todo = StatusRefresh, !.status = Snapshot]
<1>3. r \in Thread /\ r.todo = StatusRefresh /\ r.status = Snapshot /\ r.alive
  BY <1>1, <1>2 DEF Thread
<1>4. thread' = [thread EXCEPT ![p] = r]
  BY <1>1 DEF PollTicks, Typed, ThreadsFit
<1> HIDE DEF r
<1>5. Moves(p) /\ thread'[p] = r /\ P(p)' = Place(StatusRefresh)
  BY <1>1, <1>3, <1>4, Writes DEF Typed
<1>6. QED
  BY <1>1, <1>2, <1>3, <1>5

LEMMA PollEndsMoves ==
  ASSUME Typed, NEW p \in Polls, PollEnds(p)
  PROVE  Moves(p) /\ P(p) = 0 /\ P(p)' = 0 /\ ~thread'[p].alive
<1>1. p \in Threads /\ P(p) = 0
  BY IdlePlace DEF Threads, Idle, Typed, PollEnds
<1>2. Off \in Thread /\ ~Off.alive /\ Place(Off.todo) = 0
  BY BeginIsThread, PlaceFacts
<1>3. thread' = [thread EXCEPT ![p] = Off]
  BY DEF PollEnds
<1>4. QED
  BY <1>1, <1>2, <1>3, Writes DEF Typed

LEMMA WindowAtRest ==
  ASSUME Typed, Idle("window")
  PROVE  "window" \in Threads /\ thread["window"].alive /\ P("window") = 0
  BY IdlePlace DEF Threads, Idle, Typed

LEMMA PressStopMoves ==
  ASSUME Typed, PressStop
  PROVE  /\ Moves("window") /\ P("window") = 0 /\ P("window")' = (IF running THEN 21 ELSE 40)
         /\ thread'["window"].alive
<1>1. "window" \in Threads /\ thread["window"].alive /\ P("window") = 0
  BY WindowAtRest DEF PressStop
<1>2. /\ <<"buttons">> = Buttons /\ Buttons \in AllTodos /\ Stop \in AllTodos
      /\ Place(Buttons) = 40 /\ Place(Stop) = 21
  BY PlaceFacts DEF AllTodos, Buttons
<1>3. ASSUME running PROVE Moves("window") /\ P("window")' = 21 /\ thread'["window"].alive
  <2>1. Goto("window", Stop)
    BY <1>3 DEF PressStop
  <2>2. QED
    BY <1>1, <1>2, <2>1, GotoMoves
<1>4. ASSUME ~running PROVE Moves("window") /\ P("window")' = 40 /\ thread'["window"].alive
  <2>1. Goto("window", Buttons)
    BY <1>2, <1>4 DEF PressStop
  <2>2. QED
    BY <1>1, <1>2, <2>1, GotoMoves
<1>5. QED
  BY <1>1, <1>3, <1>4

LEMMA PressCloseMoves ==
  ASSUME Typed, PressClose
  PROVE  /\ Moves("window") /\ P("window") = 0 /\ P("window")' = (IF running THEN 50 ELSE 52)
         /\ thread'["window"].alive
<1>1. "window" \in Threads /\ thread["window"].alive /\ P("window") = 0
  BY WindowAtRest DEF PressClose
<1>2. /\ <<"confirm">> = Confirm /\ Confirm \in AllTodos /\ Close \in AllTodos
      /\ Place(Confirm) = 50 /\ Place(Close) = 52
  BY PlaceFacts DEF AllTodos, Confirm
<1>3. ASSUME running PROVE Moves("window") /\ P("window")' = 50 /\ thread'["window"].alive
  <2>1. Goto("window", Confirm)
    BY <1>2, <1>3 DEF PressClose
  <2>2. QED
    BY <1>1, <1>2, <2>1, GotoMoves
<1>4. ASSUME ~running PROVE Moves("window") /\ P("window")' = 52 /\ thread'["window"].alive
  <2>1. Goto("window", Close)
    BY <1>4 DEF PressClose
  <2>2. QED
    BY <1>1, <1>2, <2>1, GotoMoves
<1>5. QED
  BY <1>1, <1>3, <1>4

LEMMA AnswerCloseMoves ==
  ASSUME Typed, AnswerClose
  PROVE  /\ Moves("window") /\ P("window") = 50 /\ P("window")' \in {0, 51}
         /\ thread'["window"].alive \/ P("window")' = 0
<1>1. "window" \in Threads /\ thread["window"].alive /\ P("window") = 50
  BY AtPlaces DEF AnswerClose, At, Typed, Threads
<1>2. /\ <<>> \in AllTodos /\ StopAndClose \in AllTodos
      /\ Place(<<>>) = 0 /\ Place(StopAndClose) = 51
  BY PlaceFacts DEF AllTodos
<1>3. PICK todo \in {<<>>, StopAndClose} : Goto("window", todo)
  BY DEF AnswerClose
<1>4. QED
  BY <1>1, <1>2, <1>3, GotoMoves

LEMMA StopWorkerMoves ==
  ASSUME Typed, StopWorker
  PROVE  /\ P("window") \in {21, 51}
         /\ \/ /\ Moves("window") /\ UNCHANGED life /\ thread'["window"].alive
               /\ P("window")' = P("window") + 1
               /\ \E w \in IF publisher.worker = "Stopped" THEN {"Stopped"} ELSE {"Stopped", "Ending"} :
                    /\ publisher' = [publisher EXCEPT !.worker = w]
                    /\ Race(IF w = "Ending" THEN {"handler"} ELSE {})
            \/ /\ publisher.worker = "Ending" /\ life' = "crashed"
               /\ UNCHANGED <<publisher, thread, raced>>
<1>1. /\ "window" \in Threads /\ Busy("window")
      /\ \/ P("window") = 21 /\ Place(Left("window")) = 22
         \/ P("window") = 51 /\ Place(Left("window")) = 52
  BY AtPlaces DEF StopWorker, At, Typed, Threads
<1>2. ASSUME publisher.worker # "Ending"
      PROVE /\ Moves("window") /\ UNCHANGED life /\ thread'["window"].alive
            /\ P("window")' = P("window") + 1
  <2>1. Goto("window", Left("window")) /\ UNCHANGED life
    BY <1>2 DEF StopWorker
  <2>2. /\ Moves("window") /\ P("window")' = Place(Left("window"))
        /\ thread'["window"].alive \/ P("window")' = 0
    BY <1>1, <2>1, GotoLeftMoves
  <2>3. QED
    BY <1>1, <2>1, <2>2
<1>3. QED
  BY <1>1, <1>2 DEF StopWorker

LEMMA ClearRunningMoves ==
  ASSUME Typed, ClearRunning
  PROVE  Moves("window") /\ P("window") = 22 /\ P("window")' = 23 /\ thread'["window"].alive
<1>1. "window" \in Threads /\ Busy("window") /\ P("window") = 22 /\ Place(Left("window")) = 23
  BY AtPlaces DEF ClearRunning, At, Typed, Threads
<1>2. QED
  BY <1>1, GotoLeftMoves DEF ClearRunning

LEMMA CloseWindowMoves ==
  ASSUME Typed, CloseWindow
  PROVE  P("window") = 53
  BY AtPlaces DEF CloseWindow, At, Typed, Threads

LEMMA ReadyGivesUp ==
  ASSUME Typed, Idle("ready"), Goto("ready", <<>>)
  PROVE  Moves("ready") /\ P("ready") = 0 /\ P("ready")' = 0
<1>1. "ready" \in Threads /\ thread["ready"].alive /\ P("ready") = 0
  BY IdlePlace DEF Threads, Idle, Typed
<1>2. <<>> \in AllTodos /\ Place(<<>>) = 0
  BY PlaceFacts DEF AllTodos
<1>3. QED
  BY <1>1, <1>2, GotoMoves

-----------------------------------------------------------------------------
(* The steps of the program, one by one.                                   *)

LEMMA NextIs ==
  ASSUME Next
  PROVE  \/ \E t \in Handlers :
              \/ Idle(t) /\ StartPublisher(t)
              \/ ReadConfig(t) \/ MarkAll(t) \/ StartWorker(t) \/ SetRunning(t)
              \/ SetButtons(t) \/ ReadStatus(t) \/ StopPolling(t) \/ StartPolling(t)
         \/ \E t \in Threads :
              SetTargetStatus(t) \/ BuildPreviews(t) \/ ApplyStatus(t) \/ DrawRows(t)
         \/ \E p \in Polls : PollTicks(p) \/ PollEnds(p)
         \/ Idle("ready") /\ Goto("ready", <<>>)
             /\ UNCHANGED <<widgets, table, polling, running, publisher, life, raced>>
         \/ ChangeForm \/ PressStop \/ StopWorker \/ ClearRunning
         \/ PressClose \/ AnswerClose \/ CloseWindow \/ WorkerMoves
<1>1. /\ "window" \in Handlers /\ "ready" \in Handlers
      /\ "window" \in Threads /\ "ready" \in Threads /\ Polls \subseteq Threads
  BY DEF Handlers, Threads
<1>2. ASSUME PressStart PROVE \E t \in Handlers : Idle(t) /\ StartPublisher(t)
  BY <1>1, <1>2 DEF PressStart, UserActs
<1>3. QED
  BY <1>1, <1>2 DEF Next, Program, WindowStep, CodeStep, PollStep, StartOnReady

\* What may be assumed of the place of a goroutine, and has to be shown of the next.
LEMMA PlacesAre ==
  ASSUME ThreadsFit, NEW t \in Threads
  PROVE  /\ t = "window" => PlacesOf(t) = WindowPlaces /\ P(t) \in WindowPlaces
         /\ t = "ready" => PlacesOf(t) = ReadyPlaces /\ P(t) \in ReadyPlaces
         /\ t \in Polls => PlacesOf(t) = PollPlaces /\ P(t) \in PollPlaces
         /\ t = "window" \/ t = "ready" \/ t \in Polls
  BY UIAssumption DEF PlacesOf, Threads, ThreadsFit

LEMMA ThreadsAre ==
  /\ Handlers = {"window", "ready"} /\ Handlers \subseteq Threads /\ Polls \subseteq Threads
  /\ "window" \in Threads /\ "ready" \in Threads
  /\ \A p \in Polls : p \notin Handlers
  BY UIAssumption DEF Handlers, Threads

LEMMA TypedFits == ASSUME Typed PROVE ThreadsFit
  BY DEF Typed

LEMMA StayFits ==
  ASSUME ThreadsFit, UNCHANGED thread
  PROVE  ThreadsFit'
  BY DEF ThreadsFit, P

LEMMA ThreadsFitNext ==
  ASSUME Typed, [Next]_vars
  PROVE  ThreadsFit'
<1>1. ASSUME NEW t \in Handlers, Idle(t) /\ StartPublisher(t)
      PROVE  ThreadsFit'
  BY <1>1, StartMoves, TypedFits, ThreadsAre, PlacesAre, MoveFits
     DEF WindowPlaces, ReadyPlaces, PollPlaces
<1>2. ASSUME Idle("ready") /\ Goto("ready", <<>>)
             /\ UNCHANGED <<widgets, table, polling, running, publisher, life, raced>>
      PROVE  ThreadsFit'
  BY <1>2, ReadyGivesUp, TypedFits, ThreadsAre, PlacesAre, MoveFits
     DEF WindowPlaces, ReadyPlaces, PollPlaces
<1>3. ASSUME NEW t \in Handlers, ReadConfig(t)
      PROVE  ThreadsFit'
  BY <1>3, ReadConfigMoves, TypedFits, ThreadsAre, PlacesAre, MoveFits
     DEF WindowPlaces, ReadyPlaces, PollPlaces
<1>4. ASSUME NEW t \in Handlers, MarkAll(t)
      PROVE  ThreadsFit'
  BY <1>4, MarkAllMoves, TypedFits, ThreadsAre, PlacesAre, MoveFits
     DEF WindowPlaces, ReadyPlaces, PollPlaces
<1>5. ASSUME NEW t \in Handlers, StartWorker(t)
      PROVE  ThreadsFit'
  BY <1>5, StartWorkerMoves, TypedFits, ThreadsAre, PlacesAre, MoveFits
     DEF WindowPlaces, ReadyPlaces, PollPlaces
<1>6. ASSUME NEW t \in Handlers, SetRunning(t)
      PROVE  ThreadsFit'
  BY <1>6, SetRunningMoves, TypedFits, ThreadsAre, PlacesAre, MoveFits
     DEF WindowPlaces, ReadyPlaces, PollPlaces
<1>7. ASSUME NEW t \in Handlers, SetButtons(t)
      PROVE  ThreadsFit'
  BY <1>7, SetButtonsMoves, TypedFits, ThreadsAre, PlacesAre, MoveFits
     DEF WindowPlaces, ReadyPlaces, PollPlaces
<1>8. ASSUME NEW t \in Handlers, ReadStatus(t)
      PROVE  ThreadsFit'
  BY <1>8, ReadStatusMoves, TypedFits, ThreadsAre, PlacesAre, MoveFits
     DEF WindowPlaces, ReadyPlaces, PollPlaces
<1>9. ASSUME NEW t \in Handlers, StopPolling(t)
      PROVE  ThreadsFit'
  BY <1>9, StopPollingMoves, TypedFits, ThreadsAre, PlacesAre, MoveFits
     DEF WindowPlaces, ReadyPlaces, PollPlaces
<1>10. ASSUME NEW t \in Handlers, StartPolling(t)
      PROVE  ThreadsFit'
  <2>1. t \in Threads /\ ThreadsFit
    BY TypedFits, ThreadsAre
  <2>2. PICK p \in Polls \ (stopped \cup {statusStop}) :
         /\ statusStop' = p /\ P(p) = 0 /\ P(p)' = 0
         /\ ~thread[p].alive /\ thread'[p] = Begin
         /\ \A u \in Threads \ {t, p} : thread'[u] = thread[u] /\ P(u)' = P(u)
    BY <1>10, StartPollingMoves
  <2>3. P(t)' = 0 /\ thread' \in [Threads -> Thread]
    BY <1>10, StartPollingMoves
  <2>4. 0 \in PlacesOf(t) /\ 0 \in PlacesOf(p)
    BY <2>1, PlacesAre, ThreadsAre DEF WindowPlaces, ReadyPlaces, PollPlaces
  <2>5. QED
    BY <2>1, <2>2, <2>3, <2>4 DEF ThreadsFit
<1>11. ASSUME NEW t \in Threads, SetTargetStatus(t)
      PROVE  ThreadsFit'
  BY <1>11, SetTargetStatusMoves, TypedFits, ThreadsAre, PlacesAre, MoveFits
     DEF WindowPlaces, ReadyPlaces, PollPlaces
<1>12. ASSUME NEW t \in Threads, ApplyStatus(t)
      PROVE  ThreadsFit'
  BY <1>12, ApplyStatusMoves, TypedFits, ThreadsAre, PlacesAre, MoveFits
     DEF WindowPlaces, ReadyPlaces, PollPlaces
<1>13. ASSUME NEW t \in Threads, DrawRows(t)
      PROVE  ThreadsFit'
  <2>1. t \in Threads /\ ThreadsFit
    BY TypedFits
  <2>2. ASSUME UNCHANGED thread PROVE ThreadsFit'
    BY <2>1, <2>2, StayFits
  <2>3. ASSUME Moves(t), thread'[t].alive \/ P(t)' = 0,
               \/ P(t) = 4 /\ P(t)' = 5
               \/ P(t) = 11 /\ P(t)' = 12
               \/ P(t)' = 0
               \/ t = "ready" /\ P(t)' = 20
        PROVE  ThreadsFit'
    BY <2>1, <2>3, PlacesAre, MoveFits DEF WindowPlaces, ReadyPlaces, PollPlaces
  <2>4. QED
    BY <1>13, <2>2, <2>3, DrawRowsMoves
<1>14. ASSUME NEW p \in Polls, PollTicks(p)
      PROVE  ThreadsFit'
  BY <1>14, PollTicksMoves, TypedFits, ThreadsAre, PlacesAre, MoveFits
     DEF WindowPlaces, ReadyPlaces, PollPlaces
<1>15. ASSUME NEW p \in Polls, PollEnds(p)
      PROVE  ThreadsFit'
  BY <1>15, PollEndsMoves, TypedFits, ThreadsAre, PlacesAre, MoveFits
     DEF WindowPlaces, ReadyPlaces, PollPlaces
<1>16. ASSUME ChangeForm
      PROVE  ThreadsFit'
  BY <1>16, ChangeFormMoves, TypedFits, ThreadsAre, PlacesAre, MoveFits
     DEF WindowPlaces, ReadyPlaces, PollPlaces
<1>17. ASSUME PressStop
      PROVE  ThreadsFit'
  BY <1>17, PressStopMoves, TypedFits, ThreadsAre, PlacesAre, MoveFits
     DEF WindowPlaces, ReadyPlaces, PollPlaces
<1>18. ASSUME StopWorker
      PROVE  ThreadsFit'
  BY <1>18, StopWorkerMoves, TypedFits, ThreadsAre, PlacesAre, MoveFits, StayFits
     DEF WindowPlaces
<1>19. ASSUME ClearRunning
      PROVE  ThreadsFit'
  BY <1>19, ClearRunningMoves, TypedFits, ThreadsAre, PlacesAre, MoveFits
     DEF WindowPlaces, ReadyPlaces, PollPlaces
<1>20. ASSUME PressClose
      PROVE  ThreadsFit'
  BY <1>20, PressCloseMoves, TypedFits, ThreadsAre, PlacesAre, MoveFits
     DEF WindowPlaces, ReadyPlaces, PollPlaces
<1>21. ASSUME AnswerClose
      PROVE  ThreadsFit'
  BY <1>21, AnswerCloseMoves, TypedFits, ThreadsAre, PlacesAre, MoveFits
     DEF WindowPlaces, ReadyPlaces, PollPlaces
<1>22. ASSUME CloseWindow
      PROVE  ThreadsFit'
  BY <1>22, TypedFits, StayFits DEF CloseWindow
<1>23. ASSUME WorkerMoves
      PROVE  ThreadsFit'
  BY <1>23, TypedFits, StayFits DEF WorkerMoves
<1>24. ASSUME UNCHANGED vars
      PROVE  ThreadsFit'
  BY <1>24, TypedFits, StayFits DEF vars
<1>25. ASSUME NEW t \in Threads, BuildPreviews(t)
      PROVE  ThreadsFit'
  <2>1. P(t)' \in PlacesOf(t)
    BY <1>25, BuildStays DEF Typed, ThreadsFit
  <2>2. QED
    BY <1>25, <2>1, BuildPreviewsMoves, TypedFits, MoveFits
<1> QED
  BY NextIs, <1>1, <1>2, <1>3, <1>4, <1>5, <1>6, <1>7, <1>8, <1>9, <1>10, <1>11, <1>12,
     <1>13, <1>14, <1>15, <1>16, <1>17, <1>18, <1>19, <1>20, <1>21, <1>22, <1>23, <1>24,
     <1>25

LEMMA SetAllIsStatus ==
  ASSUME Typed, NEW v \in Values
  PROVE  SetAll(v) \in Statuses
<1> DEFINE D == DOMAIN targetStatus \cup DOMAIN previews
<1>1. D \subseteq Names /\ \A n \in DOMAIN targetStatus : targetStatus[n] \in Values
  BY StatusIsFunction DEF Typed
<1>2. SetAll(v) \in [D -> Values]
  BY <1>1 DEF SetAll
<1>3. QED
  BY <1>1, <1>2, StatusOfNames

LEMMA PreviewsAreStatus ==
  ASSUME Typed
  PROVE  [n \in DOMAIN previews |-> IF n \in DOMAIN targetStatus THEN targetStatus[n] ELSE "Idle"]
           \in Statuses
<1>1. DOMAIN previews \subseteq Names /\ \A n \in DOMAIN targetStatus : targetStatus[n] \in Values
  BY StatusIsFunction DEF Typed
<1>2. [n \in DOMAIN previews |-> IF n \in DOMAIN targetStatus THEN targetStatus[n] ELSE "Idle"]
        \in [DOMAIN previews -> Values]
  BY <1>1 DEF Values
<1>3. QED
  BY <1>1, <1>2, StatusOfNames

LEMMA RacesAre ==
  ASSUME NEW t
  PROVE  OtherStart(t) \subseteq {"handler"} /\ OtherRefresh(t) \subseteq {"table"}
  BY DEF OtherStart, OtherRefresh

LEMMA BeginPlace ==
  ASSUME Init, NEW t \in Threads
  PROVE  P(t) = 0
<1>1. thread[t].todo = <<>>
  BY DEF Init, Off, Begin
<1>2. QED
  BY <1>1, PlaceFacts DEF P

LEMMA TypedInit ==
  ASSUME Init
  PROVE  Typed
<1>1. PICK f \in Forms : form = f /\ previews = [n \in NamesOf(f) |-> "Idle"]
  BY DEF Init
<1>2. previews \in [NamesOf(f) -> Values] /\ NamesOf(f) \subseteq Names
  BY <1>1, NamesOfForm DEF Values
<1>3. previews \in Statuses /\ targetStatus \in Statuses
  BY <1>2, StatusOfNames, NoStatusIsStatus DEF Init
<1>4. Begin \in Thread /\ Off \in Thread /\ Begin.todo = <<>> /\ Off.todo = <<>>
  <2>1. (CHOOSE g \in Forms : TRUE) \in Forms
    BY <1>1
  <2>2. <<>> \in AllTodos
    BY DEF AllTodos
  <2>3. QED
    BY <2>1, <2>2, NoStatusIsStatus DEF Begin, Off, Thread
<1>5. /\ thread \in [Threads -> Thread]
      /\ \A t \in Threads : P(t) = 0
  BY <1>4, PlaceFacts DEF Init, P
<1>6. \A t \in Threads : 0 \in PlacesOf(t)
  BY DEF PlacesOf, WindowPlaces, ReadyPlaces, PollPlaces
<1>7. ThreadsFit
  BY <1>5, <1>6 DEF ThreadsFit
<1>8. QED
  BY <1>1, <1>3, <1>7 DEF Init, Typed

LEMMA TypedNext ==
  ASSUME Typed, [Next]_vars
  PROVE  Typed'
<1>1. ASSUME NEW t \in Handlers, Idle(t) /\ StartPublisher(t)
      PROVE  Typed'
  <2>1. raced' \subseteq {"handler", "table"} /\ startOn' \in BOOLEAN
    BY <1>1, RacesAre DEF StartPublisher, Race, Typed
  <2>2. QED
    BY <1>1, <2>1, ThreadsFitNext DEF StartPublisher, table, polling, Typed
<1>2. ASSUME Idle("ready") /\ Goto("ready", <<>>)
             /\ UNCHANGED <<widgets, table, polling, running, publisher, life, raced>>
      PROVE  Typed'
  BY <1>2, ReadyGivesUp, ThreadsFitNext DEF widgets, table, polling, Race, Typed
<1>3. ASSUME NEW t \in Handlers, ReadConfig(t)
      PROVE  Typed'
  BY <1>3, ThreadsFitNext, NamesOfForm DEF ReadConfig, widgets, table, polling, Typed
<1>4. ASSUME NEW t \in Handlers, MarkAll(t)
      PROVE  Typed'
  <2>1. targetStatus' = SetAll("Starting") \/ targetStatus' = SetAll("Stopped")
    BY <1>4, MarkAllMoves, ThreadsAre
  <2>2. targetStatus' \in Statuses
    BY <2>1, SetAllIsStatus DEF Values
  <2>3. raced' \subseteq {"handler", "table"}
    BY <1>4, RacesAre DEF MarkAll, Race, Typed
  <2>4. QED
    BY <1>4, <2>2, <2>3, ThreadsFitNext DEF MarkAll, widgets, table, polling, Typed
<1>5. ASSUME NEW t \in Handlers, StartWorker(t)
      PROVE  Typed'
  BY <1>5, StartWorkerMoves, ThreadsFitNext DEF StartWorker, widgets, table, polling, Race, Typed
<1>6. ASSUME NEW t \in Handlers, SetRunning(t)
      PROVE  Typed'
  BY <1>6, SetRunningMoves, ThreadsFitNext DEF SetRunning, widgets, table, polling, Race, Typed
<1>7. ASSUME NEW t \in Handlers, SetButtons(t)
      PROVE  Typed'
  BY <1>7, SetButtonsMoves, ThreadsFitNext DEF SetButtons, widgets, table, polling, Race, Typed
<1>8. ASSUME NEW t \in Handlers, ReadStatus(t)
      PROVE  Typed'
  BY <1>8, ReadStatusMoves, ThreadsFitNext DEF ReadStatus, widgets, table, polling, Race, Typed
<1>9. ASSUME NEW t \in Handlers, StopPolling(t)
      PROVE  Typed'
  BY <1>9, StopPollingMoves, ThreadsFitNext DEF StopPolling, widgets, table, polling, Race, Typed
<1>10. ASSUME NEW t \in Handlers, StartPolling(t)
      PROVE  Typed'
  BY <1>10, StartPollingMoves, ThreadsFitNext DEF StartPolling, widgets, table, polling, Race, Typed
<1>11. ASSUME NEW t \in Threads, SetTargetStatus(t)
      PROVE  Typed'
  <2>1. thread[t].status \in Statuses
    BY DEF Typed, ThreadsFit, Thread
  <2>2. QED
    BY <1>11, <2>1, ThreadsFitNext DEF SetTargetStatus, widgets, polling, Typed
<1>12. ASSUME NEW t \in Threads, ApplyStatus(t)
      PROVE  Typed'
  <2>1. previews' \in Statuses
    BY <1>12, PreviewsAreStatus DEF ApplyStatus
  <2>2. QED
    BY <1>12, <2>1, ThreadsFitNext DEF ApplyStatus, widgets, polling, Typed
<1>13. ASSUME NEW t \in Threads, DrawRows(t)
      PROVE  Typed'
  <2>1. running' \in BOOLEAN /\ raced' \subseteq {"handler", "table"}
    BY <1>13 DEF DrawRows, Panics, Race, Typed
  <2>2. QED
    BY <1>13, <2>1, ThreadsFitNext DEF DrawRows, widgets, table, polling, Typed
<1>14. ASSUME NEW p \in Polls, PollTicks(p)
      PROVE  Typed'
  BY <1>14, PollTicksMoves, ThreadsFitNext DEF PollTicks, widgets, table, polling, Race, Typed
<1>15. ASSUME NEW p \in Polls, PollEnds(p)
      PROVE  Typed'
  BY <1>15, PollEndsMoves, ThreadsFitNext DEF PollEnds, widgets, table, polling, Race, Typed
<1>16. ASSUME ChangeForm
      PROVE  Typed'
  <2>1. raced' \subseteq {"handler", "table"}
    BY <1>16, RacesAre DEF ChangeForm, Race, Typed
  <2>2. QED
    BY <1>16, <2>1, ThreadsFitNext DEF ChangeForm, table, polling, Typed
<1>17. ASSUME PressStop
      PROVE  Typed'
  <2>1. raced' \subseteq {"handler", "table"} /\ stopOn' \in BOOLEAN
    BY <1>17, RacesAre DEF PressStop, Race, Typed
  <2>2. QED
    BY <1>17, <2>1, ThreadsFitNext DEF PressStop, table, polling, Typed
<1>18. ASSUME StopWorker
      PROVE  Typed'
  BY <1>18, StopWorkerMoves, ThreadsFitNext DEF StopWorker, widgets, table, polling, Race, Typed
<1>19. ASSUME ClearRunning
      PROVE  Typed'
  BY <1>19, ClearRunningMoves, ThreadsFitNext DEF ClearRunning, widgets, table, polling, Race, Typed
<1>20. ASSUME PressClose
      PROVE  Typed'
  <2>1. raced' \subseteq {"handler", "table"}
    BY <1>20, RacesAre DEF PressClose, Race, Typed
  <2>2. QED
    BY <1>20, <2>1, ThreadsFitNext DEF PressClose, widgets, table, polling, Typed
<1>21. ASSUME AnswerClose
      PROVE  Typed'
  BY <1>21, AnswerCloseMoves, ThreadsFitNext DEF AnswerClose, widgets, table, polling, Race, Typed
<1>22. ASSUME CloseWindow
      PROVE  Typed'
  BY <1>22, CloseWindowMoves, ThreadsFitNext DEF CloseWindow, widgets, table, polling, Race, Typed
<1>23. ASSUME WorkerMoves
      PROVE  Typed'
  BY <1>23, ThreadsFitNext DEF WorkerMoves, widgets, table, polling, Race, Typed
<1>24. ASSUME UNCHANGED vars
      PROVE  Typed'
  BY <1>24, ThreadsFitNext DEF vars, widgets, table, polling, Typed
<1>25. ASSUME NEW t \in Threads, BuildPreviews(t)
      PROVE  Typed'
  <2>1. thread[t].form \in Forms
    BY <1>25, BuildPreviewsMoves
  <2>2. previews' \in Statuses
    BY <1>25, <2>1, NamesOfForm, StatusOfNames DEF BuildPreviews, Values
  <2>3. QED
    BY <1>25, <2>2, ThreadsFitNext DEF BuildPreviews, widgets, polling, Typed
<1> QED
  BY NextIs, <1>1, <1>2, <1>3, <1>4, <1>5, <1>6, <1>7, <1>8, <1>9, <1>10, <1>11, <1>12,
     <1>13, <1>14, <1>15, <1>16, <1>17, <1>18, <1>19, <1>20, <1>21, <1>22, <1>23, <1>24,
     <1>25

\* Every goroutine of the window is at a step of its code, and what they share has its types.
THEOREM TypeCorrect == Spec => []Typed
BY TypedInit, TypedNext, PTL DEF Spec

-----------------------------------------------------------------------------
(* The buttons and the publisher.                                          *)

\* The callbacks of the form may run beside startOnReady.
Resting == {0, 26, 27}

Agree ==
  /\ running <=> publisher.worker \in Active
  /\ stopOn <=> running
  /\ startOn <=> ~running

\* What a handler at place n has made of the publisher and of the buttons.
Phase(n) ==
  /\ n \in 1..5 => ~running /\ publisher.worker = "Stopped" /\ ~startOn /\ ~stopOn
  /\ n = 6 => ~running /\ publisher.worker \in Active
  /\ n = 7 => running /\ publisher.worker \in Active
  /\ n \in 8..13 => running /\ publisher.worker \in Active /\ ~startOn /\ stopOn
  /\ n = 40 => (running <=> publisher.worker \in Active)
  /\ n \in {21, 51} => running /\ publisher.worker \in Active
  /\ n = 22 => publisher.worker = "Stopped"
  /\ n = 23 => ~running /\ publisher.worker = "Stopped"
  /\ n \in {24, 25} => ~running /\ publisher.worker = "Stopped" /\ startOn /\ ~stopOn
  /\ n = 50 => running /\ Agree
  /\ n \in {52, 53} => publisher.worker = "Stopped"

\* Unless handlers overlapped, one of them is at work at a time and the buttons and the
\* publisher are as it has left them.
OneHandler ==
  /\ P("ready") = 0 \/ P("window") \in Resting
  /\ P("ready") \notin {20, 25, 26, 27}
  /\ P("window") \in Resting /\ P("ready") = 0 => Agree
  /\ Phase(P("window")) /\ Phase(P("ready"))

ButtonsFit ==
  /\ publisher.worker = "Ending" => "handler" \in raced
  /\ "handler" \notin raced => OneHandler

\* Nothing happens once the window is closed or the program has crashed.
LEMMA OpenNext ==
  ASSUME Next
  PROVE  life = "open"
  BY DEF Next, PressStart, ChangeForm, PressStop, PressClose, Program, WorkerMoves, UserActs, Idle,
     At, AnswerClose, WindowStep, CodeStep, StopWorker, ClearRunning, CloseWindow, StartOnReady,
     PollStep, ReadConfig, MarkAll, StartWorker, SetRunning, SetButtons, ReadStatus,
     SetTargetStatus, BuildPreviews, ApplyStatus, DrawRows, StopPolling, StartPolling, PollTicks,
     PollEnds

\* The other handler.
LEMMA OtherStartIs ==
  ASSUME Typed
  PROVE  /\ "handler" \in OtherStart("window") <=> P("ready") # 0
         /\ "handler" \in OtherStart("ready") <=> P("window") # 0
<1>1. \A u \in Handlers : Busy(u) <=> P(u) # 0
  BY TypedFits, ThreadsAre, IdlePlace
<1>2. QED
  BY <1>1 DEF OtherStart, Handlers

LEMMA ButtonsInit ==
  ASSUME Init
  PROVE  ButtonsFit
<1>1. P("window") = 0 /\ P("ready") = 0
  BY BeginPlace, ThreadsAre
<1>2. QED
  BY <1>1 DEF Init, ButtonsFit, OneHandler, Phase, Agree, Resting, Active

\* Handler t goes from place n to place m, the other one stays.
Goes(t, n, m) ==
  \/ /\ t = "window" /\ P("window") = n /\ P("window")' = m
     /\ P("ready")' = P("ready")
  \/ /\ t = "ready" /\ P("ready") = n /\ P("ready")' = m
     /\ P("window")' = P("window")

LEMMA HandlerGoes ==
  ASSUME NEW t \in Handlers, Moves(t), NEW n, NEW m, P(t) = n, P(t)' = m
  PROVE  Goes(t, n, m)
<1>1. CASE t = "window"
  <2>1. P("ready")' = P("ready")
    BY <1>1, ThreadsAre DEF Moves
  <2>2. QED
    BY <1>1, <2>1 DEF Goes
<1>2. CASE t = "ready"
  <2>1. P("window")' = P("window")
    BY <1>2, ThreadsAre DEF Moves
  <2>2. QED
    BY <1>2, <2>1 DEF Goes
<1>3. QED
  BY <1>1, <1>2 DEF Handlers

HandlersStay == P("window")' = P("window") /\ P("ready")' = P("ready")

LEMMA PollMoveStays ==
  ASSUME NEW p \in Polls, Moves(p)
  PROVE  HandlersStay
  BY ThreadsAre DEF Moves, HandlersStay

LEMMA HandlerPlaces ==
  ASSUME Typed
  PROVE  /\ P("window") \in WindowPlaces /\ P("ready") \in ReadyPlaces
         /\ publisher.worker \in {"Stopped", "Starting", "Running", "Ending"}
<1>1. publisher.worker \in {"Stopped", "Starting", "Running", "Ending"}
  BY DEF Typed
<1>2. QED
  BY <1>1, TypedFits, ThreadsAre, PlacesAre

ButtonState == <<running, startOn, stopOn, publisher.worker>>

LEMMA ButtonsStay ==
  ASSUME ButtonsFit, HandlersStay, UNCHANGED ButtonState, raced \subseteq raced'
  PROVE  ButtonsFit'
  BY DEF ButtonsFit, OneHandler, Phase, Agree, HandlersStay, ButtonState

LEMMA ButtonsRaced ==
  ASSUME "handler" \in raced'
  PROVE  ButtonsFit'
  BY DEF ButtonsFit

LEMMA ButtonsNext ==
  ASSUME Typed, ButtonsFit, [Next]_vars
  PROVE  ButtonsFit'
<1>1. ASSUME NEW t \in Handlers, Idle(t) /\ StartPublisher(t)
      PROVE  ButtonsFit'
  <2>1. \/ Goes(t, 0, 1) /\ ~running
        \/ Goes(t, 0, 40) /\ running
    BY <1>1, StartMoves, HandlerGoes, ThreadsAre
  <2>2. /\ startOn' <=> (startOn /\ running)
        /\ UNCHANGED <<running, stopOn, publisher>>
        /\ raced' = raced \cup OtherStart(t)
    BY <1>1 DEF StartPublisher, Race
  <2>3. CASE "handler" \in raced'
    BY <2>3, ButtonsRaced
  <2>4. CASE "handler" \notin raced'
    <3>1. P("window") = 0 /\ P("ready") = 0
      BY <2>1, <2>2, <2>4, OtherStartIs DEF Goes
    <3>2. QED
      BY <2>1, <2>2, <2>4, <3>1, HandlerPlaces DEF Goes, ButtonsFit, OneHandler, Phase, Agree,
         Resting, Active, WindowPlaces, ReadyPlaces
  <2>5. QED
    BY <2>3, <2>4
<1>2. ASSUME Idle("ready") /\ Goto("ready", <<>>)
             /\ UNCHANGED <<widgets, table, polling, running, publisher, life, raced>>
      PROVE  ButtonsFit'
  <2>1. HandlersStay
    BY <1>2, ReadyGivesUp, ThreadsAre DEF Moves, HandlersStay
  <2>2. QED
    BY <1>2, <2>1, ButtonsStay DEF ButtonState, widgets
<1>3. ASSUME NEW t \in Handlers, ReadConfig(t)
      PROVE  ButtonsFit'
  <2>1. Goes(t, 1, 2) \/ Goes(t, 1, 40)
    BY <1>3, ReadConfigMoves, HandlerGoes, ThreadsAre
  <2>2. UNCHANGED <<running, startOn, stopOn, raced>> /\ publisher'.worker = publisher.worker
    BY <1>3 DEF ReadConfig, widgets, Typed
  <2>3. QED
    BY <2>1, <2>2, HandlerPlaces DEF Goes, ButtonState, ButtonsFit, OneHandler, Phase, Agree,
       Resting, Active, WindowPlaces, ReadyPlaces
<1>4. ASSUME NEW t \in Handlers, MarkAll(t)
      PROVE  ButtonsFit'
  <2>1. Goes(t, 2, 3) \/ Goes(t, 25, 26)
    BY <1>4, MarkAllMoves, HandlerGoes, ThreadsAre
  <2>2. UNCHANGED ButtonState /\ raced \subseteq raced'
    BY <1>4 DEF MarkAll, Race, widgets, ButtonState
  <2>3. QED
    BY <2>1, <2>2, HandlerPlaces DEF Goes, ButtonState, ButtonsFit, OneHandler, Phase, Agree,
       Resting, Active, WindowPlaces, ReadyPlaces
<1>5. ASSUME NEW t \in Handlers, StartWorker(t)
      PROVE  ButtonsFit'
  <2>1. Goes(t, 5, 6)
    BY <1>5, StartWorkerMoves, HandlerGoes, ThreadsAre
  <2>2. /\ UNCHANGED <<running, startOn, stopOn, raced>>
        /\ publisher'.worker = (IF publisher.worker = "Stopped" THEN "Starting" ELSE publisher.worker)
    BY <1>5 DEF StartWorker, widgets, Typed
  <2>3. QED
    BY <2>1, <2>2, HandlerPlaces DEF Goes, ButtonState, ButtonsFit, OneHandler, Phase, Agree,
       Resting, Active, WindowPlaces, ReadyPlaces
<1>6. ASSUME NEW t \in Handlers, SetRunning(t)
      PROVE  ButtonsFit'
  <2>1. Goes(t, 6, 7)
    BY <1>6, SetRunningMoves, HandlerGoes, ThreadsAre
  <2>2. running' /\ UNCHANGED <<startOn, stopOn, raced, publisher>>
    BY <1>6 DEF SetRunning, widgets
  <2>3. QED
    BY <2>1, <2>2, HandlerPlaces DEF Goes, ButtonState, ButtonsFit, OneHandler, Phase, Agree,
       Resting, Active, WindowPlaces, ReadyPlaces
<1>7. ASSUME NEW t \in Handlers, SetButtons(t)
      PROVE  ButtonsFit'
  <2>1. Goes(t, 7, 8) \/ Goes(t, 40, 0) \/ Goes(t, 20, 25) \/ Goes(t, 23, 24)
    BY <1>7, SetButtonsMoves, HandlerGoes, ThreadsAre
  <2>2. /\ startOn' <=> ~running
        /\ stopOn' <=> running
        /\ UNCHANGED <<running, raced, publisher>>
    BY <1>7 DEF SetButtons
  <2>3. QED
    BY <2>1, <2>2, HandlerPlaces DEF Goes, ButtonState, ButtonsFit, OneHandler, Phase, Agree,
       Resting, Active, WindowPlaces, ReadyPlaces
<1>8. ASSUME NEW t \in Handlers, ReadStatus(t)
      PROVE  ButtonsFit'
  <2>1. Goes(t, 8, 9)
    BY <1>8, ReadStatusMoves, HandlerGoes, ThreadsAre
  <2>2. UNCHANGED ButtonState /\ UNCHANGED raced
    BY <1>8 DEF ReadStatus, widgets, ButtonState
  <2>3. QED
    BY <2>1, <2>2, HandlerPlaces DEF Goes, ButtonState, ButtonsFit, OneHandler, Phase, Agree,
       Resting, Active, WindowPlaces, ReadyPlaces
<1>9. ASSUME NEW t \in Handlers, StopPolling(t)
      PROVE  ButtonsFit'
  <2>1. Goes(t, 12, 13) \/ Goes(t, 24, 25) \/ Goes(t, 52, 53)
    BY <1>9, StopPollingMoves, HandlerGoes, ThreadsAre
  <2>2. UNCHANGED ButtonState /\ UNCHANGED raced
    BY <1>9 DEF StopPolling, widgets, ButtonState
  <2>3. QED
    BY <2>1, <2>2, HandlerPlaces DEF Goes, ButtonState, ButtonsFit, OneHandler, Phase, Agree,
       Resting, Active, WindowPlaces, ReadyPlaces
<1>10. ASSUME NEW t \in Handlers, StartPolling(t)
      PROVE  ButtonsFit'
  <2>1. Goes(t, 13, 0)
    <3>1. PICK p \in Polls \ (stopped \cup {statusStop}) :
           /\ statusStop' = p /\ P(p) = 0 /\ P(p)' = 0
           /\ ~thread[p].alive /\ thread'[p] = Begin
           /\ \A u \in Threads \ {t, p} : thread'[u] = thread[u] /\ P(u)' = P(u)
      BY <1>10, StartPollingMoves
    <3>2. P(t) = 13 /\ P(t)' = 0 /\ p \notin Handlers
      BY <1>10, StartPollingMoves, ThreadsAre
    <3>3. CASE t = "window"
      BY <3>1, <3>2, <3>3, ThreadsAre DEF Goes
    <3>4. CASE t = "ready"
      BY <3>1, <3>2, <3>4, ThreadsAre DEF Goes
    <3>5. QED
      BY <3>3, <3>4 DEF Handlers
  <2>2. UNCHANGED ButtonState /\ UNCHANGED raced
    BY <1>10 DEF StartPolling, widgets, ButtonState
  <2>3. QED
    BY <2>1, <2>2, HandlerPlaces DEF Goes, ButtonState, ButtonsFit, OneHandler, Phase, Agree,
       Resting, Active, WindowPlaces, ReadyPlaces
<1>11. ASSUME NEW t \in Threads, SetTargetStatus(t)
      PROVE  ButtonsFit'
  <2>1. UNCHANGED ButtonState /\ UNCHANGED raced
    BY <1>11 DEF SetTargetStatus, widgets, ButtonState
  <2>2. CASE t \in Polls
    BY <1>11, <2>1, <2>2, SetTargetStatusMoves, PollMoveStays, ButtonsStay
  <2>3. CASE t \in Handlers
    <3>1. Goes(t, 9, 10) \/ Goes(t, 30, 26)
      BY <1>11, <2>3, SetTargetStatusMoves, HandlerGoes
    <3>2. QED
      BY <2>1, <3>1, HandlerPlaces DEF Goes, ButtonState, ButtonsFit, OneHandler, Phase, Agree,
         Resting, Active, WindowPlaces, ReadyPlaces
  <2>4. QED
    BY <2>2, <2>3, ThreadsAre DEF Threads
<1>12. ASSUME NEW t \in Threads, ApplyStatus(t)
      PROVE  ButtonsFit'
  <2>1. UNCHANGED ButtonState /\ UNCHANGED raced
    BY <1>12 DEF ApplyStatus, widgets, ButtonState
  <2>2. CASE t \in Polls
    BY <1>12, <2>1, <2>2, ApplyStatusMoves, PollMoveStays, ButtonsStay
  <2>3. CASE t \in Handlers
    <3>1. Goes(t, 3, 4) \/ Goes(t, 10, 11) \/ Goes(t, 26, 27)
      BY <1>12, <2>3, ApplyStatusMoves, HandlerGoes
    <3>2. QED
      BY <2>1, <3>1, HandlerPlaces DEF Goes, ButtonState, ButtonsFit, OneHandler, Phase, Agree,
         Resting, Active, WindowPlaces, ReadyPlaces
  <2>4. QED
    BY <2>2, <2>3, ThreadsAre DEF Threads
<1>13. ASSUME NEW t \in Threads, DrawRows(t)
      PROVE  ButtonsFit'
  <2>1. UNCHANGED <<startOn, stopOn, publisher>>
    BY <1>13 DEF DrawRows, widgets
  <2>2. ASSUME UNCHANGED <<running, thread, raced>> PROVE ButtonsFit'
    <3>1. HandlersStay
      BY <2>2 DEF HandlersStay, P
    <3>2. QED
      BY <2>1, <2>2, <3>1, ButtonsStay DEF ButtonState
  <2>3. ASSUME Race({"handler"}) PROVE ButtonsFit'
    BY <2>3, ButtonsRaced DEF Race
  <2>4. ASSUME Moves(t), UNCHANGED <<running, raced>>,
               \/ P(t) = 4 /\ P(t)' = 5
               \/ P(t) = 11 /\ P(t)' = 12
               \/ P(t) = 27 /\ P(t)' = 0
        PROVE  ButtonsFit'
    <3>1. CASE t \in Polls
      BY <2>1, <2>4, <3>1, PollMoveStays, ButtonsStay DEF ButtonState
    <3>2. CASE t \in Handlers
      <4>1. Goes(t, 4, 5) \/ Goes(t, 11, 12) \/ Goes(t, 27, 0)
        BY <2>4, <3>2, HandlerGoes
      <4>2. QED
        BY <2>1, <2>4, <4>1, HandlerPlaces DEF Goes, ButtonsFit, OneHandler, Phase, Agree,
           Resting, Active, WindowPlaces, ReadyPlaces
    <3>3. QED
      BY <3>1, <3>2, ThreadsAre DEF Threads
  <2>5. QED
    BY <1>13, <2>2, <2>3, <2>4, DrawRowsMoves
<1>14. ASSUME NEW p \in Polls, PollTicks(p)
      PROVE  ButtonsFit'
  <2>1. UNCHANGED ButtonState /\ UNCHANGED raced
    BY <1>14 DEF PollTicks, widgets, ButtonState
  <2>2. QED
    BY <1>14, <2>1, PollTicksMoves, PollMoveStays, ButtonsStay
<1>15. ASSUME NEW p \in Polls, PollEnds(p)
      PROVE  ButtonsFit'
  <2>1. UNCHANGED ButtonState /\ UNCHANGED raced
    BY <1>15 DEF PollEnds, widgets, ButtonState
  <2>2. QED
    BY <1>15, <2>1, PollEndsMoves, PollMoveStays, ButtonsStay
<1>16. ASSUME ChangeForm
      PROVE  ButtonsFit'
  <2>1. Goes("window", 0, 26)
    BY <1>16, ChangeFormMoves, HandlerGoes, ThreadsAre
  <2>2. UNCHANGED ButtonState /\ raced \subseteq raced'
    BY <1>16 DEF ChangeForm, Race, ButtonState
  <2>3. QED
    BY <2>1, <2>2, HandlerPlaces DEF Goes, ButtonState, ButtonsFit, OneHandler, Phase, Agree,
       Resting, Active, WindowPlaces, ReadyPlaces
<1>17. ASSUME PressStop
      PROVE  ButtonsFit'
  <2>1. \/ Goes("window", 0, 40) /\ ~running
        \/ Goes("window", 0, 21) /\ running
    BY <1>17, PressStopMoves, HandlerGoes, ThreadsAre
  <2>2. /\ stopOn' <=> (stopOn /\ ~running)
        /\ UNCHANGED <<running, startOn, publisher>>
        /\ raced' = raced \cup OtherStart("window")
    BY <1>17 DEF PressStop, Race
  <2>3. CASE "handler" \in raced'
    BY <2>3, ButtonsRaced
  <2>4. CASE "handler" \notin raced'
    <3>1. P("window") = 0 /\ P("ready") = 0
      BY <2>1, <2>2, <2>4, OtherStartIs DEF Goes
    <3>2. QED
      BY <2>1, <2>2, <2>4, <3>1, HandlerPlaces DEF Goes, ButtonsFit, OneHandler, Phase, Agree,
         Resting, Active, WindowPlaces, ReadyPlaces
  <2>5. QED
    BY <2>3, <2>4
<1>18. ASSUME StopWorker
      PROVE  ButtonsFit'
  <2>1. UNCHANGED <<running, startOn, stopOn>>
    BY <1>18 DEF StopWorker, widgets
  <2>2. ASSUME UNCHANGED <<publisher, thread, raced>> PROVE ButtonsFit'
    <3>1. HandlersStay
      BY <2>2 DEF HandlersStay, P
    <3>2. QED
      BY <2>1, <2>2, <3>1, ButtonsStay DEF ButtonState
  <2>3. ASSUME Moves("window"), P("window") \in {21, 51}, P("window")' = P("window") + 1,
               NEW w, publisher' = [publisher EXCEPT !.worker = w], w \in {"Stopped", "Ending"},
               Race(IF w = "Ending" THEN {"handler"} ELSE {})
        PROVE  ButtonsFit'
    <3>1. CASE w = "Ending"
      BY <2>3, <3>1, ButtonsRaced DEF Race
    <3>2. CASE w = "Stopped"
      <4>1. Goes("window", 21, 22) \/ Goes("window", 51, 52)
        BY <2>3, HandlerGoes, ThreadsAre
      <4>2. publisher'.worker = "Stopped" /\ raced' = raced
        BY <2>3, <3>2 DEF Race, Typed
      <4>3. QED
        BY <2>1, <4>1, <4>2, HandlerPlaces DEF Goes, ButtonsFit, OneHandler, Phase, Agree,
           Resting, Active, WindowPlaces, ReadyPlaces
    <3>3. QED
      BY <2>3, <3>1, <3>2
  <2>4. CASE publisher.worker = "Ending" /\ UNCHANGED <<publisher, thread, raced>>
    BY <2>2, <2>4
  <2>5. CASE ~(publisher.worker = "Ending" /\ UNCHANGED <<publisher, thread, raced>>)
    <3>1. PICK w \in IF publisher.worker = "Stopped" THEN {"Stopped"} ELSE {"Stopped", "Ending"} :
           /\ publisher' = [publisher EXCEPT !.worker = w]
           /\ Race(IF w = "Ending" THEN {"handler"} ELSE {})
      BY <1>18, <2>5, StopWorkerMoves
    <3>2. /\ Moves("window") /\ P("window") \in {21, 51}
          /\ P("window")' = P("window") + 1
      BY <1>18, <2>5, StopWorkerMoves
    <3>3. QED
      BY <2>3, <3>1, <3>2
  <2>6. QED
    BY <2>4, <2>5
<1>19. ASSUME ClearRunning
      PROVE  ButtonsFit'
  <2>1. Goes("window", 22, 23)
    BY <1>19, ClearRunningMoves, HandlerGoes, ThreadsAre
  <2>2. ~running' /\ UNCHANGED <<startOn, stopOn, raced, publisher>>
    BY <1>19 DEF ClearRunning, widgets
  <2>3. QED
    BY <2>1, <2>2, HandlerPlaces DEF Goes, ButtonState, ButtonsFit, OneHandler, Phase, Agree,
       Resting, Active, WindowPlaces, ReadyPlaces
<1>20. ASSUME PressClose
      PROVE  ButtonsFit'
  <2>1. \/ Goes("window", 0, 52) /\ ~running
        \/ Goes("window", 0, 50) /\ running
    BY <1>20, PressCloseMoves, HandlerGoes, ThreadsAre
  <2>2. /\ UNCHANGED <<running, startOn, stopOn, publisher>>
        /\ raced' = raced \cup OtherStart("window")
    BY <1>20 DEF PressClose, widgets, Race
  <2>3. CASE "handler" \in raced'
    BY <2>3, ButtonsRaced
  <2>4. CASE "handler" \notin raced'
    <3>1. P("window") = 0 /\ P("ready") = 0
      BY <2>1, <2>2, <2>4, OtherStartIs DEF Goes
    <3>2. QED
      BY <2>1, <2>2, <2>4, <3>1, HandlerPlaces DEF Goes, ButtonsFit, OneHandler, Phase, Agree,
         Resting, Active, WindowPlaces, ReadyPlaces
  <2>5. QED
    BY <2>3, <2>4
<1>21. ASSUME AnswerClose
      PROVE  ButtonsFit'
  <2>1. Goes("window", 50, 0) \/ Goes("window", 50, 51)
    BY <1>21, AnswerCloseMoves, HandlerGoes, ThreadsAre
  <2>2. UNCHANGED ButtonState /\ UNCHANGED raced
    BY <1>21 DEF AnswerClose, widgets, ButtonState
  <2>3. QED
    BY <2>1, <2>2, HandlerPlaces DEF Goes, ButtonState, ButtonsFit, OneHandler, Phase, Agree,
       Resting, Active, WindowPlaces, ReadyPlaces
<1>22. ASSUME CloseWindow
      PROVE  ButtonsFit'
  <2>1. UNCHANGED ButtonState /\ UNCHANGED <<raced, thread>>
    BY <1>22 DEF CloseWindow, widgets, ButtonState
  <2>2. QED
    BY <2>1, ButtonsStay DEF HandlersStay, P
<1>23. ASSUME WorkerMoves
      PROVE  ButtonsFit'
  <2>1. HandlersStay /\ UNCHANGED <<running, startOn, stopOn, raced>>
    BY <1>23 DEF WorkerMoves, widgets, HandlersStay, P
  <2>2. \/ publisher.worker = "Starting" /\ publisher'.worker = "Running"
        \/ publisher.worker = "Ending" /\ publisher'.worker = "Stopped"
    BY <1>23 DEF WorkerMoves, Typed
  <2>3. QED
    BY <2>1, <2>2 DEF HandlersStay, ButtonsFit, OneHandler, Phase, Agree, Resting, Active,
       WindowPlaces, ReadyPlaces
<1>24. ASSUME UNCHANGED vars
      PROVE  ButtonsFit'
  <2>1. HandlersStay /\ UNCHANGED ButtonState /\ UNCHANGED raced
    BY <1>24 DEF vars, widgets, HandlersStay, P, ButtonState
  <2>2. QED
    BY <2>1, ButtonsStay
<1>25. ASSUME NEW t \in Threads, BuildPreviews(t)
      PROVE  ButtonsFit'
  <2>1. UNCHANGED ButtonState /\ UNCHANGED raced
    BY <1>25 DEF BuildPreviews, widgets, ButtonState
  <2>2. HandlersStay
    BY <1>25, BuildStays, ThreadsAre DEF HandlersStay
  <2>3. QED
    BY <2>1, <2>2, ButtonsStay
<1> QED
  BY NextIs, <1>1, <1>2, <1>3, <1>4, <1>5, <1>6, <1>7, <1>8, <1>9, <1>10, <1>11, <1>12,
     <1>13, <1>14, <1>15, <1>16, <1>17, <1>18, <1>19, <1>20, <1>21, <1>22, <1>23, <1>24,
     <1>25

ButtonsHold == Typed /\ ButtonsFit

LEMMA ButtonsAlways == Spec => []ButtonsHold
<1>1. Init => ButtonsHold
  BY TypedInit, ButtonsInit DEF ButtonsHold
<1>2. ButtonsHold /\ [Next]_vars => ButtonsHold'
  BY TypedNext, ButtonsNext DEF ButtonsHold
<1>3. QED
  BY <1>1, <1>2, PTL DEF Spec

\* Where the goroutines are when the window is quiet.
LEMMA QuietPlaces ==
  ASSUME Typed, Quiet
  PROVE  P("window") = 0 /\ P("ready") = 0
<1>1. P("window") = 0
  BY WindowAtRest DEF Quiet
<1>2. P("ready") = 0
  BY ThreadsAre DEF Quiet, Typed, ThreadsFit
<1>3. QED
  BY <1>1, <1>2

LEMMA ButtonsFollow ==
  ASSUME Typed, ButtonsFit
  PROVE  ButtonsFollowPublisher
<1>1. ASSUME Quiet, "handler" \notin raced
      PROVE  Agree
  BY <1>1, QuietPlaces DEF ButtonsFit, OneHandler, Resting
<1>2. QED
  BY <1>1 DEF ButtonsFollowPublisher, Agree

-----------------------------------------------------------------------------
(* The close of the window.                                                *)

ClosedFits == life = "closed" => P("window") = 53

LEMMA ClosedNext ==
  ASSUME Typed, ClosedFits, [Next]_vars
  PROVE  ClosedFits'
<1>1. ASSUME CloseWindow PROVE ClosedFits'
  <2>1. P("window")' = P("window")
    BY <1>1 DEF CloseWindow, P
  <2>2. QED
    BY <1>1, <2>1, CloseWindowMoves DEF ClosedFits
<1>2. ASSUME UNCHANGED vars PROVE ClosedFits'
  BY <1>2 DEF vars, ClosedFits, P
<1>3. ASSUME Next, ~CloseWindow PROVE life' # "closed"
  <2>1. life = "open"
    BY <1>3, OpenNext
  <2>2. ASSUME NEW t \in Threads, SetTargetStatus(t) \/ BuildPreviews(t) \/ ApplyStatus(t) \/ DrawRows(t)
        PROVE  life' # "closed"
    BY <2>1, <2>2 DEF SetTargetStatus, BuildPreviews, ApplyStatus, DrawRows, Panics
  <2>3. ASSUME NEW t \in Handlers,
               \/ Idle(t) /\ StartPublisher(t)
               \/ ReadConfig(t) \/ MarkAll(t) \/ StartWorker(t) \/ SetRunning(t)
               \/ SetButtons(t) \/ ReadStatus(t) \/ StopPolling(t) \/ StartPolling(t)
        PROVE  life' # "closed"
    BY <2>1, <2>3 DEF StartPublisher, ReadConfig, MarkAll, StartWorker, SetRunning, SetButtons,
       ReadStatus, StopPolling, StartPolling
  <2>4. ASSUME \/ ChangeForm \/ PressStop \/ StopWorker \/ ClearRunning
               \/ PressClose \/ AnswerClose \/ WorkerMoves
        PROVE  life' # "closed"
    BY <2>1, <2>4 DEF ChangeForm, PressStop, StopWorker, ClearRunning, PressClose, AnswerClose,
       WorkerMoves
  <2>5. ASSUME NEW p \in Polls, PollTicks(p) \/ PollEnds(p)
        PROVE  life' # "closed"
    BY <2>1, <2>5 DEF PollTicks, PollEnds
  <2>6. QED
    BY <1>3, <2>1, <2>2, <2>3, <2>4, <2>5, NextIs
<1>4. QED
  BY <1>1, <1>2, <1>3 DEF ClosedFits

LEMMA ClosedStopped ==
  ASSUME Typed, ButtonsFit, ClosedFits
  PROVE  ClosedIsStopped
  BY DEF ButtonsFit, OneHandler, Phase, ClosedFits, ClosedIsStopped, Active

-----------------------------------------------------------------------------
(* The polls.                                                              *)

\* The poll that startStatusPolling stored is held: it is taken away before another one is
\* stored, and the poll that was taken away is stopped.
PollsFit ==
  /\ statusStop \notin stopped
  /\ "handler" \notin raced =>
       /\ \A p \in Polls : thread[p].alive => p = statusStop \/ p \in stopped
       /\ P("window") = 13 \/ P("ready") = 13 => statusStop = None

\* No poll begins, and no handler comes to the place where it begins one.
NoPollBegins ==
  /\ \A p \in Polls : thread'[p].alive => thread[p].alive
  /\ \A t \in Handlers : P(t)' = 13 => P(t) = 13

LEMMA PollsStay ==
  ASSUME PollsFit, NoPollBegins, UNCHANGED polling, raced \subseteq raced'
  PROVE  PollsFit'
<1>1. "handler" \notin raced' => "handler" \notin raced
  OBVIOUS
<1>2. statusStop' = statusStop /\ stopped' = stopped
  BY DEF polling
<1>3. ("handler" \notin raced =>
         /\ \A p \in Polls : thread[p].alive => p = statusStop \/ p \in stopped
         /\ P("window") = 13 \/ P("ready") = 13 => statusStop = None)
      /\ statusStop \notin stopped
  BY DEF PollsFit
<1>4. /\ \A p \in Polls : thread'[p].alive => thread[p].alive
      /\ P("window")' = 13 => P("window") = 13
      /\ P("ready")' = 13 => P("ready") = 13
  BY DEF NoPollBegins, Handlers
<1>5. QED
  BY <1>1, <1>2, <1>3, <1>4 DEF PollsFit

LEMMA HandlerBeginsNoPoll ==
  ASSUME NEW t \in Handlers, Moves(t), P(t)' # 13
  PROVE  NoPollBegins
  BY ThreadsAre DEF Moves, NoPollBegins

LEMMA PollBeginsNoPoll ==
  ASSUME Typed, NEW p \in Polls, Moves(p), thread[p].alive
  PROVE  NoPollBegins
  BY ThreadsAre DEF Moves, NoPollBegins

LEMMA StayBeginsNoPoll ==
  ASSUME UNCHANGED thread
  PROVE  NoPollBegins
  BY DEF NoPollBegins, P

LEMMA PollsInit ==
  ASSUME Init
  PROVE  PollsFit
<1>1. P("window") = 0 /\ P("ready") = 0
  BY BeginPlace, ThreadsAre
<1>2. \A p \in Polls : ~thread[p].alive
  BY ThreadsAre DEF Init, Off, Begin
<1>3. statusStop \notin stopped
  BY DEF Init
<1>4. QED
  BY <1>1, <1>2, <1>3 DEF PollsFit

LEMMA PollsNext ==
  ASSUME Typed, ButtonsFit, PollsFit, [Next]_vars
  PROVE  PollsFit'
<1>1. ASSUME NEW t \in Handlers, Idle(t) /\ StartPublisher(t)
      PROVE  PollsFit'
  <2>1. UNCHANGED polling /\ raced \subseteq raced'
    BY <1>1 DEF StartPublisher, polling, Race
  <2>2. NoPollBegins
    BY <1>1, StartMoves, HandlerBeginsNoPoll, ThreadsAre
  <2>3. QED
    BY <2>1, <2>2, PollsStay
<1>2. ASSUME Idle("ready") /\ Goto("ready", <<>>)
             /\ UNCHANGED <<widgets, table, polling, running, publisher, life, raced>>
      PROVE  PollsFit'
  <2>1. UNCHANGED polling /\ raced \subseteq raced'
    BY <1>2
  <2>2. NoPollBegins
    BY <1>2, ReadyGivesUp, HandlerBeginsNoPoll, ThreadsAre
  <2>3. QED
    BY <2>1, <2>2, PollsStay
<1>3. ASSUME NEW t \in Handlers, ReadConfig(t)
      PROVE  PollsFit'
  <2>1. UNCHANGED polling /\ raced \subseteq raced'
    BY <1>3 DEF ReadConfig, polling, Race
  <2>2. NoPollBegins
    BY <1>3, ReadConfigMoves, HandlerBeginsNoPoll, ThreadsAre
  <2>3. QED
    BY <2>1, <2>2, PollsStay
<1>4. ASSUME NEW t \in Handlers, MarkAll(t)
      PROVE  PollsFit'
  <2>1. UNCHANGED polling /\ raced \subseteq raced'
    BY <1>4 DEF MarkAll, polling, Race
  <2>2. NoPollBegins
    BY <1>4, MarkAllMoves, HandlerBeginsNoPoll, ThreadsAre
  <2>3. QED
    BY <2>1, <2>2, PollsStay
<1>5. ASSUME NEW t \in Handlers, StartWorker(t)
      PROVE  PollsFit'
  <2>1. UNCHANGED polling /\ raced \subseteq raced'
    BY <1>5 DEF StartWorker, polling, Race
  <2>2. NoPollBegins
    BY <1>5, StartWorkerMoves, HandlerBeginsNoPoll, ThreadsAre
  <2>3. QED
    BY <2>1, <2>2, PollsStay
<1>6. ASSUME NEW t \in Handlers, SetRunning(t)
      PROVE  PollsFit'
  <2>1. UNCHANGED polling /\ raced \subseteq raced'
    BY <1>6 DEF SetRunning, polling, Race
  <2>2. NoPollBegins
    BY <1>6, SetRunningMoves, HandlerBeginsNoPoll, ThreadsAre
  <2>3. QED
    BY <2>1, <2>2, PollsStay
<1>7. ASSUME NEW t \in Handlers, SetButtons(t)
      PROVE  PollsFit'
  <2>1. UNCHANGED polling /\ raced \subseteq raced'
    BY <1>7 DEF SetButtons, polling, Race
  <2>2. NoPollBegins
    BY <1>7, SetButtonsMoves, HandlerBeginsNoPoll, ThreadsAre
  <2>3. QED
    BY <2>1, <2>2, PollsStay
<1>8. ASSUME NEW t \in Handlers, ReadStatus(t)
      PROVE  PollsFit'
  <2>1. UNCHANGED polling /\ raced \subseteq raced'
    BY <1>8 DEF ReadStatus, polling, Race
  <2>2. NoPollBegins
    BY <1>8, ReadStatusMoves, HandlerBeginsNoPoll, ThreadsAre
  <2>3. QED
    BY <2>1, <2>2, PollsStay
<1>9. ASSUME NEW t \in Handlers, StopPolling(t)
      PROVE  PollsFit'
  <2>1. /\ statusStop' = None /\ raced' = raced
        /\ stopped' = stopped \cup {p \in {statusStop} \ {None} : thread[p].alive}
    BY <1>9 DEF StopPolling
  <2>2. \A p \in Polls : thread'[p] = thread[p]
    BY <1>9, StopPollingMoves, ThreadsAre DEF Moves
  <2>3. None \notin stopped'
    BY <2>1, UIAssumption DEF Typed
  <2>4. \A p \in Polls : thread[p].alive /\ p = statusStop => p \in stopped'
    BY <2>1, UIAssumption
  <2>5. QED
    BY <2>1, <2>2, <2>3, <2>4 DEF PollsFit
<1>10. ASSUME NEW t \in Handlers, StartPolling(t)
      PROVE  PollsFit'
  <2>1. PICK p \in Polls \ (stopped \cup {statusStop}) :
         /\ statusStop' = p /\ P(p) = 0 /\ P(p)' = 0
         /\ ~thread[p].alive /\ thread'[p] = Begin
         /\ \A u \in Threads \ {t, p} : thread'[u] = thread[u] /\ P(u)' = P(u)
    BY <1>10, StartPollingMoves
  <2>2. UNCHANGED <<stopped, raced>>
    BY <1>10 DEF StartPolling
  <2>3. \A q \in Polls \ {p} : thread'[q] = thread[q]
    BY <2>1, ThreadsAre
  <2>4. P(t) = 13 /\ P(t)' = 0
    BY <1>10, StartPollingMoves
  <2>5. statusStop' \notin stopped'
    BY <2>1, <2>2
  <2>6. ASSUME "handler" \notin raced
        PROVE  /\ \A q \in Polls : thread'[q].alive => q = statusStop' \/ q \in stopped'
               /\ P("window")' # 13 /\ P("ready")' # 13
    <3>1. statusStop = None /\ \A q \in Polls : thread[q].alive => q \in stopped
      BY <2>4, <2>6, UIAssumption DEF PollsFit, Handlers
    <3>2. \A u \in Handlers \ {t} : P(u)' = P(u) /\ P(u) # 13
      <4>1. P("ready") = 0 \/ P("window") \in Resting
        BY <2>6 DEF ButtonsFit, OneHandler
      <4>2. QED
        BY <2>1, <2>4, <4>1, ThreadsAre DEF Resting
    <3>3. QED
      BY <2>1, <2>2, <2>3, <2>4, <3>1, <3>2, ThreadsAre
  <2>7. QED
    BY <2>2, <2>5, <2>6 DEF PollsFit
<1>11. ASSUME NEW t \in Threads, SetTargetStatus(t)
      PROVE  PollsFit'
  <2>1. UNCHANGED polling /\ UNCHANGED raced
    BY <1>11 DEF SetTargetStatus, polling
  <2>2. CASE t \in Polls
    <3>1. thread[t].alive
      BY <1>11, <2>2, ThreadsAre, TypedFits, AtPlaces DEF SetTargetStatus, At
    <3>2. NoPollBegins
      BY <1>11, <2>2, <3>1, SetTargetStatusMoves, PollBeginsNoPoll, ThreadsAre
    <3>3. QED
      BY <2>1, <3>2, PollsStay
  <2>3. CASE t \in Handlers
    <3>1. NoPollBegins
      BY <1>11, <2>3, SetTargetStatusMoves, HandlerBeginsNoPoll, ThreadsAre
    <3>2. QED
      BY <2>1, <3>1, PollsStay
  <2>4. QED
    BY <2>2, <2>3, ThreadsAre DEF Threads, Handlers
<1>12. ASSUME NEW t \in Threads, ApplyStatus(t)
      PROVE  PollsFit'
  <2>1. UNCHANGED polling /\ UNCHANGED raced
    BY <1>12 DEF ApplyStatus, polling
  <2>2. CASE t \in Polls
    <3>1. thread[t].alive
      BY <1>12, <2>2, ThreadsAre, TypedFits, AtPlaces DEF ApplyStatus, At
    <3>2. NoPollBegins
      BY <1>12, <2>2, <3>1, ApplyStatusMoves, PollBeginsNoPoll, ThreadsAre
    <3>3. QED
      BY <2>1, <3>2, PollsStay
  <2>3. CASE t \in Handlers
    <3>1. NoPollBegins
      BY <1>12, <2>3, ApplyStatusMoves, HandlerBeginsNoPoll, ThreadsAre
    <3>2. QED
      BY <2>1, <3>1, PollsStay
  <2>4. QED
    BY <2>2, <2>3, ThreadsAre DEF Threads, Handlers
<1>13. ASSUME NEW t \in Threads, DrawRows(t)
      PROVE  PollsFit'
  <2>1. UNCHANGED polling /\ raced \subseteq raced'
    BY <1>13 DEF DrawRows, Panics, Race, polling
  <2>2. \/ Moves(t) /\ P(t)' \in {5, 12, 0, 20}
        \/ UNCHANGED thread
    BY <1>13, DrawRowsMoves
  <2>3. NoPollBegins
    <3>1. CASE UNCHANGED thread
      BY <3>1, StayBeginsNoPoll
    <3>2. CASE Moves(t) /\ t \in Polls
      <4>1. thread[t].alive
        BY <1>13, TypedFits, AtPlaces DEF DrawRows, At
      <4>2. QED
        BY <3>2, <4>1, PollBeginsNoPoll
    <3>3. CASE Moves(t) /\ P(t)' \in {5, 12, 0, 20} /\ t \in Handlers
      BY <3>3, HandlerBeginsNoPoll
    <3>4. QED
      BY <2>2, <3>1, <3>2, <3>3 DEF Threads, Handlers
  <2>4. QED
    BY <2>1, <2>3, PollsStay
<1>14. ASSUME NEW p \in Polls, PollTicks(p)
      PROVE  PollsFit'
  <2>1. UNCHANGED polling /\ UNCHANGED raced /\ thread[p].alive
    BY <1>14 DEF PollTicks, polling, Idle
  <2>2. NoPollBegins
    BY <1>14, <2>1, PollTicksMoves, PollBeginsNoPoll
  <2>3. QED
    BY <2>1, <2>2, PollsStay
<1>15. ASSUME NEW p \in Polls, PollEnds(p)
      PROVE  PollsFit'
  <2>1. statusStop' = statusStop /\ stopped' = stopped \ {p} /\ raced' = raced
    BY <1>15 DEF PollEnds
  <2>2. Moves(p) /\ ~thread'[p].alive
    BY <1>15, PollEndsMoves
  <2>3. HandlersStay /\ \A q \in Polls \ {p} : thread'[q] = thread[q]
    BY <2>2, PollMoveStays, ThreadsAre DEF Moves
  <2>4. QED
    BY <2>1, <2>2, <2>3 DEF PollsFit, HandlersStay
<1>16. ASSUME ChangeForm
      PROVE  PollsFit'
  <2>1. UNCHANGED polling /\ raced \subseteq raced'
    BY <1>16 DEF ChangeForm, polling, Race
  <2>2. NoPollBegins
    BY <1>16, ChangeFormMoves, HandlerBeginsNoPoll, ThreadsAre
  <2>3. QED
    BY <2>1, <2>2, PollsStay
<1>17. ASSUME PressStop
      PROVE  PollsFit'
  <2>1. UNCHANGED polling /\ raced \subseteq raced'
    BY <1>17 DEF PressStop, polling, Race
  <2>2. NoPollBegins
    BY <1>17, PressStopMoves, HandlerBeginsNoPoll, ThreadsAre
  <2>3. QED
    BY <2>1, <2>2, PollsStay
<1>18. ASSUME StopWorker
      PROVE  PollsFit'
  <2>1. UNCHANGED polling /\ raced \subseteq raced'
    BY <1>18 DEF StopWorker, Race, polling
  <2>2. NoPollBegins
    <3>1. CASE UNCHANGED thread
      BY <3>1, StayBeginsNoPoll
    <3>2. CASE Moves("window") /\ P("window")' # 13
      BY <3>2, HandlerBeginsNoPoll, ThreadsAre
    <3>3. QED
      BY <1>18, <3>1, <3>2, StopWorkerMoves
  <2>3. QED
    BY <2>1, <2>2, PollsStay
<1>19. ASSUME ClearRunning
      PROVE  PollsFit'
  <2>1. UNCHANGED polling /\ raced \subseteq raced'
    BY <1>19 DEF ClearRunning, polling, Race
  <2>2. NoPollBegins
    BY <1>19, ClearRunningMoves, HandlerBeginsNoPoll, ThreadsAre
  <2>3. QED
    BY <2>1, <2>2, PollsStay
<1>20. ASSUME PressClose
      PROVE  PollsFit'
  <2>1. UNCHANGED polling /\ raced \subseteq raced'
    BY <1>20 DEF PressClose, polling, Race
  <2>2. NoPollBegins
    BY <1>20, PressCloseMoves, HandlerBeginsNoPoll, ThreadsAre
  <2>3. QED
    BY <2>1, <2>2, PollsStay
<1>21. ASSUME AnswerClose
      PROVE  PollsFit'
  <2>1. UNCHANGED polling /\ raced \subseteq raced'
    BY <1>21 DEF AnswerClose, polling, Race
  <2>2. NoPollBegins
    BY <1>21, AnswerCloseMoves, HandlerBeginsNoPoll, ThreadsAre
  <2>3. QED
    BY <2>1, <2>2, PollsStay
<1>22. ASSUME CloseWindow
      PROVE  PollsFit'
  <2>1. UNCHANGED polling /\ UNCHANGED raced /\ UNCHANGED thread
    BY <1>22 DEF CloseWindow, polling
  <2>2. QED
    BY <2>1, StayBeginsNoPoll, PollsStay
<1>23. ASSUME WorkerMoves
      PROVE  PollsFit'
  <2>1. UNCHANGED polling /\ UNCHANGED raced /\ UNCHANGED thread
    BY <1>23 DEF WorkerMoves, polling
  <2>2. QED
    BY <2>1, StayBeginsNoPoll, PollsStay
<1>24. ASSUME UNCHANGED vars
      PROVE  PollsFit'
  <2>1. UNCHANGED polling /\ UNCHANGED raced /\ UNCHANGED thread
    BY <1>24 DEF vars, polling
  <2>2. QED
    BY <2>1, StayBeginsNoPoll, PollsStay
<1>25. ASSUME NEW t \in Threads, BuildPreviews(t)
      PROVE  PollsFit'
  <2>1. UNCHANGED polling /\ UNCHANGED raced
    BY <1>25 DEF BuildPreviews, polling
  <2>2. NoPollBegins
    BY <1>25, BuildPreviewsMoves, BuildStays, ThreadsAre DEF Moves, NoPollBegins
  <2>3. QED
    BY <2>1, <2>2, PollsStay
<1> QED
  BY NextIs, <1>1, <1>2, <1>3, <1>4, <1>5, <1>6, <1>7, <1>8, <1>9, <1>10, <1>11, <1>12,
     <1>13, <1>14, <1>15, <1>16, <1>17, <1>18, <1>19, <1>20, <1>21, <1>22, <1>23, <1>24,
     <1>25

LEMMA PollsHeld ==
  ASSUME PollsFit
  PROVE  PollsAreHeld
  BY DEF PollsFit, PollsAreHeld

-----------------------------------------------------------------------------
(* The table and the form.                                                 *)

RefreshPlacesOnly == {3, 4, 9, 10, 11, 26, 27, 30}

LEMMA RefreshIs ==
  ASSUME ThreadsFit, NEW t \in Threads
  PROVE  InRefresh(t) <=> P(t) \in RefreshPlacesOnly
<1>1. thread[t].todo \in AllTodos
  BY DEF ThreadsFit, Thread
<1>2. QED
  BY <1>1, RefreshPlaces DEF InRefresh, Busy, P, RefreshPlacesOnly

LEMMA NoOtherRefresh ==
  ASSUME Typed, NEW t, "table" \notin OtherRefresh(t), NEW u \in Threads \ {t}
  PROVE  P(u) \notin RefreshPlacesOnly
<1>1. ~InRefresh(u)
  BY DEF OtherRefresh
<1>2. QED
  BY <1>1, RefreshIs, TypedFits

\* What goroutine t will write to the table.
Fresh(t) ==
  /\ P(t) \in {3, 10, 26} =>
       thread[t].form = form /\ (thread[t].built => DOMAIN previews = NamesOf(form))
  /\ P(t) \in {4, 11, 27} => thread[t].rows = Cardinality(NamesOf(form))

\* Unless two goroutines refreshed the table at one time: who refreshes it does so from the
\* form of now, and the rows are those of the form unless the window is about to show them.
TableFit ==
  "table" \notin raced =>
    /\ \A t \in Threads : Fresh(t)
    /\ DOMAIN previews = NamesOf(form) \/ P("window") = 26

LEMMA TableInit ==
  ASSUME Init
  PROVE  TableFit
<1>1. \A t \in Threads : P(t) = 0
  BY BeginPlace
<1>2. DOMAIN previews = NamesOf(form)
  BY DEF Init
<1>3. QED
  BY <1>1, <1>2 DEF TableFit, Fresh

\* A step of goroutine t that does not write the table.
LEMMA TableStays ==
  ASSUME TableFit, UNCHANGED <<form, previews>>, raced \subseteq raced',
         NEW t \in Threads, Moves(t), P(t) # 26 \/ P(t)' = 26, Fresh(t)'
  PROVE  TableFit'
<1>1. ASSUME "table" \notin raced'
      PROVE  /\ \A u \in Threads : Fresh(u)'
             /\ DOMAIN previews' = NamesOf(form') \/ P("window")' = 26
  <2>1. /\ \A u \in Threads : Fresh(u)
        /\ DOMAIN previews = NamesOf(form) \/ P("window") = 26
    BY <1>1 DEF TableFit
  <2>2. \A u \in Threads \ {t} : thread'[u] = thread[u] /\ P(u)' = P(u)
    BY DEF Moves
  <2>3. \A u \in Threads \ {t} : Fresh(u)'
    BY <2>1, <2>2 DEF Fresh
  <2>4. P("window") = 26 => P("window")' = 26
    BY <2>2, ThreadsAre
  <2>5. QED
    BY <2>1, <2>3, <2>4
<1>2. QED
  BY <1>1 DEF TableFit

LEMMA TablePasses ==
  ASSUME TableFit, UNCHANGED <<form, previews>>, raced \subseteq raced',
         NEW t \in Threads, Moves(t), P(t) # 26,
         P(t)' \in {0, 1, 2, 5, 6, 7, 8, 9, 12, 13, 20, 21, 22, 23, 24, 25, 30, 40, 50, 51, 52, 53}
  PROVE  TableFit'
<1>1. Fresh(t)'
  BY DEF Fresh
<1>2. QED
  BY <1>1, TableStays

LEMMA TableAssigns ==
  ASSUME TableFit, UNCHANGED <<form, previews>>, raced \subseteq raced',
         NEW t \in Threads, Moves(t), P(t) # 26,
         P(t)' \in {3, 10, 26}, thread'[t].form = form, ~thread'[t].built
  PROVE  TableFit'
<1>1. Fresh(t)'
  BY DEF Fresh
<1>2. QED
  BY <1>1, TableStays

LEMMA TableUnread ==
  ASSUME TableFit, UNCHANGED <<form, previews, thread>>, raced \subseteq raced'
  PROVE  TableFit'
  BY DEF TableFit, Fresh, P

LEMMA TableNext ==
  ASSUME Typed, TableFit, [Next]_vars
  PROVE  TableFit'
<1>1. ASSUME NEW t \in Handlers, Idle(t) /\ StartPublisher(t)
      PROVE  TableFit'
  <2>1. UNCHANGED <<form, previews>> /\ raced \subseteq raced'
    BY <1>1 DEF StartPublisher, widgets, table, Race
  <2>2. QED
    BY <1>1, <2>1, StartMoves, TablePasses, ThreadsAre
<1>2. ASSUME Idle("ready") /\ Goto("ready", <<>>)
             /\ UNCHANGED <<widgets, table, polling, running, publisher, life, raced>>
      PROVE  TableFit'
  <2>1. UNCHANGED <<form, previews>> /\ raced \subseteq raced'
    BY <1>2 DEF widgets, table, Race
  <2>2. QED
    BY <1>2, <2>1, ReadyGivesUp, TablePasses, ThreadsAre
<1>3. ASSUME NEW t \in Handlers, ReadConfig(t)
      PROVE  TableFit'
  <2>1. UNCHANGED <<form, previews>> /\ raced \subseteq raced'
    BY <1>3 DEF ReadConfig, widgets, table, Race
  <2>2. QED
    BY <1>3, <2>1, ReadConfigMoves, TablePasses, ThreadsAre
<1>4. ASSUME NEW t \in Handlers, MarkAll(t)
      PROVE  TableFit'
  <2>1. UNCHANGED <<form, previews>> /\ raced \subseteq raced'
    BY <1>4 DEF MarkAll, widgets, table, Race
  <2>2. QED
    BY <1>4, <2>1, MarkAllMoves, TableAssigns, ThreadsAre
<1>5. ASSUME NEW t \in Handlers, StartWorker(t)
      PROVE  TableFit'
  <2>1. UNCHANGED <<form, previews>> /\ raced \subseteq raced'
    BY <1>5 DEF StartWorker, widgets, table, Race
  <2>2. QED
    BY <1>5, <2>1, StartWorkerMoves, TablePasses, ThreadsAre
<1>6. ASSUME NEW t \in Handlers, SetRunning(t)
      PROVE  TableFit'
  <2>1. UNCHANGED <<form, previews>> /\ raced \subseteq raced'
    BY <1>6 DEF SetRunning, widgets, table, Race
  <2>2. QED
    BY <1>6, <2>1, SetRunningMoves, TablePasses, ThreadsAre
<1>7. ASSUME NEW t \in Handlers, SetButtons(t)
      PROVE  TableFit'
  <2>1. UNCHANGED <<form, previews>> /\ raced \subseteq raced'
    BY <1>7 DEF SetButtons, widgets, table, Race
  <2>2. QED
    BY <1>7, <2>1, SetButtonsMoves, TablePasses, ThreadsAre
<1>8. ASSUME NEW t \in Handlers, ReadStatus(t)
      PROVE  TableFit'
  <2>1. UNCHANGED <<form, previews>> /\ raced \subseteq raced'
    BY <1>8 DEF ReadStatus, widgets, table, Race
  <2>2. QED
    BY <1>8, <2>1, ReadStatusMoves, TablePasses, ThreadsAre
<1>9. ASSUME NEW t \in Handlers, StopPolling(t)
      PROVE  TableFit'
  <2>1. UNCHANGED <<form, previews>> /\ raced \subseteq raced'
    BY <1>9 DEF StopPolling, widgets, table, Race
  <2>2. QED
    BY <1>9, <2>1, StopPollingMoves, TablePasses, ThreadsAre
<1>10. ASSUME NEW t \in Handlers, StartPolling(t)
      PROVE  TableFit'
  <2>1. UNCHANGED <<form, previews, raced>>
    BY <1>10 DEF StartPolling, widgets, table
  <2>2. PICK p \in Polls \ (stopped \cup {statusStop}) :
         /\ statusStop' = p /\ P(p) = 0 /\ P(p)' = 0
         /\ ~thread[p].alive /\ thread'[p] = Begin
         /\ \A u \in Threads \ {t, p} : thread'[u] = thread[u] /\ P(u)' = P(u)
    BY <1>10, StartPollingMoves
  <2>3. P(t) = 13 /\ P(t)' = 0 /\ t # p
    BY <1>10, StartPollingMoves, ThreadsAre
  <2>4. ASSUME "table" \notin raced', NEW u \in Threads, Fresh(u)
        PROVE  Fresh(u)'
    <3>1. CASE u \in {t, p}
      BY <2>2, <2>3, <3>1 DEF Fresh
    <3>2. CASE u \notin {t, p}
      BY <2>1, <2>2, <2>4, <3>2 DEF Fresh
    <3>3. QED
      BY <3>1, <3>2
  <2>5. P("window") = 26 => P("window")' = 26
    BY <2>2, <2>3, ThreadsAre
  <2>6. QED
    BY <2>1, <2>4, <2>5 DEF TableFit
<1>11. ASSUME NEW t \in Threads, SetTargetStatus(t)
      PROVE  TableFit'
  <2>1. UNCHANGED <<form, previews>> /\ raced \subseteq raced'
    BY <1>11 DEF SetTargetStatus, widgets, table, Race
  <2>2. QED
    BY <1>11, <2>1, SetTargetStatusMoves, TableAssigns, ThreadsAre
<1>12. ASSUME NEW t \in Threads, ApplyStatus(t)
      PROVE  TableFit'
  <2>1. UNCHANGED <<form, raced>> /\ DOMAIN previews' = DOMAIN previews
    BY <1>12 DEF ApplyStatus, widgets
  <2>2. /\ Moves(t) /\ thread'[t].rows = Cardinality(DOMAIN previews)
        /\ P(t) \in {3, 10, 26} /\ P(t)' \in {4, 11, 27} /\ thread[t].built
    BY <1>12, ApplyStatusMoves DEF RowsOf
  <2>3. ASSUME "table" \notin raced'
        PROVE  /\ \A u \in Threads : Fresh(u)'
               /\ DOMAIN previews' = NamesOf(form')
    <3>1. /\ \A u \in Threads : Fresh(u)
          /\ DOMAIN previews = NamesOf(form)
      BY <2>1, <2>2, <2>3 DEF TableFit, Fresh
    <3>2. \A u \in Threads \ {t} : Fresh(u)'
      BY <2>1, <2>2, <3>1 DEF Fresh, Moves
    <3>3. Fresh(t)'
      BY <2>1, <2>2, <3>1 DEF Fresh
    <3>4. QED
      BY <2>1, <3>1, <3>2, <3>3
  <2>4. QED
    BY <2>3 DEF TableFit
<1>13. ASSUME NEW t \in Threads, DrawRows(t)
      PROVE  TableFit'
  <2>1. UNCHANGED <<form, previews>> /\ raced \subseteq raced'
    BY <1>13 DEF DrawRows, Panics, widgets, table, Race
  <2>2. \/ Moves(t) /\ P(t) \in {4, 11, 27} /\ P(t)' \in {0, 5, 12, 20}
        \/ UNCHANGED thread
    BY <1>13, DrawRowsMoves
  <2>3. CASE UNCHANGED thread
    BY <2>1, <2>3, TableUnread
  <2>4. QED
    BY <2>1, <2>2, <2>3, TablePasses
<1>14. ASSUME NEW p \in Polls, PollTicks(p)
      PROVE  TableFit'
  <2>1. UNCHANGED <<form, previews>> /\ raced \subseteq raced'
    BY <1>14 DEF PollTicks, widgets, table, Race
  <2>2. QED
    BY <1>14, <2>1, PollTicksMoves, TablePasses, ThreadsAre
<1>15. ASSUME NEW p \in Polls, PollEnds(p)
      PROVE  TableFit'
  <2>1. UNCHANGED <<form, previews>> /\ raced \subseteq raced'
    BY <1>15 DEF PollEnds, widgets, table, Race
  <2>2. QED
    BY <1>15, <2>1, PollEndsMoves, TablePasses, ThreadsAre
<1>16. ASSUME ChangeForm
      PROVE  TableFit'
  <2>1. ASSUME "table" \notin raced', NEW u \in Threads \ {"window"}
        PROVE  Fresh(u)'
    <3>1. "table" \notin OtherRefresh("window")
      BY <1>16, <2>1 DEF ChangeForm, Race
    <3>2. P(u) \notin RefreshPlacesOnly
      BY <2>1, <3>1, NoOtherRefresh
    <3>3. P(u)' = P(u)
      BY <1>16, <2>1, ChangeFormMoves DEF Moves
    <3>4. QED
      BY <3>2, <3>3 DEF Fresh, RefreshPlacesOnly
  <2>2. P("window")' = 26 /\ Fresh("window")'
    BY <1>16, ChangeFormMoves DEF Fresh
  <2>3. QED
    BY <2>1, <2>2 DEF TableFit
<1>17. ASSUME PressStop
      PROVE  TableFit'
  <2>1. UNCHANGED <<form, previews>> /\ raced \subseteq raced'
    BY <1>17 DEF PressStop, widgets, table, Race
  <2>2. QED
    BY <1>17, <2>1, PressStopMoves, TablePasses, ThreadsAre
<1>18. ASSUME StopWorker
      PROVE  TableFit'
  <2>1. UNCHANGED <<form, previews>> /\ raced \subseteq raced'
    BY <1>18 DEF StopWorker, widgets, table, Race
  <2>2. \/ Moves("window") /\ P("window") \in {21, 51} /\ P("window")' \in {22, 52}
        \/ UNCHANGED thread
    BY <1>18, StopWorkerMoves
  <2>3. CASE UNCHANGED thread
    BY <2>1, <2>3, TableUnread
  <2>4. QED
    BY <2>1, <2>2, <2>3, TablePasses, ThreadsAre
<1>19. ASSUME ClearRunning
      PROVE  TableFit'
  <2>1. UNCHANGED <<form, previews>> /\ raced \subseteq raced'
    BY <1>19 DEF ClearRunning, widgets, table, Race
  <2>2. QED
    BY <1>19, <2>1, ClearRunningMoves, TablePasses, ThreadsAre
<1>20. ASSUME PressClose
      PROVE  TableFit'
  <2>1. UNCHANGED <<form, previews>> /\ raced \subseteq raced'
    BY <1>20 DEF PressClose, widgets, table, Race
  <2>2. QED
    BY <1>20, <2>1, PressCloseMoves, TablePasses, ThreadsAre
<1>21. ASSUME AnswerClose
      PROVE  TableFit'
  <2>1. UNCHANGED <<form, previews>> /\ raced \subseteq raced'
    BY <1>21 DEF AnswerClose, widgets, table, Race
  <2>2. QED
    BY <1>21, <2>1, AnswerCloseMoves, TablePasses, ThreadsAre
<1>22. ASSUME CloseWindow
      PROVE  TableFit'
  <2>1. UNCHANGED <<form, previews, thread, raced>>
    BY <1>22 DEF CloseWindow, widgets, table
  <2>2. QED
    BY <2>1, TableUnread
<1>23. ASSUME WorkerMoves
      PROVE  TableFit'
  <2>1. UNCHANGED <<form, previews, thread, raced>>
    BY <1>23 DEF WorkerMoves, widgets, table
  <2>2. QED
    BY <2>1, TableUnread
<1>24. ASSUME UNCHANGED vars
      PROVE  TableFit'
  <2>1. UNCHANGED <<form, previews, thread, raced>>
    BY <1>24 DEF vars, widgets, table
  <2>2. QED
    BY <2>1, TableUnread
<1>25. ASSUME NEW t \in Threads, BuildPreviews(t)
      PROVE  TableFit'
  <2>1. /\ UNCHANGED <<form, raced>>
        /\ DOMAIN previews' = NamesOf(thread[t].form)
    BY <1>25 DEF BuildPreviews, widgets
  <2>2. /\ Moves(t) /\ P(t) \in {3, 10, 26} /\ P(t)' = P(t)
        /\ thread'[t].form = thread[t].form
    BY <1>25, BuildPreviewsMoves
  <2>3. ASSUME "table" \notin raced'
        PROVE  /\ \A u \in Threads : Fresh(u)'
               /\ DOMAIN previews' = NamesOf(form')
    <3>1. /\ \A u \in Threads : Fresh(u)
          /\ thread[t].form = form
      BY <2>1, <2>2, <2>3 DEF TableFit, Fresh
    <3>2. \A u \in Threads \ {t} : Fresh(u)'
      BY <2>1, <2>2, <3>1 DEF Fresh, Moves
    <3>3. Fresh(t)'
      BY <2>1, <2>2, <3>1 DEF Fresh
    <3>4. QED
      BY <2>1, <3>1, <3>2, <3>3
  <2>4. QED
    BY <2>3 DEF TableFit
<1> QED
  BY NextIs, <1>1, <1>2, <1>3, <1>4, <1>5, <1>6, <1>7, <1>8, <1>9, <1>10, <1>11, <1>12,
     <1>13, <1>14, <1>15, <1>16, <1>17, <1>18, <1>19, <1>20, <1>21, <1>22, <1>23, <1>24,
     <1>25

LEMMA TableFollows ==
  ASSUME Typed, TableFit
  PROVE  TableFollowsForm
  BY WindowAtRest DEF TableFit, TableFollowsForm

-----------------------------------------------------------------------------
(* The rows that the table was told of.                                    *)

\* As long as nothing overlapped: when the rows are not those of the form, its callback is
\* the only thing under way and nothing is published.
Stale == DOMAIN previews # NamesOf(form)
StaleFit ==
  raced = {} /\ Stale =>
    /\ ~running /\ P("window") = 26
    /\ \A t \in Threads \ {"window"} : P(t) = 0

LEMMA StaleInit ==
  ASSUME Init
  PROVE  StaleFit
  BY DEF Init, StaleFit, Stale

\* A step of a goroutine that would not be at work.
LEMMA StaleWaits ==
  ASSUME StaleFit, UNCHANGED <<form, previews>>, raced \subseteq raced', NEW t \in Threads,
         P(t) \notin {0, 26}
  PROVE  StaleFit'
  BY DEF StaleFit, Stale

LEMMA StaleRests ==
  ASSUME StaleFit, UNCHANGED <<form, previews>>, raced \subseteq raced', P("window") = 0
  PROVE  StaleFit'
  BY DEF StaleFit, Stale

LEMMA StaleStays ==
  ASSUME StaleFit, UNCHANGED <<form, previews, running>>, raced \subseteq raced',
         \A t \in Threads : P(t)' = P(t)
  PROVE  StaleFit'
<1>1. "window" \in Threads
  BY ThreadsAre
<1>2. QED
  BY <1>1 DEF StaleFit, Stale

LEMMA StaleNext ==
  ASSUME Typed, ButtonsFit, TableFit, StaleFit, [Next]_vars
  PROVE  StaleFit'
<1>1. ASSUME NEW t \in Handlers, Idle(t) /\ StartPublisher(t)
      PROVE  StaleFit'
  <2>1. /\ UNCHANGED <<form, previews>> /\ raced' = raced \cup OtherStart(t)
        /\ raced \subseteq raced'
    BY <1>1 DEF StartPublisher, widgets, table, Race
  <2>2. CASE t = "window"
    BY <1>1, <2>1, <2>2, StartMoves, StaleRests, ThreadsAre
  <2>3. CASE t = "ready"
    <3>1. raced' = {} => P("window") # 26
      BY <2>1, <2>3, OtherStartIs
    <3>2. QED
      BY <2>1, <3>1 DEF StaleFit, Stale
  <2>4. QED
    BY <2>2, <2>3, ThreadsAre
<1>2. ASSUME Idle("ready") /\ Goto("ready", <<>>)
             /\ UNCHANGED <<widgets, table, polling, running, publisher, life, raced>>
      PROVE  StaleFit'
  <2>1. UNCHANGED <<form, previews, running>> /\ raced \subseteq raced'
    BY <1>2 DEF widgets, table
  <2>2. \A t \in Threads : P(t)' = P(t)
    BY <1>2, ReadyGivesUp DEF Moves
  <2>3. QED
    BY <2>1, <2>2, StaleStays
<1>3. ASSUME NEW t \in Handlers, ReadConfig(t)
      PROVE  StaleFit'
  <2>1. UNCHANGED <<form, previews>> /\ raced \subseteq raced'
    BY <1>3 DEF ReadConfig, widgets, table, Race
  <2>2. t \in Threads /\ P(t) \notin {0, 26}
    BY <1>3, ReadConfigMoves, ThreadsAre
  <2>3. QED
    BY <2>1, <2>2, StaleWaits
<1>4. ASSUME NEW t \in Handlers, MarkAll(t)
      PROVE  StaleFit'
  <2>1. UNCHANGED <<form, previews>> /\ raced \subseteq raced'
    BY <1>4 DEF MarkAll, widgets, table, Race
  <2>2. t \in Threads /\ P(t) \notin {0, 26}
    BY <1>4, MarkAllMoves, ThreadsAre
  <2>3. QED
    BY <2>1, <2>2, StaleWaits
<1>5. ASSUME NEW t \in Handlers, StartWorker(t)
      PROVE  StaleFit'
  <2>1. UNCHANGED <<form, previews>> /\ raced \subseteq raced'
    BY <1>5 DEF StartWorker, widgets, table, Race
  <2>2. t \in Threads /\ P(t) \notin {0, 26}
    BY <1>5, StartWorkerMoves, ThreadsAre
  <2>3. QED
    BY <2>1, <2>2, StaleWaits
<1>6. ASSUME NEW t \in Handlers, SetRunning(t)
      PROVE  StaleFit'
  <2>1. UNCHANGED <<form, previews>> /\ raced \subseteq raced'
    BY <1>6 DEF SetRunning, widgets, table, Race
  <2>2. t \in Threads /\ P(t) \notin {0, 26}
    BY <1>6, SetRunningMoves, ThreadsAre
  <2>3. QED
    BY <2>1, <2>2, StaleWaits
<1>7. ASSUME NEW t \in Handlers, SetButtons(t)
      PROVE  StaleFit'
  <2>1. UNCHANGED <<form, previews>> /\ raced \subseteq raced'
    BY <1>7 DEF SetButtons, widgets, table, Race
  <2>2. t \in Threads /\ P(t) \notin {0, 26}
    BY <1>7, SetButtonsMoves, ThreadsAre
  <2>3. QED
    BY <2>1, <2>2, StaleWaits
<1>8. ASSUME NEW t \in Handlers, ReadStatus(t)
      PROVE  StaleFit'
  <2>1. UNCHANGED <<form, previews>> /\ raced \subseteq raced'
    BY <1>8 DEF ReadStatus, widgets, table, Race
  <2>2. t \in Threads /\ P(t) \notin {0, 26}
    BY <1>8, ReadStatusMoves, ThreadsAre
  <2>3. QED
    BY <2>1, <2>2, StaleWaits
<1>9. ASSUME NEW t \in Handlers, StopPolling(t)
      PROVE  StaleFit'
  <2>1. UNCHANGED <<form, previews>> /\ raced \subseteq raced'
    BY <1>9 DEF StopPolling, widgets, table, Race
  <2>2. t \in Threads /\ P(t) \notin {0, 26}
    BY <1>9, StopPollingMoves, ThreadsAre
  <2>3. QED
    BY <2>1, <2>2, StaleWaits
<1>10. ASSUME NEW t \in Handlers, StartPolling(t)
      PROVE  StaleFit'
  <2>1. UNCHANGED <<form, previews>> /\ raced \subseteq raced'
    BY <1>10 DEF StartPolling, widgets, table, Race
  <2>2. t \in Threads /\ P(t) \notin {0, 26}
    BY <1>10, StartPollingMoves, ThreadsAre
  <2>3. QED
    BY <2>1, <2>2, StaleWaits
<1>11. ASSUME NEW t \in Threads, SetTargetStatus(t)
      PROVE  StaleFit'
  <2>1. UNCHANGED <<form, previews>> /\ raced \subseteq raced'
    BY <1>11 DEF SetTargetStatus, widgets, table, Race
  <2>2. t \in Threads /\ P(t) \notin {0, 26}
    BY <1>11, SetTargetStatusMoves, ThreadsAre
  <2>3. QED
    BY <2>1, <2>2, StaleWaits
<1>12. ASSUME NEW t \in Threads, ApplyStatus(t)
      PROVE  StaleFit'
  <2>1. UNCHANGED <<form, raced>> /\ DOMAIN previews' = DOMAIN previews
    BY <1>12 DEF ApplyStatus, widgets
  <2>2. raced = {} => DOMAIN previews = NamesOf(form)
    BY <1>12, ApplyStatusMoves DEF TableFit, Fresh
  <2>3. QED
    BY <2>1, <2>2 DEF StaleFit, Stale
<1>13. ASSUME NEW t \in Threads, DrawRows(t)
      PROVE  StaleFit'
  <2>1. UNCHANGED <<form, previews>> /\ raced \subseteq raced'
    BY <1>13 DEF DrawRows, Panics, widgets, table, Race
  <2>2. P(t) \in {4, 11, 27}
    BY <1>13, DrawRowsMoves
  <2>3. QED
    BY <2>1, <2>2, StaleWaits
<1>14. ASSUME NEW p \in Polls, PollTicks(p)
      PROVE  StaleFit'
  <2>1. UNCHANGED <<form, previews, raced>> /\ running
    BY <1>14 DEF PollTicks, widgets, table
  <2>2. QED
    BY <2>1 DEF StaleFit, Stale
<1>15. ASSUME NEW p \in Polls, PollEnds(p)
      PROVE  StaleFit'
  <2>1. UNCHANGED <<form, previews, running>> /\ raced \subseteq raced'
    BY <1>15 DEF PollEnds, widgets, table
  <2>2. \A t \in Threads : P(t)' = P(t)
    BY <1>15, PollEndsMoves DEF Moves
  <2>3. QED
    BY <2>1, <2>2, StaleStays
<1>16. ASSUME ChangeForm
      PROVE  StaleFit'
  <2>1. Moves("window") /\ P("window") = 0 /\ P("window")' = 26
    BY <1>16, ChangeFormMoves
  <2>2. ASSUME raced' = {}
        PROVE  ~running' /\ \A t \in Threads \ {"window"} : P(t)' = 0
    <3>1. /\ raced = {} /\ "table" \notin OtherRefresh("window") /\ ~Publishes
          /\ running' = running
      BY <1>16, <2>2 DEF ChangeForm, Race
    <3>2. P("ready") = 0 /\ publisher.worker = "Stopped"
      BY <3>1, IdlePlace, TypedFits, ThreadsAre DEF Publishes
    <3>3. \A t \in Polls : P(t) = 0
      BY <3>1, NoOtherRefresh, PlacesAre, TypedFits, ThreadsAre, UIAssumption
         DEF PollPlaces, RefreshPlacesOnly
    <3>4. Agree
      BY <2>1, <3>1, <3>2 DEF ButtonsFit, OneHandler, Resting
    <3>5. ~running
      BY <3>2, <3>4 DEF Agree, Active
    <3>6. QED
      BY <2>1, <3>1, <3>2, <3>3, <3>5 DEF Moves, Threads
  <2>3. QED
    BY <2>1, <2>2 DEF StaleFit
<1>17. ASSUME PressStop
      PROVE  StaleFit'
  <2>1. UNCHANGED <<form, previews>> /\ raced \subseteq raced'
    BY <1>17 DEF PressStop, widgets, table, Race
  <2>2. P("window") = 0
    BY <1>17, PressStopMoves
  <2>3. QED
    BY <2>1, <2>2, StaleRests
<1>18. ASSUME StopWorker
      PROVE  StaleFit'
  <2>1. UNCHANGED <<form, previews>> /\ raced \subseteq raced'
    BY <1>18 DEF StopWorker, widgets, table, Race
  <2>2. "window" \in Threads /\ P("window") \notin {0, 26}
    BY <1>18, StopWorkerMoves, ThreadsAre
  <2>3. QED
    BY <2>1, <2>2, StaleWaits
<1>19. ASSUME ClearRunning
      PROVE  StaleFit'
  <2>1. UNCHANGED <<form, previews>> /\ raced \subseteq raced'
    BY <1>19 DEF ClearRunning, widgets, table, Race
  <2>2. "window" \in Threads /\ P("window") \notin {0, 26}
    BY <1>19, ClearRunningMoves, ThreadsAre
  <2>3. QED
    BY <2>1, <2>2, StaleWaits
<1>20. ASSUME PressClose
      PROVE  StaleFit'
  <2>1. UNCHANGED <<form, previews>> /\ raced \subseteq raced'
    BY <1>20 DEF PressClose, widgets, table, Race
  <2>2. P("window") = 0
    BY <1>20, PressCloseMoves
  <2>3. QED
    BY <2>1, <2>2, StaleRests
<1>21. ASSUME AnswerClose
      PROVE  StaleFit'
  <2>1. UNCHANGED <<form, previews>> /\ raced \subseteq raced'
    BY <1>21 DEF AnswerClose, widgets, table, Race
  <2>2. "window" \in Threads /\ P("window") \notin {0, 26}
    BY <1>21, AnswerCloseMoves, ThreadsAre
  <2>3. QED
    BY <2>1, <2>2, StaleWaits
<1>22. ASSUME CloseWindow
      PROVE  StaleFit'
  <2>1. UNCHANGED <<form, previews, running, thread, raced>>
    BY <1>22 DEF CloseWindow, widgets, table
  <2>2. \A t \in Threads : P(t)' = P(t)
    BY <2>1 DEF P
  <2>3. QED
    BY <2>1, <2>2, StaleStays
<1>23. ASSUME WorkerMoves
      PROVE  StaleFit'
  <2>1. UNCHANGED <<form, previews, running, thread, raced>>
    BY <1>23 DEF WorkerMoves, widgets, table
  <2>2. \A t \in Threads : P(t)' = P(t)
    BY <2>1 DEF P
  <2>3. QED
    BY <2>1, <2>2, StaleStays
<1>24. ASSUME UNCHANGED vars
      PROVE  StaleFit'
  <2>1. UNCHANGED <<form, previews, running, thread, raced>>
    BY <1>24 DEF vars, widgets, table
  <2>2. \A t \in Threads : P(t)' = P(t)
    BY <2>1 DEF P
  <2>3. QED
    BY <2>1, <2>2, StaleStays
<1>25. ASSUME NEW t \in Threads, BuildPreviews(t)
      PROVE  StaleFit'
  <2>1. /\ UNCHANGED <<form, raced>>
        /\ DOMAIN previews' = NamesOf(thread[t].form)
    BY <1>25 DEF BuildPreviews, widgets
  <2>2. raced = {} => thread[t].form = form
    BY <1>25, BuildPreviewsMoves DEF TableFit, Fresh
  <2>3. QED
    BY <2>1, <2>2 DEF StaleFit, Stale
<1> QED
  BY NextIs, <1>1, <1>2, <1>3, <1>4, <1>5, <1>6, <1>7, <1>8, <1>9, <1>10, <1>11, <1>12,
     <1>13, <1>14, <1>15, <1>16, <1>17, <1>18, <1>19, <1>20, <1>21, <1>22, <1>23, <1>24,
     <1>25

CrashFits == life = "crashed" => raced # {}

LEMMA CrashNext ==
  ASSUME Typed, ButtonsFit, TableFit, StaleFit, CrashFits, [Next]_vars
  PROVE  CrashFits'
<1>1. ASSUME NEW t \in Threads, DrawRows(t), life = "open"
      PROVE  CrashFits'
  <2>1. ASSUME raced = {}
        PROVE  ~(Cardinality(DOMAIN previews) < thread[t].rows) \/ P(t) \notin {4, 11, 27}
    <3>1. ASSUME P(t) \in {4, 11, 27}
          PROVE  ~Stale /\ thread[t].rows = Cardinality(NamesOf(form))
      BY <2>1, <3>1, ThreadsAre DEF StaleFit, TableFit, Fresh
    <3>2. form \in Forms
      BY DEF Typed
    <3>3. QED
      BY <3>1, <3>2, NamesOfForm DEF Stale
  <2>2. QED
    BY <1>1, <2>1, DrawRowsMoves DEF CrashFits
<1>2. ASSUME StopWorker, life = "open"
      PROVE  CrashFits'
  BY <1>2, StopWorkerMoves DEF CrashFits, ButtonsFit
<1>3. ASSUME UNCHANGED vars PROVE CrashFits'
  BY <1>3 DEF vars, CrashFits
<1>4. ASSUME Next, ~StopWorker, \A t \in Threads : ~DrawRows(t)
      PROVE  life' # "crashed"
  <2>1. life = "open"
    BY <1>4, OpenNext
  <2>2. ASSUME NEW t \in Threads, SetTargetStatus(t) \/ BuildPreviews(t) \/ ApplyStatus(t)
        PROVE  life' # "crashed"
    BY <2>1, <2>2 DEF SetTargetStatus, BuildPreviews, ApplyStatus
  <2>3. ASSUME NEW t \in Handlers,
               \/ Idle(t) /\ StartPublisher(t)
               \/ ReadConfig(t) \/ MarkAll(t) \/ StartWorker(t) \/ SetRunning(t)
               \/ SetButtons(t) \/ ReadStatus(t) \/ StopPolling(t) \/ StartPolling(t)
        PROVE  life' # "crashed"
    BY <2>1, <2>3 DEF StartPublisher, ReadConfig, MarkAll, StartWorker, SetRunning, SetButtons,
       ReadStatus, StopPolling, StartPolling
  <2>4. ASSUME \/ ChangeForm \/ PressStop \/ ClearRunning
               \/ PressClose \/ AnswerClose \/ CloseWindow \/ WorkerMoves
        PROVE  life' # "crashed"
    BY <2>1, <2>4 DEF ChangeForm, PressStop, ClearRunning, PressClose, AnswerClose, CloseWindow,
       WorkerMoves
  <2>5. ASSUME NEW p \in Polls, PollTicks(p) \/ PollEnds(p)
        PROVE  life' # "crashed"
    BY <2>1, <2>5 DEF PollTicks, PollEnds
  <2>6. QED
    BY <1>4, <2>1, <2>2, <2>3, <2>4, <2>5, NextIs
<1>5. QED
  BY <1>1, <1>2, <1>3, <1>4, OpenNext DEF CrashFits

-----------------------------------------------------------------------------
(* What the rows show.                                                     *)

\* The names that are shown as if they were published.
Live(s) == {n \in DOMAIN s : s[n] \in Active}

\* As long as nothing overlapped: the statuses that a goroutine read are of rows of the form,
StatusFit ==
  raced = {} => \A t \in Threads : P(t) \in {9, 30} => Live(thread[t].status) \subseteq NamesOf(form)

\* and so are those that were stored,
LiveFit == raced = {} => Live(targetStatus) \subseteq NamesOf(form)

\* and the targets of a publisher that publishes or is about to;
Published == publisher.worker \in Active \/ P("window") \in 2..5 \/ P("ready") \in 2..5
TargetsFit == raced = {} /\ Published => publisher.targets \subseteq NamesOf(form)

\* and when it is off, and no handler is on the way to show that, nothing is shown as if it
\* were published and no poll is about to.
AtOff ==
  \/ P("window") \in {0, 26, 27} /\ P("ready") = 0
  \/ \E t \in Handlers : P(t) \in {1, 2, 40, 52, 53}
IsOff == ~running /\ AtOff
OffFit ==
  raced = {} /\ IsOff =>
    /\ Live(targetStatus) = {}
    /\ Live(previews) = {} \/ P("window") = 26
    /\ \A p \in Polls : P(p) = 0

LEMMA ShownInit ==
  ASSUME Init
  PROVE  StatusFit /\ LiveFit /\ TargetsFit /\ OffFit
<1>1. \A t \in Threads : P(t) = 0
  BY BeginPlace
<1>2. Live(targetStatus) = {} /\ Live(previews) = {}
  BY DEF Init, Live, NoStatus, Active
<1>3. publisher.worker \notin Active
  BY DEF Init, Active
<1>4. P("window") = 0 /\ P("ready") = 0 /\ \A p \in Polls : P(p) = 0
  BY <1>1, ThreadsAre
<1>5. StatusFit /\ LiveFit
  BY <1>1, <1>2 DEF StatusFit, LiveFit
<1>6. TargetsFit /\ OffFit
  BY <1>2, <1>3, <1>4 DEF TargetsFit, Published, OffFit
<1>7. QED
  BY <1>5, <1>6

LEMMA SnapshotLive ==
  ASSUME Typed, ButtonsFit, TargetsFit, raced = {}
  PROVE  Live(Snapshot) \subseteq NamesOf(form)
<1>1. publisher.worker # "Ending"
  BY DEF ButtonsFit
<1>2. DOMAIN Snapshot = publisher.targets /\ \A n \in publisher.targets : Snapshot[n] = publisher.worker
  BY <1>1 DEF Snapshot
<1>3. CASE publisher.worker \in Active
  <2>1. publisher.targets \subseteq NamesOf(form)
    BY <1>3 DEF TargetsFit, Published
  <2>2. QED
    BY <1>2, <2>1 DEF Live
<1>4. CASE publisher.worker \notin Active
  BY <1>2, <1>4 DEF Live
<1>5. QED
  BY <1>3, <1>4

LEMMA SetAllLive ==
  /\ Live(SetAll("Starting")) \subseteq DOMAIN previews \cup Live(targetStatus)
  /\ Live(SetAll("Stopped")) \subseteq Live(targetStatus) \ DOMAIN previews
  BY DEF Live, SetAll, Active

LEMMA PreviewsLive ==
  Live([n \in DOMAIN previews |-> IF n \in DOMAIN targetStatus THEN targetStatus[n] ELSE "Idle"])
    \subseteq Live(targetStatus)
  BY DEF Live, Active

\* The user changes the form while nothing is published and nothing else is under way.
LEMMA ChangeAtRest ==
  ASSUME Typed, ButtonsFit, ChangeForm, raced' = {}
  PROVE  /\ raced = {} /\ ~running /\ publisher.worker = "Stopped"
         /\ P("window") = 0 /\ P("window")' = 26
         /\ \A t \in Threads \ {"window"} : P(t) = 0 /\ P(t)' = 0
         /\ UNCHANGED <<running, table, publisher>>
<1>1. Moves("window") /\ P("window") = 0 /\ P("window")' = 26
  BY ChangeFormMoves
<1>2. /\ raced = {} /\ "table" \notin OtherRefresh("window") /\ ~Publishes
      /\ UNCHANGED <<running, table, publisher>>
  BY DEF ChangeForm, Race
<1>3. P("ready") = 0 /\ publisher.worker = "Stopped"
  BY <1>2, IdlePlace, TypedFits, ThreadsAre DEF Publishes
<1>4. \A t \in Polls : P(t) = 0
  BY <1>2, NoOtherRefresh, PlacesAre, TypedFits, ThreadsAre, UIAssumption
     DEF PollPlaces, RefreshPlacesOnly
<1>5. Agree
  BY <1>1, <1>2, <1>3 DEF ButtonsFit, OneHandler, Resting
<1>6. ~running
  BY <1>3, <1>5 DEF Agree, Active
<1>7. \A t \in Threads \ {"window"} : P(t) = 0 /\ P(t)' = P(t)
  BY <1>1, <1>3, <1>4 DEF Moves, Threads
<1>8. QED
  BY <1>1, <1>2, <1>3, <1>6, <1>7

-----------------------------------------------------------------------------
(* The statuses that were read.                                            *)

LEMMA StatusPasses ==
  ASSUME StatusFit, UNCHANGED form, raced \subseteq raced', NEW t \in Threads, Moves(t),
         P(t)' \notin {9, 30}
  PROVE  StatusFit'
<1>1. \A u \in Threads \ {t} : thread'[u] = thread[u] /\ P(u)' = P(u)
  BY DEF Moves
<1>2. QED
  BY <1>1 DEF StatusFit

LEMMA StatusUnread ==
  ASSUME StatusFit, UNCHANGED <<form, thread>>, raced \subseteq raced'
  PROVE  StatusFit'
  BY DEF StatusFit, P

LEMMA StatusRead ==
  ASSUME Typed, ButtonsFit, TargetsFit, StatusFit, UNCHANGED <<form, raced>>,
         NEW t \in Threads, Moves(t), thread'[t].status = Snapshot
  PROVE  StatusFit'
<1>1. \A u \in Threads \ {t} : thread'[u] = thread[u] /\ P(u)' = P(u)
  BY DEF Moves
<1>2. raced = {} => Live(thread'[t].status) \subseteq NamesOf(form)
  BY SnapshotLive
<1>3. QED
  BY <1>1, <1>2 DEF StatusFit

LEMMA StatusNext ==
  ASSUME Typed, ButtonsFit, TargetsFit, StatusFit, [Next]_vars
  PROVE  StatusFit'
<1>1. ASSUME NEW t \in Handlers, Idle(t) /\ StartPublisher(t)
      PROVE  StatusFit'
  <2>1. UNCHANGED form /\ raced \subseteq raced'
    BY <1>1 DEF StartPublisher, widgets, Race
  <2>2. t \in Threads /\ Moves(t) /\ P(t)' \notin {9, 30}
    BY <1>1, StartMoves, ThreadsAre
  <2>3. QED
    BY <2>1, <2>2, StatusPasses
<1>2. ASSUME Idle("ready") /\ Goto("ready", <<>>)
             /\ UNCHANGED <<widgets, table, polling, running, publisher, life, raced>>
      PROVE  StatusFit'
  <2>1. UNCHANGED form /\ raced \subseteq raced'
    BY <1>2 DEF widgets, Race
  <2>2. "ready" \in Threads /\ Moves("ready") /\ P("ready")' \notin {9, 30}
    BY <1>2, ReadyGivesUp, ThreadsAre
  <2>3. QED
    BY <2>1, <2>2, StatusPasses
<1>3. ASSUME NEW t \in Handlers, ReadConfig(t)
      PROVE  StatusFit'
  <2>1. UNCHANGED form /\ raced \subseteq raced'
    BY <1>3 DEF ReadConfig, widgets, Race
  <2>2. t \in Threads /\ Moves(t) /\ P(t)' \notin {9, 30}
    BY <1>3, ReadConfigMoves, ThreadsAre
  <2>3. QED
    BY <2>1, <2>2, StatusPasses
<1>4. ASSUME NEW t \in Handlers, MarkAll(t)
      PROVE  StatusFit'
  <2>1. UNCHANGED form /\ raced \subseteq raced'
    BY <1>4 DEF MarkAll, widgets, Race
  <2>2. t \in Threads /\ Moves(t) /\ P(t)' \notin {9, 30}
    BY <1>4, MarkAllMoves, ThreadsAre
  <2>3. QED
    BY <2>1, <2>2, StatusPasses
<1>5. ASSUME NEW t \in Handlers, StartWorker(t)
      PROVE  StatusFit'
  <2>1. UNCHANGED form /\ raced \subseteq raced'
    BY <1>5 DEF StartWorker, widgets, Race
  <2>2. t \in Threads /\ Moves(t) /\ P(t)' \notin {9, 30}
    BY <1>5, StartWorkerMoves, ThreadsAre
  <2>3. QED
    BY <2>1, <2>2, StatusPasses
<1>6. ASSUME NEW t \in Handlers, SetRunning(t)
      PROVE  StatusFit'
  <2>1. UNCHANGED form /\ raced \subseteq raced'
    BY <1>6 DEF SetRunning, widgets, Race
  <2>2. t \in Threads /\ Moves(t) /\ P(t)' \notin {9, 30}
    BY <1>6, SetRunningMoves, ThreadsAre
  <2>3. QED
    BY <2>1, <2>2, StatusPasses
<1>7. ASSUME NEW t \in Handlers, SetButtons(t)
      PROVE  StatusFit'
  <2>1. UNCHANGED form /\ raced \subseteq raced'
    BY <1>7 DEF SetButtons, widgets, Race
  <2>2. t \in Threads /\ Moves(t) /\ P(t)' \notin {9, 30}
    BY <1>7, SetButtonsMoves, ThreadsAre
  <2>3. QED
    BY <2>1, <2>2, StatusPasses
<1>8. ASSUME NEW t \in Handlers, ReadStatus(t)
      PROVE  StatusFit'
  <2>1. UNCHANGED <<form, raced>>
    BY <1>8 DEF ReadStatus, widgets
  <2>2. t \in Threads /\ Moves(t) /\ thread'[t].status = Snapshot
    BY <1>8, ReadStatusMoves, ThreadsAre
  <2>3. QED
    BY <2>1, <2>2, StatusRead
<1>9. ASSUME NEW t \in Handlers, StopPolling(t)
      PROVE  StatusFit'
  <2>1. UNCHANGED form /\ raced \subseteq raced'
    BY <1>9 DEF StopPolling, widgets, Race
  <2>2. t \in Threads /\ Moves(t) /\ P(t)' \notin {9, 30}
    BY <1>9, StopPollingMoves, ThreadsAre
  <2>3. QED
    BY <2>1, <2>2, StatusPasses
<1>10. ASSUME NEW t \in Handlers, StartPolling(t)
      PROVE  StatusFit'
  <2>1. UNCHANGED <<form, raced>>
    BY <1>10 DEF StartPolling, widgets
  <2>2. PICK p \in Polls \ (stopped \cup {statusStop}) :
         /\ statusStop' = p /\ P(p) = 0 /\ P(p)' = 0
         /\ ~thread[p].alive /\ thread'[p] = Begin
         /\ \A u \in Threads \ {t, p} : thread'[u] = thread[u] /\ P(u)' = P(u)
    BY <1>10, StartPollingMoves
  <2>3. P(t)' = 0
    BY <1>10, StartPollingMoves
  <2>4. QED
    BY <2>1, <2>2, <2>3 DEF StatusFit
<1>11. ASSUME NEW t \in Threads, SetTargetStatus(t)
      PROVE  StatusFit'
  <2>1. UNCHANGED form /\ raced \subseteq raced'
    BY <1>11 DEF SetTargetStatus, widgets, Race
  <2>2. t \in Threads /\ Moves(t) /\ P(t)' \notin {9, 30}
    BY <1>11, SetTargetStatusMoves, ThreadsAre
  <2>3. QED
    BY <2>1, <2>2, StatusPasses
<1>12. ASSUME NEW t \in Threads, ApplyStatus(t)
      PROVE  StatusFit'
  <2>1. UNCHANGED form /\ raced \subseteq raced'
    BY <1>12 DEF ApplyStatus, widgets, Race
  <2>2. t \in Threads /\ Moves(t) /\ P(t)' \notin {9, 30}
    BY <1>12, ApplyStatusMoves, ThreadsAre
  <2>3. QED
    BY <2>1, <2>2, StatusPasses
<1>13. ASSUME NEW t \in Threads, DrawRows(t)
      PROVE  StatusFit'
  <2>1. UNCHANGED form /\ raced \subseteq raced'
    BY <1>13 DEF DrawRows, widgets, Race, Panics
  <2>2. CASE UNCHANGED thread
    BY <2>1, <2>2, StatusUnread
  <2>3. CASE Moves(t) /\ P(t)' \in {0, 5, 12, 20}
    BY <2>1, <2>3, StatusPasses
  <2>4. QED
    BY <1>13, <2>2, <2>3, DrawRowsMoves
<1>14. ASSUME NEW p \in Polls, PollTicks(p)
      PROVE  StatusFit'
  <2>1. UNCHANGED <<form, raced>>
    BY <1>14 DEF PollTicks, widgets
  <2>2. p \in Threads /\ Moves(p) /\ thread'[p].status = Snapshot
    BY <1>14, PollTicksMoves, ThreadsAre
  <2>3. QED
    BY <2>1, <2>2, StatusRead
<1>15. ASSUME NEW p \in Polls, PollEnds(p)
      PROVE  StatusFit'
  <2>1. UNCHANGED form /\ raced \subseteq raced'
    BY <1>15 DEF PollEnds, widgets, Race
  <2>2. p \in Threads /\ Moves(p) /\ P(p)' \notin {9, 30}
    BY <1>15, PollEndsMoves, ThreadsAre
  <2>3. QED
    BY <2>1, <2>2, StatusPasses
<1>16. ASSUME ChangeForm
      PROVE  StatusFit'
  <2>1. ASSUME raced' = {} PROVE \A t \in Threads : P(t)' \notin {9, 30}
    BY <1>16, <2>1, ChangeAtRest
  <2>2. QED
    BY <2>1 DEF StatusFit
<1>17. ASSUME PressStop
      PROVE  StatusFit'
  <2>1. UNCHANGED form /\ raced \subseteq raced'
    BY <1>17 DEF PressStop, widgets, Race
  <2>2. "window" \in Threads /\ Moves("window") /\ P("window")' \notin {9, 30}
    BY <1>17, PressStopMoves, ThreadsAre
  <2>3. QED
    BY <2>1, <2>2, StatusPasses
<1>18. ASSUME StopWorker
      PROVE  StatusFit'
  <2>1. UNCHANGED form /\ raced \subseteq raced'
    BY <1>18 DEF StopWorker, widgets, Race
  <2>2. CASE UNCHANGED thread
    BY <2>1, <2>2, StatusUnread
  <2>3. CASE Moves("window") /\ P("window")' \in {22, 52}
    BY <2>1, <2>3, StatusPasses, ThreadsAre
  <2>4. QED
    BY <1>18, <2>2, <2>3, StopWorkerMoves
<1>19. ASSUME ClearRunning
      PROVE  StatusFit'
  <2>1. UNCHANGED form /\ raced \subseteq raced'
    BY <1>19 DEF ClearRunning, widgets, Race
  <2>2. "window" \in Threads /\ Moves("window") /\ P("window")' \notin {9, 30}
    BY <1>19, ClearRunningMoves, ThreadsAre
  <2>3. QED
    BY <2>1, <2>2, StatusPasses
<1>20. ASSUME PressClose
      PROVE  StatusFit'
  <2>1. UNCHANGED form /\ raced \subseteq raced'
    BY <1>20 DEF PressClose, widgets, Race
  <2>2. "window" \in Threads /\ Moves("window") /\ P("window")' \notin {9, 30}
    BY <1>20, PressCloseMoves, ThreadsAre
  <2>3. QED
    BY <2>1, <2>2, StatusPasses
<1>21. ASSUME AnswerClose
      PROVE  StatusFit'
  <2>1. UNCHANGED form /\ raced \subseteq raced'
    BY <1>21 DEF AnswerClose, widgets, Race
  <2>2. "window" \in Threads /\ Moves("window") /\ P("window")' \notin {9, 30}
    BY <1>21, AnswerCloseMoves, ThreadsAre
  <2>3. QED
    BY <2>1, <2>2, StatusPasses
<1>22. ASSUME CloseWindow
      PROVE  StatusFit'
  <2>1. UNCHANGED <<form, thread, raced>>
    BY <1>22 DEF CloseWindow, widgets
  <2>2. QED
    BY <2>1, StatusUnread
<1>23. ASSUME WorkerMoves
      PROVE  StatusFit'
  <2>1. UNCHANGED <<form, thread, raced>>
    BY <1>23 DEF WorkerMoves, widgets
  <2>2. QED
    BY <2>1, StatusUnread
<1>24. ASSUME UNCHANGED vars
      PROVE  StatusFit'
  <2>1. UNCHANGED <<form, thread, raced>>
    BY <1>24 DEF vars, widgets
  <2>2. QED
    BY <2>1, StatusUnread
<1>25. ASSUME NEW t \in Threads, BuildPreviews(t)
      PROVE  StatusFit'
  <2>1. UNCHANGED form /\ raced \subseteq raced'
    BY <1>25 DEF BuildPreviews, widgets, Race
  <2>2. t \in Threads /\ Moves(t) /\ P(t)' \notin {9, 30}
    BY <1>25, BuildPreviewsMoves, ThreadsAre
  <2>3. QED
    BY <2>1, <2>2, StatusPasses
<1> QED
  BY NextIs, <1>1, <1>2, <1>3, <1>4, <1>5, <1>6, <1>7, <1>8, <1>9, <1>10, <1>11, <1>12,
     <1>13, <1>14, <1>15, <1>16, <1>17, <1>18, <1>19, <1>20, <1>21, <1>22, <1>23, <1>24,
     <1>25

-----------------------------------------------------------------------------
(* The statuses that were stored.                                          *)

LEMMA LiveStays ==
  ASSUME LiveFit, UNCHANGED <<form, targetStatus>>, raced \subseteq raced'
  PROVE  LiveFit'
  BY DEF LiveFit

LEMMA LiveNext ==
  ASSUME Typed, ButtonsFit, StaleFit, StatusFit, OffFit, LiveFit, [Next]_vars
  PROVE  LiveFit'
<1>1. ASSUME NEW t \in Handlers, Idle(t) /\ StartPublisher(t)
      PROVE  LiveFit'
  <2>1. UNCHANGED <<form, targetStatus>> /\ raced \subseteq raced'
    BY <1>1 DEF StartPublisher, widgets, table, Race
  <2>2. QED
    BY <2>1, LiveStays
<1>2. ASSUME Idle("ready") /\ Goto("ready", <<>>)
             /\ UNCHANGED <<widgets, table, polling, running, publisher, life, raced>>
      PROVE  LiveFit'
  <2>1. UNCHANGED <<form, targetStatus>> /\ raced \subseteq raced'
    BY <1>2 DEF widgets, table, Race
  <2>2. QED
    BY <2>1, LiveStays
<1>3. ASSUME NEW t \in Handlers, ReadConfig(t)
      PROVE  LiveFit'
  <2>1. UNCHANGED <<form, targetStatus>> /\ raced \subseteq raced'
    BY <1>3 DEF ReadConfig, widgets, table, Race
  <2>2. QED
    BY <2>1, LiveStays
<1>4. ASSUME NEW t \in Handlers, MarkAll(t)
      PROVE  LiveFit'
  <2>1. UNCHANGED form /\ raced \subseteq raced'
    BY <1>4 DEF MarkAll, widgets, Race
  <2>2. \/ P(t) = 2 /\ targetStatus' = SetAll("Starting")
        \/ targetStatus' = SetAll("Stopped")
    BY <1>4, MarkAllMoves, ThreadsAre
  <2>3. ASSUME raced' = {}
        PROVE  Live(targetStatus') \subseteq NamesOf(form)
    <3>1. Live(targetStatus) \subseteq NamesOf(form)
      BY <2>1, <2>3 DEF LiveFit
    <3>2. P(t) = 2 => DOMAIN previews = NamesOf(form)
      BY <2>1, <2>3, ThreadsAre DEF StaleFit, Stale
    <3>3. QED
      BY <2>2, <3>1, <3>2, SetAllLive
  <2>4. QED
    BY <2>1, <2>3 DEF LiveFit
<1>5. ASSUME NEW t \in Handlers, StartWorker(t)
      PROVE  LiveFit'
  <2>1. UNCHANGED <<form, targetStatus>> /\ raced \subseteq raced'
    BY <1>5 DEF StartWorker, widgets, table, Race
  <2>2. QED
    BY <2>1, LiveStays
<1>6. ASSUME NEW t \in Handlers, SetRunning(t)
      PROVE  LiveFit'
  <2>1. UNCHANGED <<form, targetStatus>> /\ raced \subseteq raced'
    BY <1>6 DEF SetRunning, widgets, table, Race
  <2>2. QED
    BY <2>1, LiveStays
<1>7. ASSUME NEW t \in Handlers, SetButtons(t)
      PROVE  LiveFit'
  <2>1. UNCHANGED <<form, targetStatus>> /\ raced \subseteq raced'
    BY <1>7 DEF SetButtons, widgets, table, Race
  <2>2. QED
    BY <2>1, LiveStays
<1>8. ASSUME NEW t \in Handlers, ReadStatus(t)
      PROVE  LiveFit'
  <2>1. UNCHANGED <<form, targetStatus>> /\ raced \subseteq raced'
    BY <1>8 DEF ReadStatus, widgets, table, Race
  <2>2. QED
    BY <2>1, LiveStays
<1>9. ASSUME NEW t \in Handlers, StopPolling(t)
      PROVE  LiveFit'
  <2>1. UNCHANGED <<form, targetStatus>> /\ raced \subseteq raced'
    BY <1>9 DEF StopPolling, widgets, table, Race
  <2>2. QED
    BY <2>1, LiveStays
<1>10. ASSUME NEW t \in Handlers, StartPolling(t)
      PROVE  LiveFit'
  <2>1. UNCHANGED <<form, targetStatus>> /\ raced \subseteq raced'
    BY <1>10 DEF StartPolling, widgets, table, Race
  <2>2. QED
    BY <2>1, LiveStays
<1>11. ASSUME NEW t \in Threads, SetTargetStatus(t)
      PROVE  LiveFit'
  <2>1. UNCHANGED <<form, raced>> /\ targetStatus' = thread[t].status
    BY <1>11 DEF SetTargetStatus, widgets
  <2>2. P(t) \in {9, 30}
    BY <1>11, SetTargetStatusMoves
  <2>3. QED
    BY <2>1, <2>2 DEF StatusFit, LiveFit
<1>12. ASSUME NEW t \in Threads, ApplyStatus(t)
      PROVE  LiveFit'
  <2>1. UNCHANGED <<form, targetStatus>> /\ raced \subseteq raced'
    BY <1>12 DEF ApplyStatus, widgets, table, Race
  <2>2. QED
    BY <2>1, LiveStays
<1>13. ASSUME NEW t \in Threads, DrawRows(t)
      PROVE  LiveFit'
  <2>1. UNCHANGED <<form, targetStatus>> /\ raced \subseteq raced'
    BY <1>13 DEF DrawRows, Panics, widgets, table, Race
  <2>2. QED
    BY <2>1, LiveStays
<1>14. ASSUME NEW p \in Polls, PollTicks(p)
      PROVE  LiveFit'
  <2>1. UNCHANGED <<form, targetStatus>> /\ raced \subseteq raced'
    BY <1>14 DEF PollTicks, widgets, table, Race
  <2>2. QED
    BY <2>1, LiveStays
<1>15. ASSUME NEW p \in Polls, PollEnds(p)
      PROVE  LiveFit'
  <2>1. UNCHANGED <<form, targetStatus>> /\ raced \subseteq raced'
    BY <1>15 DEF PollEnds, widgets, table, Race
  <2>2. QED
    BY <2>1, LiveStays
<1>16. ASSUME ChangeForm
      PROVE  LiveFit'
  <2>1. ASSUME raced' = {} PROVE Live(targetStatus') = {}
    <3>1. /\ raced = {} /\ ~running /\ P("window") = 0 /\ P("ready") = 0
          /\ targetStatus' = targetStatus
      BY <1>16, <2>1, ChangeAtRest, ThreadsAre DEF table
    <3>2. QED
      BY <3>1 DEF OffFit, IsOff, AtOff
  <2>2. QED
    BY <2>1 DEF LiveFit
<1>17. ASSUME PressStop
      PROVE  LiveFit'
  <2>1. UNCHANGED <<form, targetStatus>> /\ raced \subseteq raced'
    BY <1>17 DEF PressStop, widgets, table, Race
  <2>2. QED
    BY <2>1, LiveStays
<1>18. ASSUME StopWorker
      PROVE  LiveFit'
  <2>1. UNCHANGED <<form, targetStatus>> /\ raced \subseteq raced'
    BY <1>18 DEF StopWorker, widgets, table, Race
  <2>2. QED
    BY <2>1, LiveStays
<1>19. ASSUME ClearRunning
      PROVE  LiveFit'
  <2>1. UNCHANGED <<form, targetStatus>> /\ raced \subseteq raced'
    BY <1>19 DEF ClearRunning, widgets, table, Race
  <2>2. QED
    BY <2>1, LiveStays
<1>20. ASSUME PressClose
      PROVE  LiveFit'
  <2>1. UNCHANGED <<form, targetStatus>> /\ raced \subseteq raced'
    BY <1>20 DEF PressClose, widgets, table, Race
  <2>2. QED
    BY <2>1, LiveStays
<1>21. ASSUME AnswerClose
      PROVE  LiveFit'
  <2>1. UNCHANGED <<form, targetStatus>> /\ raced \subseteq raced'
    BY <1>21 DEF AnswerClose, widgets, table, Race
  <2>2. QED
    BY <2>1, LiveStays
<1>22. ASSUME CloseWindow
      PROVE  LiveFit'
  <2>1. UNCHANGED <<form, targetStatus>> /\ raced \subseteq raced'
    BY <1>22 DEF CloseWindow, widgets, table, Race
  <2>2. QED
    BY <2>1, LiveStays
<1>23. ASSUME WorkerMoves
      PROVE  LiveFit'
  <2>1. UNCHANGED <<form, targetStatus>> /\ raced \subseteq raced'
    BY <1>23 DEF WorkerMoves, widgets, table, Race
  <2>2. QED
    BY <2>1, LiveStays
<1>24. ASSUME UNCHANGED vars
      PROVE  LiveFit'
  <2>1. UNCHANGED <<form, targetStatus>> /\ raced \subseteq raced'
    BY <1>24 DEF vars, widgets, table, Race
  <2>2. QED
    BY <2>1, LiveStays
<1>25. ASSUME NEW t \in Threads, BuildPreviews(t)
      PROVE  LiveFit'
  <2>1. UNCHANGED <<form, targetStatus>> /\ raced \subseteq raced'
    BY <1>25 DEF BuildPreviews, widgets, table, Race
  <2>2. QED
    BY <2>1, LiveStays
<1> QED
  BY NextIs, <1>1, <1>2, <1>3, <1>4, <1>5, <1>6, <1>7, <1>8, <1>9, <1>10, <1>11, <1>12,
     <1>13, <1>14, <1>15, <1>16, <1>17, <1>18, <1>19, <1>20, <1>21, <1>22, <1>23, <1>24,
     <1>25

-----------------------------------------------------------------------------
(* The targets of a publisher that publishes.                              *)

LEMMA TargetsStay ==
  ASSUME TargetsFit, UNCHANGED form, publisher'.targets = publisher.targets,
         raced \subseteq raced', Published' => Published
  PROVE  TargetsFit'
  BY DEF TargetsFit

LEMMA HandlerTargets ==
  ASSUME TargetsFit, UNCHANGED <<form, publisher>>, raced \subseteq raced',
         NEW t \in Handlers, Moves(t), P(t)' \in 2..5 => P(t) \in 2..5
  PROVE  TargetsFit'
<1>1. \A u \in Handlers : P(u)' \in 2..5 => P(u) \in 2..5
  BY ThreadsAre DEF Moves
<1>2. Published' => Published
  BY <1>1, ThreadsAre DEF Published
<1>3. QED
  BY <1>2, TargetsStay

LEMMA HandlersStayTargets ==
  ASSUME TargetsFit, UNCHANGED <<form, publisher>>, raced \subseteq raced', HandlersStay
  PROVE  TargetsFit'
<1>1. Published' => Published
  BY DEF Published, HandlersStay
<1>2. QED
  BY <1>1, TargetsStay

LEMMA TargetsNext ==
  ASSUME Typed, ButtonsFit, TargetsFit, [Next]_vars
  PROVE  TargetsFit'
<1>1. ASSUME NEW t \in Handlers, Idle(t) /\ StartPublisher(t)
      PROVE  TargetsFit'
  <2>1. UNCHANGED <<form, publisher>> /\ raced \subseteq raced'
    BY <1>1 DEF StartPublisher, widgets, Race
  <2>2. t \in Handlers /\ Moves(t) /\ (P(t)' \in 2..5 => P(t) \in 2..5)
    BY <1>1, StartMoves, ThreadsAre
  <2>3. QED
    BY <2>1, <2>2, HandlerTargets
<1>2. ASSUME Idle("ready") /\ Goto("ready", <<>>)
             /\ UNCHANGED <<widgets, table, polling, running, publisher, life, raced>>
      PROVE  TargetsFit'
  <2>1. UNCHANGED <<form, publisher>> /\ raced \subseteq raced'
    BY <1>2 DEF widgets, Race
  <2>2. "ready" \in Handlers /\ Moves("ready") /\ (P("ready")' \in 2..5 => P("ready") \in 2..5)
    BY <1>2, ReadyGivesUp, ThreadsAre
  <2>3. QED
    BY <2>1, <2>2, HandlerTargets
<1>3. ASSUME NEW t \in Handlers, ReadConfig(t)
      PROVE  TargetsFit'
  <2>1. UNCHANGED <<form, raced>>
    BY <1>3 DEF ReadConfig, widgets
  <2>2. CASE publisher' = [publisher EXCEPT !.targets = NamesOf(form)]
    <3>1. publisher'.targets = NamesOf(form)
      BY <2>2 DEF Typed
    <3>2. QED
      BY <2>1, <3>1 DEF TargetsFit
  <2>3. CASE Moves(t) /\ P(t)' = 40 /\ UNCHANGED publisher
    BY <2>1, <2>3, HandlerTargets
  <2>4. QED
    BY <1>3, <2>2, <2>3, ReadConfigMoves, ThreadsAre
<1>4. ASSUME NEW t \in Handlers, MarkAll(t)
      PROVE  TargetsFit'
  <2>1. UNCHANGED <<form, publisher>> /\ raced \subseteq raced'
    BY <1>4 DEF MarkAll, widgets, Race
  <2>2. t \in Handlers /\ Moves(t) /\ (P(t)' \in 2..5 => P(t) \in 2..5)
    BY <1>4, MarkAllMoves, ThreadsAre
  <2>3. QED
    BY <2>1, <2>2, HandlerTargets
<1>5. ASSUME NEW t \in Handlers, StartWorker(t)
      PROVE  TargetsFit'
  <2>1. UNCHANGED <<form, raced>> /\ publisher'.targets = publisher.targets
    BY <1>5 DEF StartWorker, widgets, Typed
  <2>2. Published
    BY <1>5, StartWorkerMoves, ThreadsAre DEF Published, Handlers
  <2>3. QED
    BY <2>1, <2>2, TargetsStay
<1>6. ASSUME NEW t \in Handlers, SetRunning(t)
      PROVE  TargetsFit'
  <2>1. UNCHANGED <<form, publisher>> /\ raced \subseteq raced'
    BY <1>6 DEF SetRunning, widgets, Race
  <2>2. t \in Handlers /\ Moves(t) /\ (P(t)' \in 2..5 => P(t) \in 2..5)
    BY <1>6, SetRunningMoves, ThreadsAre
  <2>3. QED
    BY <2>1, <2>2, HandlerTargets
<1>7. ASSUME NEW t \in Handlers, SetButtons(t)
      PROVE  TargetsFit'
  <2>1. UNCHANGED <<form, publisher>> /\ raced \subseteq raced'
    BY <1>7 DEF SetButtons, widgets, Race
  <2>2. t \in Handlers /\ Moves(t) /\ (P(t)' \in 2..5 => P(t) \in 2..5)
    BY <1>7, SetButtonsMoves, ThreadsAre
  <2>3. QED
    BY <2>1, <2>2, HandlerTargets
<1>8. ASSUME NEW t \in Handlers, ReadStatus(t)
      PROVE  TargetsFit'
  <2>1. UNCHANGED <<form, publisher>> /\ raced \subseteq raced'
    BY <1>8 DEF ReadStatus, widgets, Race
  <2>2. t \in Handlers /\ Moves(t) /\ (P(t)' \in 2..5 => P(t) \in 2..5)
    BY <1>8, ReadStatusMoves, ThreadsAre
  <2>3. QED
    BY <2>1, <2>2, HandlerTargets
<1>9. ASSUME NEW t \in Handlers, StopPolling(t)
      PROVE  TargetsFit'
  <2>1. UNCHANGED <<form, publisher>> /\ raced \subseteq raced'
    BY <1>9 DEF StopPolling, widgets, Race
  <2>2. t \in Handlers /\ Moves(t) /\ (P(t)' \in 2..5 => P(t) \in 2..5)
    BY <1>9, StopPollingMoves, ThreadsAre
  <2>3. QED
    BY <2>1, <2>2, HandlerTargets
<1>10. ASSUME NEW t \in Handlers, StartPolling(t)
      PROVE  TargetsFit'
  <2>1. UNCHANGED <<form, publisher, raced>>
    BY <1>10 DEF StartPolling, widgets
  <2>2. \A u \in Handlers : P(u)' \in 2..5 => P(u) \in 2..5
    BY <1>10, StartPollingMoves, ThreadsAre
  <2>3. Published' => Published
    BY <2>1, <2>2, ThreadsAre DEF Published
  <2>4. QED
    BY <2>1, <2>3, TargetsStay
<1>11. ASSUME NEW t \in Threads, SetTargetStatus(t)
      PROVE  TargetsFit'
  <2>1. UNCHANGED <<form, publisher, raced>>
    BY <1>11 DEF SetTargetStatus, widgets
  <2>2. Moves(t) /\ (P(t)' \in 2..5 => P(t) \in 2..5)
    BY <1>11, SetTargetStatusMoves
  <2>3. CASE t \in Handlers
    BY <2>1, <2>2, <2>3, HandlerTargets
  <2>4. CASE t \in Polls
    BY <2>1, <2>2, <2>4, PollMoveStays, HandlersStayTargets
  <2>5. QED
    BY <2>3, <2>4 DEF Threads, Handlers
<1>12. ASSUME NEW t \in Threads, ApplyStatus(t)
      PROVE  TargetsFit'
  <2>1. UNCHANGED <<form, publisher, raced>>
    BY <1>12 DEF ApplyStatus, widgets
  <2>2. Moves(t) /\ (P(t)' \in 2..5 => P(t) \in 2..5)
    BY <1>12, ApplyStatusMoves
  <2>3. CASE t \in Handlers
    BY <2>1, <2>2, <2>3, HandlerTargets
  <2>4. CASE t \in Polls
    BY <2>1, <2>2, <2>4, PollMoveStays, HandlersStayTargets
  <2>5. QED
    BY <2>3, <2>4 DEF Threads, Handlers
<1>13. ASSUME NEW t \in Threads, DrawRows(t)
      PROVE  TargetsFit'
  <2>1. UNCHANGED <<form, publisher>> /\ raced \subseteq raced'
    BY <1>13 DEF DrawRows, Panics, widgets, Race
  <2>2. CASE UNCHANGED thread
    <3>1. HandlersStay
      BY <2>2 DEF HandlersStay, P
    <3>2. QED
      BY <2>1, <3>1, HandlersStayTargets
  <2>3. CASE Moves(t) /\ (P(t)' \in 2..5 => P(t) \in 2..5)
    <3>1. CASE t \in Handlers
      BY <2>1, <2>3, <3>1, HandlerTargets
    <3>2. CASE t \in Polls
      BY <2>1, <2>3, <3>2, PollMoveStays, HandlersStayTargets
    <3>3. QED
      BY <3>1, <3>2 DEF Threads, Handlers
  <2>4. \/ Moves(t) /\ P(t) = 4 /\ P(t)' = 5
        \/ Moves(t) /\ P(t)' \in {0, 12, 20}
        \/ UNCHANGED thread
    BY <1>13, DrawRowsMoves
  <2>5. QED
    BY <2>2, <2>3, <2>4
<1>14. ASSUME NEW p \in Polls, PollTicks(p)
      PROVE  TargetsFit'
  <2>1. UNCHANGED <<form, publisher, raced>>
    BY <1>14 DEF PollTicks, widgets
  <2>2. HandlersStay
    BY <1>14, PollTicksMoves, PollMoveStays
  <2>3. QED
    BY <2>1, <2>2, HandlersStayTargets
<1>15. ASSUME NEW p \in Polls, PollEnds(p)
      PROVE  TargetsFit'
  <2>1. UNCHANGED <<form, publisher, raced>>
    BY <1>15 DEF PollEnds, widgets
  <2>2. HandlersStay
    BY <1>15, PollEndsMoves, PollMoveStays
  <2>3. QED
    BY <2>1, <2>2, HandlersStayTargets
<1>16. ASSUME ChangeForm
      PROVE  TargetsFit'
  <2>1. ASSUME raced' = {} PROVE ~Published'
    BY <1>16, <2>1, ChangeAtRest, ThreadsAre DEF Published, Active
  <2>2. QED
    BY <2>1 DEF TargetsFit
<1>17. ASSUME PressStop
      PROVE  TargetsFit'
  <2>1. UNCHANGED <<form, publisher>> /\ raced \subseteq raced'
    BY <1>17 DEF PressStop, widgets, Race
  <2>2. "window" \in Handlers /\ Moves("window") /\ (P("window")' \in 2..5 => P("window") \in 2..5)
    BY <1>17, PressStopMoves, ThreadsAre
  <2>3. QED
    BY <2>1, <2>2, HandlerTargets
<1>18. ASSUME StopWorker
      PROVE  TargetsFit'
  <2>1. UNCHANGED form /\ publisher'.targets = publisher.targets /\ raced \subseteq raced'
    BY <1>18 DEF StopWorker, widgets, Race, Typed
  <2>2. CASE UNCHANGED <<publisher, thread>>
    <3>1. HandlersStay
      BY <2>2 DEF HandlersStay, P
    <3>2. QED
      BY <2>1, <2>2, <3>1, HandlersStayTargets
  <2>3. CASE /\ Moves("window") /\ P("window")' \in {22, 52}
             /\ publisher'.worker \in {"Stopped", "Ending"}
    <3>1. Published' => Published
      BY <2>3, ThreadsAre DEF Published, Moves, Active
    <3>2. QED
      BY <2>1, <3>1, TargetsStay
  <2>4. ASSUME NEW w \in {"Stopped", "Ending"}, publisher' = [publisher EXCEPT !.worker = w]
        PROVE  publisher'.worker \in {"Stopped", "Ending"}
    BY <2>4 DEF Typed
  <2>5. QED
    BY <1>18, <2>2, <2>3, <2>4, StopWorkerMoves
<1>19. ASSUME ClearRunning
      PROVE  TargetsFit'
  <2>1. UNCHANGED <<form, publisher>> /\ raced \subseteq raced'
    BY <1>19 DEF ClearRunning, widgets, Race
  <2>2. "window" \in Handlers /\ Moves("window") /\ (P("window")' \in 2..5 => P("window") \in 2..5)
    BY <1>19, ClearRunningMoves, ThreadsAre
  <2>3. QED
    BY <2>1, <2>2, HandlerTargets
<1>20. ASSUME PressClose
      PROVE  TargetsFit'
  <2>1. UNCHANGED <<form, publisher>> /\ raced \subseteq raced'
    BY <1>20 DEF PressClose, widgets, Race
  <2>2. "window" \in Handlers /\ Moves("window") /\ (P("window")' \in 2..5 => P("window") \in 2..5)
    BY <1>20, PressCloseMoves, ThreadsAre
  <2>3. QED
    BY <2>1, <2>2, HandlerTargets
<1>21. ASSUME AnswerClose
      PROVE  TargetsFit'
  <2>1. UNCHANGED <<form, publisher>> /\ raced \subseteq raced'
    BY <1>21 DEF AnswerClose, widgets, Race
  <2>2. "window" \in Handlers /\ Moves("window") /\ (P("window")' \in 2..5 => P("window") \in 2..5)
    BY <1>21, AnswerCloseMoves, ThreadsAre
  <2>3. QED
    BY <2>1, <2>2, HandlerTargets
<1>22. ASSUME CloseWindow
      PROVE  TargetsFit'
  <2>1. UNCHANGED <<form, publisher, raced>> /\ HandlersStay
    BY <1>22 DEF CloseWindow, widgets, HandlersStay, P
  <2>2. QED
    BY <2>1, HandlersStayTargets
<1>23. ASSUME WorkerMoves
      PROVE  TargetsFit'
  <2>1. UNCHANGED <<form, raced, thread>> /\ publisher'.targets = publisher.targets
    BY <1>23 DEF WorkerMoves, widgets, Typed
  <2>2. \/ publisher.worker = "Starting" /\ publisher'.worker = "Running"
        \/ publisher.worker = "Ending" /\ publisher'.worker = "Stopped"
    BY <1>23 DEF WorkerMoves, Typed
  <2>3. Published' => Published
    BY <2>1, <2>2 DEF Published, Active, P
  <2>4. QED
    BY <2>1, <2>3, TargetsStay
<1>24. ASSUME UNCHANGED vars
      PROVE  TargetsFit'
  <2>1. UNCHANGED <<form, publisher, raced>> /\ HandlersStay
    BY <1>24 DEF vars, widgets, HandlersStay, P
  <2>2. QED
    BY <2>1, HandlersStayTargets
<1>25. ASSUME NEW t \in Threads, BuildPreviews(t)
      PROVE  TargetsFit'
  <2>1. UNCHANGED <<form, publisher, raced>>
    BY <1>25 DEF BuildPreviews, widgets
  <2>2. HandlersStay
    BY <1>25, BuildStays, ThreadsAre DEF HandlersStay
  <2>3. QED
    BY <2>1, <2>2, HandlersStayTargets
<1> QED
  BY NextIs, <1>1, <1>2, <1>3, <1>4, <1>5, <1>6, <1>7, <1>8, <1>9, <1>10, <1>11, <1>12,
     <1>13, <1>14, <1>15, <1>16, <1>17, <1>18, <1>19, <1>20, <1>21, <1>22, <1>23, <1>24,
     <1>25

-----------------------------------------------------------------------------
(* A publisher that is off.                                                *)

ToBeOff == {1, 2, 40, 52, 53}

LEMMA OffGone ==
  ASSUME raced' = {} => ~IsOff'
  PROVE  OffFit'
  BY DEF OffFit

LEMMA OffRunning ==
  ASSUME running' = TRUE
  PROVE  OffFit'
  BY DEF OffFit, IsOff

LEMMA OffStays ==
  ASSUME OffFit, UNCHANGED table, raced \subseteq raced', raced' = {} /\ IsOff' => IsOff,
         P("window") = 26 => P("window")' = 26, \A p \in Polls : P(p)' = P(p)
  PROVE  OffFit'
<1>1. UNCHANGED <<targetStatus, previews>>
  BY DEF table
<1>2. QED
  BY <1>1 DEF OffFit

\* A handler that is elsewhere is at work, and the other one is not.
LEMMA AtWork ==
  ASSUME ButtonsFit, "handler" \notin raced, NEW t \in Handlers, P(t) \notin {0, 26, 27} \cup ToBeOff
  PROVE  ~AtOff
<1>1. P("ready") = 0 \/ P("window") \in {0, 26, 27}
  BY DEF ButtonsFit, OneHandler, Resting
<1>2. QED
  BY <1>1 DEF AtOff, ToBeOff, Handlers

LEMMA OffLeft ==
  ASSUME ButtonsFit', NEW t \in Handlers, P(t)' \notin {0, 26, 27} \cup ToBeOff
  PROVE  OffFit'
<1>1. raced' = {} => ~AtOff'
  <2>1. ASSUME raced' = {} PROVE ~AtOff'
    <3>1. P("ready")' = 0 \/ P("window")' \in {0, 26, 27}
      BY <2>1 DEF ButtonsFit, OneHandler, Resting
    <3>2. QED
      BY <3>1 DEF AtOff, ToBeOff, Handlers
  <2>2. QED
    BY <2>1
<1>2. QED
  BY <1>1, OffGone DEF IsOff

LEMMA OffPasses ==
  ASSUME OffFit, UNCHANGED <<table, running>>, raced \subseteq raced', NEW t \in Handlers, Moves(t),
         P(t) \in ToBeOff
  PROVE  OffFit'
<1>1. IsOff' => IsOff
  BY DEF IsOff, AtOff, ToBeOff
<1>2. P("window") = 26 => P("window")' = 26
  BY ThreadsAre DEF Moves, ToBeOff
<1>3. \A p \in Polls : P(p)' = P(p)
  BY ThreadsAre DEF Moves
<1>4. QED
  BY <1>1, <1>2, <1>3, OffStays

LEMMA OffUnmoved ==
  ASSUME OffFit, UNCHANGED <<table, running>>, raced \subseteq raced', \A t \in Threads : P(t)' = P(t)
  PROVE  OffFit'
<1>1. IsOff' => IsOff
  BY ThreadsAre DEF IsOff, AtOff
<1>2. QED
  BY <1>1, OffStays, ThreadsAre

\* A handler begins while nothing is published.
LEMMA OffBegins ==
  ASSUME OffFit, ~running, UNCHANGED <<table, running>>, raced' = {} => raced = {},
         raced' = {} => P("window") = 0 /\ P("ready") = 0, NEW t \in Handlers, Moves(t)
  PROVE  OffFit'
<1>1. ASSUME raced' = {}
      PROVE  /\ Live(targetStatus) = {} /\ Live(previews) = {}
             /\ \A p \in Polls : P(p)' = 0
  <2>1. IsOff /\ raced = {} /\ P("window") # 26
    BY <1>1 DEF IsOff, AtOff
  <2>2. \A p \in Polls : P(p)' = P(p)
    BY ThreadsAre DEF Moves
  <2>3. QED
    BY <2>1, <2>2 DEF OffFit
<1>2. UNCHANGED <<targetStatus, previews>>
  BY DEF table
<1>3. QED
  BY <1>1, <1>2 DEF OffFit

LEMMA OffNext ==
  ASSUME Typed, ButtonsFit, ButtonsFit', StaleFit, LiveFit, OffFit, [Next]_vars
  PROVE  OffFit'
<1>1. ASSUME NEW t \in Handlers, Idle(t) /\ StartPublisher(t)
      PROVE  OffFit'
  <2>1. UNCHANGED <<table, running>> /\ raced' = raced \cup OtherStart(t)
    BY <1>1 DEF StartPublisher, table, Race
  <2>2. Moves(t) /\ P(t) = 0 /\ t \in Handlers
    BY <1>1, StartMoves, ThreadsAre
  <2>3. CASE running
    BY <2>1, <2>3, OffGone DEF IsOff
  <2>4. CASE ~running
    <3>1. raced' = {} => P("window") = 0 /\ P("ready") = 0
      BY <2>1, <2>2, OtherStartIs, ThreadsAre
    <3>2. QED
      BY <2>1, <2>2, <2>4, <3>1, OffBegins
  <2>5. QED
    BY <2>3, <2>4
<1>2. ASSUME Idle("ready") /\ Goto("ready", <<>>)
             /\ UNCHANGED <<widgets, table, polling, running, publisher, life, raced>>
      PROVE  OffFit'
  <2>1. UNCHANGED <<table, running>> /\ raced \subseteq raced'
    BY <1>2 DEF table
  <2>2. \A t \in Threads : P(t)' = P(t)
    BY <1>2, ReadyGivesUp DEF Moves
  <2>3. QED
    BY <2>1, <2>2, OffUnmoved
<1>3. ASSUME NEW t \in Handlers, ReadConfig(t)
      PROVE  OffFit'
  <2>1. UNCHANGED <<table, running>> /\ raced \subseteq raced'
    BY <1>3 DEF ReadConfig, table, Race
  <2>2. /\ t \in Handlers /\ Moves(t)
        /\ P(t) \in {1}
    BY <1>3, ReadConfigMoves, ThreadsAre
  <2>3. CASE P(t) \in {1}
    BY <2>1, <2>2, <2>3, OffPasses DEF ToBeOff
  <2>4. QED
    BY <2>2, <2>3
<1>4. ASSUME NEW t \in Handlers, MarkAll(t)
      PROVE  OffFit'
  <2>1. UNCHANGED <<previews, running>> /\ raced' = raced \cup OtherRefresh(t)
    BY <1>4 DEF MarkAll, Race
  <2>2. /\ Moves(t)
        /\ \/ P(t)' = 3
           \/ P(t) = 25 /\ P(t)' = 26 /\ targetStatus' = SetAll("Stopped")
    BY <1>4, MarkAllMoves, ThreadsAre
  <2>3. CASE P(t)' = 3
    BY <2>3, OffLeft DEF ToBeOff
  <2>4. ASSUME P(t) = 25, P(t)' = 26, targetStatus' = SetAll("Stopped"), raced' = {}
        PROVE  Live(targetStatus') = {} /\ P("window")' = 26 /\ \A p \in Polls : P(p)' = 0
    <3>1. raced = {} /\ "table" \notin OtherRefresh(t)
      BY <2>1, <2>4
    <3>2. t = "window"
      BY <2>4, <3>1 DEF ButtonsFit, OneHandler, Handlers
    <3>3. DOMAIN previews = NamesOf(form)
      BY <2>4, <3>1, <3>2 DEF StaleFit, Stale
    <3>4. \A p \in Polls : P(p) = 0
      BY <3>1, <3>2, NoOtherRefresh, PlacesAre, TypedFits, ThreadsAre, UIAssumption
         DEF PollPlaces, RefreshPlacesOnly
    <3>5. Live(targetStatus') = {}
      BY <2>4, <3>1, <3>3, SetAllLive DEF LiveFit
    <3>6. QED
      BY <2>2, <2>4, <3>2, <3>4, <3>5, ThreadsAre DEF Moves
  <2>5. QED
    BY <2>2, <2>3, <2>4 DEF OffFit
<1>5. ASSUME NEW t \in Handlers, StartWorker(t)
      PROVE  OffFit'
  <2>1. UNCHANGED <<table, running>> /\ raced \subseteq raced'
    BY <1>5 DEF StartWorker, table, Race
  <2>2. /\ t \in Handlers /\ Moves(t)
        /\ P(t)' \in {6}
    BY <1>5, StartWorkerMoves, ThreadsAre
  <2>3. CASE P(t)' \in {6}
    BY <2>2, <2>3, OffLeft DEF ToBeOff
  <2>4. QED
    BY <2>2, <2>3
<1>6. ASSUME NEW t \in Handlers, SetRunning(t)
      PROVE  OffFit'
  <2>1. running' = TRUE
    BY <1>6 DEF SetRunning
  <2>2. QED
    BY <2>1, OffRunning
<1>7. ASSUME NEW t \in Handlers, SetButtons(t)
      PROVE  OffFit'
  <2>1. UNCHANGED <<table, running>> /\ raced \subseteq raced'
    BY <1>7 DEF SetButtons, table, Race
  <2>2. /\ t \in Handlers /\ Moves(t)
        /\ P(t)' \in {8, 25, 24} \/ P(t) \in {40}
    BY <1>7, SetButtonsMoves, ThreadsAre
  <2>3. CASE P(t)' \in {8, 25, 24}
    BY <2>2, <2>3, OffLeft DEF ToBeOff
  <2>4. CASE P(t) \in {40}
    BY <2>1, <2>2, <2>4, OffPasses DEF ToBeOff
  <2>5. QED
    BY <2>2, <2>3, <2>4
<1>8. ASSUME NEW t \in Handlers, ReadStatus(t)
      PROVE  OffFit'
  <2>1. UNCHANGED <<table, running>> /\ raced \subseteq raced'
    BY <1>8 DEF ReadStatus, table, Race
  <2>2. /\ t \in Handlers /\ Moves(t)
        /\ P(t)' \in {9}
    BY <1>8, ReadStatusMoves, ThreadsAre
  <2>3. CASE P(t)' \in {9}
    BY <2>2, <2>3, OffLeft DEF ToBeOff
  <2>4. QED
    BY <2>2, <2>3
<1>9. ASSUME NEW t \in Handlers, StopPolling(t)
      PROVE  OffFit'
  <2>1. UNCHANGED <<table, running>> /\ raced \subseteq raced'
    BY <1>9 DEF StopPolling, table, Race
  <2>2. /\ t \in Handlers /\ Moves(t)
        /\ P(t)' \in {13, 25} \/ P(t) \in {52}
    BY <1>9, StopPollingMoves, ThreadsAre
  <2>3. CASE P(t)' \in {13, 25}
    BY <2>2, <2>3, OffLeft DEF ToBeOff
  <2>4. CASE P(t) \in {52}
    BY <2>1, <2>2, <2>4, OffPasses DEF ToBeOff
  <2>5. QED
    BY <2>2, <2>3, <2>4
<1>10. ASSUME NEW t \in Handlers, StartPolling(t)
      PROVE  OffFit'
  <2>1. UNCHANGED <<table, running, raced>>
    BY <1>10 DEF StartPolling, table
  <2>2. P(t) = 13
    BY <1>10, StartPollingMoves
  <2>3. raced' = {} => running
    BY <2>1, <2>2 DEF ButtonsFit, OneHandler, Phase, Handlers
  <2>4. QED
    BY <2>1, <2>3, OffGone DEF IsOff
<1>11. ASSUME NEW t \in Threads, SetTargetStatus(t)
      PROVE  OffFit'
  <2>1. UNCHANGED <<raced, running>>
    BY <1>11 DEF SetTargetStatus
  <2>2. /\ Moves(t)
        /\ \/ P(t) = 9 /\ P(t)' = 10
           \/ P(t) = 30 /\ P(t)' = 26
    BY <1>11, SetTargetStatusMoves
  <2>3. CASE t \in Polls
    <3>1. UNCHANGED <<raced, running>> /\ HandlersStay
      BY <2>1, <2>2, <2>3, PollMoveStays
    <3>2. raced' = {} => ~IsOff
      BY <2>2, <2>3, <3>1 DEF OffFit
    <3>3. IsOff' => IsOff
      BY <3>1, ThreadsAre DEF IsOff, AtOff, HandlersStay
    <3>4. QED
      BY <3>2, <3>3, OffGone
  <2>4. CASE t \in Handlers
    <3>1. P(t) = 9 /\ P(t)' = 10
      BY <2>2, <2>4, HandlerPlaces DEF Handlers, WindowPlaces, ReadyPlaces
    <3>2. QED
      BY <2>4, <3>1, OffLeft DEF ToBeOff
  <2>5. QED
    BY <2>3, <2>4 DEF Threads, Handlers
<1>12. ASSUME NEW t \in Threads, ApplyStatus(t)
      PROVE  OffFit'
  <2>1. UNCHANGED <<raced, running, targetStatus>> /\ Live(previews') \subseteq Live(targetStatus)
    BY <1>12, PreviewsLive DEF ApplyStatus
  <2>2. /\ Moves(t)
        /\ \/ P(t) \in {3, 10} /\ P(t)' \in {4, 11}
           \/ P(t) = 26 /\ P(t)' = 27
    BY <1>12, ApplyStatusMoves
  <2>3. CASE t \in Polls
    <3>1. UNCHANGED <<raced, running>> /\ HandlersStay
      BY <2>1, <2>2, <2>3, PollMoveStays
    <3>2. raced' = {} => ~IsOff
      BY <2>2, <2>3, <3>1 DEF OffFit
    <3>3. IsOff' => IsOff
      BY <3>1, ThreadsAre DEF IsOff, AtOff, HandlersStay
    <3>4. QED
      BY <3>2, <3>3, OffGone
  <2>4. CASE t \in Handlers /\ P(t)' \in {4, 11}
    BY <2>4, OffLeft DEF ToBeOff
  <2>5. ASSUME t \in Handlers, P(t) = 26, P(t)' = 27, raced' = {}, IsOff'
        PROVE  Live(targetStatus) = {} /\ \A p \in Polls : P(p)' = 0
    <3>1. t = "window"
      BY <2>1, <2>5 DEF ButtonsFit, OneHandler, Handlers
    <3>2. P("ready")' = P("ready")
      BY <2>2, <3>1, ThreadsAre DEF Moves
    <3>3. IsOff
      BY <2>1, <2>5, <3>1, <3>2, ThreadsAre DEF IsOff, AtOff
    <3>4. QED
      BY <2>1, <2>2, <2>5, <3>1, <3>3, ThreadsAre DEF OffFit, Moves
  <2>6. CASE t \in Handlers /\ P(t) = 26 /\ P(t)' = 27
    BY <2>1, <2>5, <2>6 DEF OffFit
  <2>7. QED
    BY <2>2, <2>3, <2>4, <2>6 DEF Threads, Handlers
<1>13. ASSUME NEW t \in Threads, DrawRows(t)
      PROVE  OffFit'
  <2>1. UNCHANGED table /\ raced \subseteq raced'
    BY <1>13 DEF DrawRows, Panics, table, Race
  <2>2. CASE UNCHANGED <<running, thread, raced>>
    <3>1. \A u \in Threads : P(u)' = P(u)
      BY <2>2 DEF P
    <3>2. QED
      BY <2>1, <2>2, <3>1, OffUnmoved
  <2>3. CASE Race({"handler"})
    BY <2>3, OffGone DEF Race
  <2>4. ASSUME Moves(t), UNCHANGED <<running, raced>>, P(t) \in {4, 11, 27},
               \/ P(t)' \in {5, 12}
               \/ P(t) = 27 /\ P(t)' = 0
        PROVE  OffFit'
    <3>1. CASE t \in Polls
      <4>1. HandlersStay
        BY <2>4, <3>1, PollMoveStays
      <4>2. raced' = {} => ~IsOff
        BY <2>4, <3>1 DEF OffFit
      <4>3. IsOff' => IsOff
        BY <2>4, <4>1, ThreadsAre DEF IsOff, AtOff, HandlersStay
      <4>4. QED
        BY <4>2, <4>3, OffGone
    <3>2. CASE t \in Handlers /\ P(t)' \in {5, 12}
      BY <3>2, OffLeft DEF ToBeOff
    <3>3. CASE t \in Handlers /\ P(t) = 27 /\ P(t)' = 0
      <4>1. ASSUME raced' = {}, IsOff' PROVE IsOff
        <5>1. t = "window"
          BY <2>4, <3>3, <4>1 DEF ButtonsFit, OneHandler, Handlers
        <5>2. P("ready")' = P("ready")
          BY <2>4, <5>1, ThreadsAre DEF Moves
        <5>3. QED
          BY <2>4, <3>3, <4>1, <5>1, <5>2, ThreadsAre DEF IsOff, AtOff
      <4>2. P("window") = 26 => P("window")' = 26
        BY <2>4, <3>3, ThreadsAre DEF Moves
      <4>3. \A p \in Polls : P(p)' = P(p)
        BY <2>4, <3>3, ThreadsAre DEF Moves
      <4>4. QED
        BY <2>1, <4>1, <4>2, <4>3, OffStays
    <3>4. QED
      BY <2>4, <3>1, <3>2, <3>3 DEF Threads, Handlers
  <2>5. QED
    BY <1>13, <2>2, <2>3, <2>4, DrawRowsMoves
<1>14. ASSUME NEW p \in Polls, PollTicks(p)
      PROVE  OffFit'
  <2>1. running' = running /\ running
    BY <1>14 DEF PollTicks
  <2>2. QED
    BY <2>1, OffGone DEF IsOff
<1>15. ASSUME NEW p \in Polls, PollEnds(p)
      PROVE  OffFit'
  <2>1. UNCHANGED <<table, running>> /\ raced \subseteq raced'
    BY <1>15 DEF PollEnds, table
  <2>2. \A t \in Threads : P(t)' = P(t)
    BY <1>15, PollEndsMoves DEF Moves
  <2>3. QED
    BY <2>1, <2>2, OffUnmoved
<1>16. ASSUME ChangeForm
      PROVE  OffFit'
  <2>1. ASSUME raced' = {}
        PROVE  Live(targetStatus') = {} /\ P("window")' = 26 /\ \A p \in Polls : P(p)' = 0
    <3>1. /\ raced = {} /\ ~running /\ P("window") = 0 /\ P("ready") = 0 /\ P("window")' = 26
          /\ targetStatus' = targetStatus /\ \A p \in Polls : P(p)' = 0
      BY <1>16, <2>1, ChangeAtRest, ThreadsAre DEF table, Handlers
    <3>2. Live(targetStatus) = {}
      BY <3>1 DEF OffFit, IsOff, AtOff
    <3>3. QED
      BY <3>1, <3>2
  <2>2. QED
    BY <2>1 DEF OffFit
<1>17. ASSUME PressStop
      PROVE  OffFit'
  <2>1. UNCHANGED <<table, running>> /\ raced' = raced \cup OtherStart("window")
    BY <1>17 DEF PressStop, table, Race
  <2>2. Moves("window") /\ P("window") = 0 /\ "window" \in Handlers
    BY <1>17, PressStopMoves, ThreadsAre
  <2>3. CASE running
    BY <2>1, <2>3, OffGone DEF IsOff
  <2>4. CASE ~running
    <3>1. raced' = {} => P("window") = 0 /\ P("ready") = 0
      BY <2>1, <2>2, OtherStartIs, ThreadsAre
    <3>2. QED
      BY <2>1, <2>2, <2>4, <3>1, OffBegins
  <2>5. QED
    BY <2>3, <2>4
<1>18. ASSUME StopWorker
      PROVE  OffFit'
  <2>1. UNCHANGED <<table, running>> /\ raced \subseteq raced'
    BY <1>18 DEF StopWorker, table, Race
  <2>2. CASE UNCHANGED thread
    <3>1. \A u \in Threads : P(u)' = P(u)
      BY <2>2 DEF P
    <3>2. QED
      BY <2>1, <3>1, OffUnmoved
  <2>3. CASE P("window") \in {21, 51}
    <3>1. raced' = {} => running
      BY <2>1, <2>3 DEF ButtonsFit, OneHandler, Phase
    <3>2. QED
      BY <2>1, <3>1, OffGone DEF IsOff
  <2>4. QED
    BY <1>18, <2>2, <2>3, StopWorkerMoves
<1>19. ASSUME ClearRunning
      PROVE  OffFit'
  <2>1. P("window")' = 23 /\ "window" \in Handlers
    BY <1>19, ClearRunningMoves, ThreadsAre
  <2>2. QED
    BY <2>1, OffLeft DEF ToBeOff
<1>20. ASSUME PressClose
      PROVE  OffFit'
  <2>1. UNCHANGED <<table, running>> /\ raced' = raced \cup OtherStart("window")
    BY <1>20 DEF PressClose, table, Race
  <2>2. Moves("window") /\ P("window") = 0 /\ "window" \in Handlers
    BY <1>20, PressCloseMoves, ThreadsAre
  <2>3. CASE running
    BY <2>1, <2>3, OffGone DEF IsOff
  <2>4. CASE ~running
    <3>1. raced' = {} => P("window") = 0 /\ P("ready") = 0
      BY <2>1, <2>2, OtherStartIs, ThreadsAre
    <3>2. QED
      BY <2>1, <2>2, <2>4, <3>1, OffBegins
  <2>5. QED
    BY <2>3, <2>4
<1>21. ASSUME AnswerClose
      PROVE  OffFit'
  <2>1. UNCHANGED <<table, running>> /\ raced \subseteq raced'
    BY <1>21 DEF AnswerClose, table, Race
  <2>2. /\ "window" \in Handlers /\ Moves("window")
        /\ P("window") \in {50}
    BY <1>21, AnswerCloseMoves, ThreadsAre
  <2>3. CASE P("window") \in {50}
    <3>1. raced' = {} => running
      BY <2>1, <2>2, <2>3 DEF ButtonsFit, OneHandler, Phase, Handlers
    <3>2. QED
      BY <2>1, <3>1, OffGone DEF IsOff
  <2>4. QED
    BY <2>2, <2>3
<1>22. ASSUME CloseWindow
      PROVE  OffFit'
  <2>1. UNCHANGED <<table, running>> /\ raced \subseteq raced' /\ UNCHANGED thread
    BY <1>22 DEF CloseWindow, table
  <2>2. \A t \in Threads : P(t)' = P(t)
    BY <2>1 DEF P
  <2>3. QED
    BY <2>1, <2>2, OffUnmoved
<1>23. ASSUME WorkerMoves
      PROVE  OffFit'
  <2>1. UNCHANGED <<table, running>> /\ raced \subseteq raced' /\ UNCHANGED thread
    BY <1>23 DEF WorkerMoves, table
  <2>2. \A t \in Threads : P(t)' = P(t)
    BY <2>1 DEF P
  <2>3. QED
    BY <2>1, <2>2, OffUnmoved
<1>24. ASSUME UNCHANGED vars
      PROVE  OffFit'
  <2>1. UNCHANGED <<table, running>> /\ raced \subseteq raced' /\ UNCHANGED thread
    BY <1>24 DEF vars, table
  <2>2. \A t \in Threads : P(t)' = P(t)
    BY <2>1 DEF P
  <2>3. QED
    BY <2>1, <2>2, OffUnmoved
<1>25. ASSUME NEW t \in Threads, BuildPreviews(t)
      PROVE  OffFit'
  <2>1. UNCHANGED <<raced, running, targetStatus>> /\ Live(previews') = {}
    BY <1>25 DEF BuildPreviews, Live, Active
  <2>2. \A u \in Threads : P(u)' = P(u)
    BY <1>25, BuildStays
  <2>3. IsOff' => IsOff
    BY <2>1, <2>2, ThreadsAre DEF IsOff, AtOff
  <2>4. QED
    BY <2>1, <2>2, <2>3, ThreadsAre DEF OffFit
<1> QED
  BY NextIs, <1>1, <1>2, <1>3, <1>4, <1>5, <1>6, <1>7, <1>8, <1>9, <1>10, <1>11, <1>12,
     <1>13, <1>14, <1>15, <1>16, <1>17, <1>18, <1>19, <1>20, <1>21, <1>22, <1>23, <1>24,
     <1>25

LEMMA OffShown ==
  ASSUME Typed, OffFit
  PROVE  StoppedIsShown
<1>1. ASSUME Quiet, ~running, raced = {}
      PROVE  Live(previews) = {}
  <2>1. P("window") = 0 /\ P("ready") = 0
    BY <1>1, QuietPlaces
  <2>2. QED
    BY <1>1, <2>1 DEF OffFit, IsOff, AtOff
<1>2. QED
  BY <1>1 DEF StoppedIsShown, Live

-----------------------------------------------------------------------------
\* The window and the publisher.
WindowFits ==
  /\ Typed /\ ButtonsFit /\ ClosedFits /\ PollsFit /\ TableFit /\ StaleFit /\ CrashFits
  /\ StatusFit /\ LiveFit /\ TargetsFit /\ OffFit

LEMMA WindowInductive == Spec => []WindowFits
<1>1. ASSUME Init PROVE WindowFits
  <2>1. ClosedFits /\ CrashFits
    BY <1>1 DEF Init, ClosedFits, CrashFits
  <2>2. QED
    BY <1>1, <2>1, TypedInit, ButtonsInit, PollsInit, TableInit, StaleInit, ShownInit DEF WindowFits
<1>2. ASSUME WindowFits, [Next]_vars PROVE WindowFits'
  <2>1. /\ Typed /\ ButtonsFit /\ ClosedFits /\ PollsFit /\ TableFit /\ StaleFit /\ CrashFits
        /\ StatusFit /\ LiveFit /\ TargetsFit /\ OffFit
    BY <1>2 DEF WindowFits
  <2>2. Typed' /\ ButtonsFit' /\ ClosedFits' /\ PollsFit'
    BY <1>2, <2>1, TypedNext, ButtonsNext, ClosedNext, PollsNext
  <2>3. TableFit' /\ StaleFit' /\ CrashFits'
    BY <1>2, <2>1, TableNext, StaleNext, CrashNext
  <2>4. StatusFit' /\ LiveFit' /\ TargetsFit' /\ OffFit'
    BY <1>2, <2>1, <2>2, StatusNext, LiveNext, TargetsNext, OffNext
  <2>5. QED
    BY <2>2, <2>3, <2>4 DEF WindowFits
<1>3. QED
  BY <1>1, <1>2, PTL DEF Spec

\* Once the handlers are done the buttons, the rows, the polls and the close agree with the
\* publisher (main.go:583-682, 755-835), unless what overlapped explains why they do not.
THEOREM WindowFollows == Spec => []WindowFollowsPublisher
<1>1. ASSUME WindowFits PROVE WindowFollowsPublisher
  <2>1. /\ Typed /\ ButtonsFit /\ ClosedFits /\ PollsFit /\ TableFit /\ OffFit
    BY <1>1 DEF WindowFits
  <2>2. QED
    BY <2>1, ButtonsFollow, ClosedStopped, PollsHeld, TableFollows, OffShown
       DEF WindowFollowsPublisher
<1>2. QED
  BY <1>1, WindowInductive, PTL

\* The program does not crash, by a table that asks for a row it has not got (main.go:486-531)
\* or a channel that is closed twice, as long as nothing overlapped.
THEOREM CrashNeedsOverlap == Spec => []CrashNeedsRace
<1>1. ASSUME WindowFits PROVE CrashNeedsRace
  BY <1>1 DEF WindowFits, CrashFits, CrashNeedsRace
<1>2. QED
  BY <1>1, WindowInductive, PTL

=============================================================================
