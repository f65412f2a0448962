--------------------------- MODULE DisplayProofs ----------------------------
(***************************************************************************)
(* Proofs about Display, for every hardware: its types (TypeOK), and that  *)
(* the three backends keep to the contract of graphics.h, MinuiBackend,    *)
(* until a signal or a failed ioctl disturbs them (ImplementsBackend); and *)
(* which monitor, mode and CRTC MinuiBackendDrm::Init() chooses, of any    *)
(* number of connectors (MainMonitorChosen).                               *)
(***************************************************************************)
EXTENDS Display, SequenceTheorems, WellFoundedInduction, TLAPS

Picture == [ground : {"none", "white", "black"}, strokes : SUBSET Strokes]

(* Before gr_init() nothing has happened. *)
Untouched ==
  /\ backend = "none" /\ gr_draw = Null /\ surface = [s \in Surfaces |-> Blank]
  /\ shown = Null /\ pending = <<>> /\ events = <<>> /\ ~disturbed /\ calm = 2
  /\ todo = [t \in Threads |-> <<>>] /\ menu = FALSE /\ version = 1

ScreenTypeOK ==
  /\ TypeOK
  /\ todo \in [Threads -> Seq(Calls)] /\ surface \in [Surfaces -> Picture]
  /\ hardware # Unknown => Untouched

(* The calls of a routine, as opposed to those inside gr_flip().           *)
Outer == {c \in Calls : c[1] \notin {"poll", "handle", "turn", "sync", "return", "assign"}}
Rest  == Seq(Outer)

-----------------------------------------------------------------------------
(* Sequences.                                                              *)

LEMMA ListTypes ==
  ASSUME NEW S, NEW a \in S, NEW b \in S, NEW c \in S, NEW d \in S, NEW e \in S,
         NEW f \in S, NEW g \in S, NEW h \in S
  PROVE  /\ <<a>> \in Seq(S) /\ <<a, b, c>> \in Seq(S)
         /\ <<a, b, c, d, e, f, g, h>> \in Seq(S)
         /\ \A i, j \in S : <<a, b, c, d, e, f, g, h, i, j>> \in Seq(S)
  OBVIOUS

(* A call, and those that follow it.                                       *)
Cons(x, q) == <<x>> \o q
LEMMA ConsFacts ==
  ASSUME NEW S, NEW x \in S, NEW q \in Seq(S)
  PROVE /\ Cons(x, q) \in Seq(S) /\ Cons(x, q) # <<>> /\ Head(Cons(x, q)) = x /\ Tail(Cons(x, q)) = q
<1>1. <<x>> \in Seq(S) /\ Len(<<x>>) = 1 /\ <<x>>[1] = x
  OBVIOUS
<1>2. PICK y : y = <<x>>
  OBVIOUS
<1>3. /\ y \o q \in Seq(S) /\ Len(y \o q) = Len(q) + 1 /\ (y \o q)[1] = x
      /\ \A i \in 1..Len(q) : (y \o q)[i+1] = q[i]
  BY <1>1, <1>2
<1>4. PICK r : r = y \o q
  OBVIOUS
<1>5. r \in Seq(S) /\ r # <<>> /\ Head(r) = x /\ Tail(r) \in Seq(S) /\ Len(Tail(r)) = Len(q)
  BY <1>3, <1>4
<1>6. \A i \in 1..Len(q) : Tail(r)[i] = q[i]
  BY <1>3, <1>4, <1>5
<1>7. Tail(r) = q
  BY <1>5, <1>6
<1>8. QED
  BY <1>2, <1>4, <1>5, <1>7 DEF Cons
LEMMA ConsCat ==
  ASSUME NEW x \in Calls, NEW y \in Calls, NEW z \in Calls, NEW q \in Seq(Calls)
  PROVE /\ <<>> \o q = q /\ <<x>> \o q = Cons(x, q)
        /\ <<x, y>> \o q = Cons(x, Cons(y, q))
        /\ <<x, y, z>> \o q = Cons(x, Cons(y, Cons(z, q)))
<1>1. <<>> \o q = q
  OBVIOUS
<1>2. /\ <<x, y>> = <<x>> \o <<y>> /\ <<x, y, z>> = <<x>> \o <<y, z>>
      /\ <<y, z>> = <<y>> \o <<z>>
  <2>1. ASSUME NEW a \in Calls, NEW b \in Calls
        PROVE  <<a, b>> = <<a>> \o <<b>>
    <3>1. PICK u : u = <<a>>
      OBVIOUS
    <3>2. PICK v : v = <<b>>
      OBVIOUS
    <3>3. u \in Seq(Calls) /\ v \in Seq(Calls) /\ Len(u) = 1 /\ Len(v) = 1 /\ u[1] = a /\ v[1] = b
      BY <3>1, <3>2
    <3>4. u \o v \in Seq(Calls) /\ Len(u \o v) = 2 /\ (u \o v)[1] = a /\ (u \o v)[2] = b
      <4>1. /\ u \o v \in Seq(Calls) /\ Len(u \o v) = 2
            /\ \A i \in 1..2 : (u \o v)[i] = IF i <= 1 THEN u[i] ELSE v[i - 1]
        BY <3>3, ConcatProperties
      <4>2. QED
        BY <3>3, <4>1
    <3>5. PICK w : w = <<a, b>>
      OBVIOUS
    <3>6. w \in Seq(Calls) /\ Len(w) = 2 /\ w[1] = a /\ w[2] = b
      BY <3>5
    <3>7. w = u \o v
      BY <3>4, <3>6, SeqEqual
    <3>8. QED
      BY <3>1, <3>2, <3>5, <3>7
  <2>2. <<x, y, z>> = <<x>> \o <<y, z>>
    <3>1. PICK u : u = <<x>>
      OBVIOUS
    <3>2. PICK v : v = <<y, z>>
      OBVIOUS
    <3>3. u \in Seq(Calls) /\ v \in Seq(Calls) /\ Len(u) = 1 /\ Len(v) = 2 /\ u[1] = x /\ v[1] = y /\ v[2] = z
      BY <3>1, <3>2
    <3>4. u \o v \in Seq(Calls) /\ Len(u \o v) = 3 /\ (u \o v)[1] = x /\ (u \o v)[2] = y /\ (u \o v)[3] = z
      <4>1. /\ u \o v \in Seq(Calls) /\ Len(u \o v) = 3
            /\ \A i \in 1..3 : (u \o v)[i] = IF i <= 1 THEN u[i] ELSE v[i - 1]
        <5>1. /\ u \o v \in Seq(Calls) /\ Len(u \o v) = Len(u) + Len(v)
              /\ \A i \in 1..Len(u) + Len(v) : (u \o v)[i] =
                   IF i <= Len(u) THEN u[i] ELSE v[i - Len(u)]
          BY <3>3, ConcatProperties
        <5>2. Len(u) = 1 /\ Len(u) + Len(v) = 3
          BY <3>3
        <5>3. QED
          BY <5>1, <5>2
      <4>2. (u \o v)[1] = u[1] /\ (u \o v)[2] = v[1] /\ (u \o v)[3] = v[2]
        <5>1. PICK c : c = u \o v
          OBVIOUS
        <5>2. \A i \in 1..3 : c[i] = IF i <= 1 THEN u[i] ELSE v[i - 1]
          BY <4>1, <5>1
        <5>3. c[1] = u[1] /\ c[2] = v[1] /\ c[3] = v[2]
          BY <5>2
        <5>4. QED
          BY <5>1, <5>3
      <4>3. QED
        BY <3>3, <4>1, <4>2
    <3>5. PICK w : w = <<x, y, z>>
      OBVIOUS
    <3>6. w \in Seq(Calls) /\ Len(w) = 3 /\ w[1] = x /\ w[2] = y /\ w[3] = z
      BY <3>5
    <3>7. \A i \in 1..Len(w) : w[i] = (u \o v)[i]
      <4>1. \A i \in 1..3 : i = 1 \/ i = 2 \/ i = 3
        OBVIOUS
      <4>2. QED
        BY <3>4, <3>6, <4>1
    <3>8. w = u \o v
      BY <3>4, <3>6, <3>7, SeqEqual
    <3>9. QED
      BY <3>1, <3>2, <3>5, <3>8
  <2>3. QED
    BY <2>1, <2>2
<1>3. <<x>> \in Seq(Calls) /\ <<y>> \in Seq(Calls) /\ <<z>> \in Seq(Calls) /\ <<y, z>> \in Seq(Calls)
  OBVIOUS
<1>4. \A a, b \in Seq(Calls) : (a \o b) \o q = a \o (b \o q)
  BY ConcatAssociative
<1>5. (<<x>> \o <<y>>) \o q = <<x>> \o (<<y>> \o q) /\ (<<x>> \o <<y, z>>) \o q = <<x>> \o (<<y, z>> \o q)
      /\ (<<y>> \o <<z>>) \o q = <<y>> \o (<<z>> \o q)
  BY <1>3, <1>4, Zenon
<1>6. <<x, y>> \o q = <<x>> \o (<<y>> \o q) /\ <<y, z>> \o q = <<y>> \o (<<z>> \o q)
      /\ <<x, y, z>> \o q = <<x>> \o (<<y, z>> \o q)
  BY <1>2, <1>5
<1>7. <<x, y>> \o q = Cons(x, Cons(y, q)) /\ <<y, z>> \o q = Cons(y, Cons(z, q))
  BY <1>6, Zenon DEF Cons
<1>8. <<x, y, z>> \o q = Cons(x, Cons(y, Cons(z, q)))
  BY <1>6, <1>7, Zenon DEF Cons
<1>9. QED
  BY <1>1, <1>7, <1>8, Zenon DEF Cons

-----------------------------------------------------------------------------
(* Calls.                                                                  *)

LEMMA CallTypes ==
  /\ <<"clear", "">> \in Calls /\ <<"flip", "">> \in Calls /\ <<"exit", "">> \in Calls
  /\ <<"menu", "">> \in Calls /\ <<"poll", "">> \in Calls /\ <<"handle", "">> \in Calls
  /\ <<"turn", "">> \in Calls /\ <<"return", "">> \in Calls
  /\ \A c \in {"none", "white", "black"} : <<"color", c>> \in Calls
  /\ \A p \in {"title", "bar", "selected", "extra", "message"} : <<"draw", p>> \in Calls
  /\ \A s \in Surfaces : <<"sync", s>> \in Calls /\ <<"assign", s>> \in Calls
  /\ \A f \in {"found", "none"} : <<"font", f>> \in Calls
  BY DEF Calls

LEMMA ArgTypes ==
  ASSUME NEW c \in Calls
  PROVE  /\ c[1] = "color" => c[2] \in {"none", "white", "black"}
         /\ c[1] = "draw" => c[2] \in {"title", "bar", "selected", "extra", "message"}
         /\ c[1] \in {"sync", "assign"} => c[2] \in Surfaces
         /\ c = <<c[1], c[2]>>
<1>1. CASE c \in {<<op, "">> : op \in {"clear", "flip", "exit", "menu", "poll", "handle", "turn", "return"}}
  <2>1. PICK op \in {"clear", "flip", "exit", "menu", "poll", "handle", "turn", "return"} : c = <<op, "">>
    BY <1>1
  <2>2. c[1] = op /\ c[2] = ""
    BY <2>1
  <2>3. c[1] \notin {"color", "draw", "sync", "assign"}
    BY <2>2
  <2>4. QED
    BY <2>1, <2>2, <2>3
<1>2. CASE c \in {"color"} \X {"none", "white", "black"}
  BY <1>2
<1>3. CASE c \in {"font"} \X {"found", "none"}
  BY <1>3
<1>4. CASE c \in {"draw"} \X {"title", "bar", "selected", "extra", "message"}
  BY <1>4
<1>5. CASE c \in {"sync", "assign"} \X Surfaces
  BY <1>5
<1>6. QED
  BY <1>1, <1>2, <1>3, <1>4, <1>5 DEF Calls

LEMMA RoutineCalls ==
  /\ Render \in Rest /\ Exit \in Rest
  /\ \A b, u : Startup(b, u) \in Rest
  /\ \A b, u : b # "none" => /\ Startup(b, u) # <<>>
                           /\ Head(Startup(b, u))[1] = "flip"
<1> DEFINE clear == <<"clear", "">>     flip == <<"flip", "">>     exit == <<"exit", "">>
           color(c) == <<"color", c>>  draw(p) == <<"draw", p>>
<1>1. /\ clear \in Outer /\ flip \in Outer /\ exit \in Outer /\ flip[1] = "flip"
  BY CallTypes DEF Outer
<1>2. color("none") \in Outer /\ color("white") \in Outer /\ color("black") \in Outer
  BY CallTypes DEF Outer
<1>3. /\ draw("title") \in Outer /\ draw("bar") \in Outer /\ draw("selected") \in Outer
      /\ draw("extra") \in Outer /\ draw("message") \in Outer
  BY CallTypes DEF Outer
<1>4. /\ Render = <<color("none"), clear, color("white"), draw("title"), draw("bar"),
                    color("black"), draw("selected"), color("white"), draw("extra"), flip>>
      /\ Exit = <<color("none"), clear, flip, clear, color("white"), draw("message"), flip, exit>>
  BY DEF Render, Exit
<1> HIDE DEF clear, flip, exit, color, draw
<1>5. Render \in Rest
  BY <1>1, <1>2, <1>3, <1>4, ListTypes DEF Rest
<1>6. Exit \in Rest
  BY <1>1, <1>2, <1>3, <1>4, ListTypes DEF Rest
<1>7. ASSUME NEW b, NEW u
      PROVE  /\ Startup(b, u) \in Rest
             /\ b # "none" => Startup(b, u) # <<>> /\ Head(Startup(b, u)) = flip
  <2>1. PICK f : f = <<"font", IF u THEN "found" ELSE "none">>
    OBVIOUS
  <2>2. f \in Outer
    BY <2>1, CallTypes DEF Outer
  <2>3. PICK m : m = <<"menu", "">>
    OBVIOUS
  <2>4. m \in Outer
    BY <2>3, CallTypes DEF Outer
  <2>5. <<flip, flip, f>> \in Rest /\ <<m>> \in Rest /\ <<>> \in Rest
    BY <1>1, <2>2, <2>4 DEF Rest
  <2>6. PICK l : l = IF b = "none" THEN <<>> ELSE <<flip, flip, f>>
    OBVIOUS
  <2>7. l \in Rest
    BY <2>5, <2>6
  <2>8. l \o <<m>> \in Rest
    BY <2>5, <2>7, ConcatProperties DEF Rest
  <2>9. (l \o <<m>>) \o Render \in Rest
    BY <1>5, <2>8, ConcatProperties DEF Rest
  <2>10. Startup(b, u) = (l \o <<m>>) \o Render
    BY <2>1, <2>3, <2>6, Zenon DEF Startup, flip
  <2>11. ASSUME b # "none"
         PROVE  Startup(b, u) # <<>> /\ Head(Startup(b, u)) = flip
    <3>1. PICK k : k = l \o <<m>>
      OBVIOUS
    <3>2. Len(l) = 3 /\ l[1] = flip
      BY <2>6, <2>11
    <3>3. k \in Rest /\ Len(k) >= 3 /\ k[1] = flip
      BY <2>5, <2>7, <3>1, <3>2, ConcatProperties DEF Rest
    <3>4. k \o Render \in Rest /\ Len(k \o Render) >= 3 /\ (k \o Render)[1] = flip
      BY <1>5, <3>3, ConcatProperties DEF Rest
    <3>5. QED
      BY <2>10, <3>1, <3>4 DEF Rest
  <2>12. QED
    BY <2>9, <2>10, <2>11
<1>8. QED
  BY <1>1, <1>5, <1>6, <1>7

LEMMA RestTypes == Rest \subseteq Seq(Calls)
  BY DEF Rest, Outer

LEMMA RoutineTypes ==
  /\ Render \in Seq(Calls) /\ Exit \in Seq(Calls)
  /\ \A b, u : Startup(b, u) \in Seq(Calls)
  BY RoutineCalls, RestTypes

(* What Continue() and the threads' queues come to. *)
LEMMA ContinueTypes ==
  ASSUME todo \in [Threads -> Seq(Calls)], NEW t \in Threads, todo[t] # <<>>,
         NEW calls \in Seq(Calls), Continue(t, calls)
  PROVE  /\ todo' \in [Threads -> Seq(Calls)]
         /\ todo'[t] = calls \o Tail(todo[t])
         /\ \A u \in Threads \ {t} : todo'[u] = todo[u]
<1>1. Tail(todo[t]) \in Seq(Calls)
  OBVIOUS
<1>2. calls \o Tail(todo[t]) \in Seq(Calls)
  BY <1>1
<1>3. QED
  BY <1>2 DEF Continue

LEMMA CalmTypes ==
  ASSUME disturbed \in BOOLEAN, calm \in -1..2
  PROVE  Calm \/ Disturb => disturbed' \in BOOLEAN /\ calm' \in -1..2
<1>1. Ended \in {0, 1}
  BY DEF Ended
<1>2. QED
  <2>1. CASE Calm
    BY <1>1, <2>1 DEF Calm
  <2>2. CASE Disturb
    BY <1>1, <2>2 DEF Disturb
  <2>3. QED
    BY <2>1, <2>2

-----------------------------------------------------------------------------
(* Types.                                                                  *)

LEMMA ScreenTypeInit == Init => ScreenTypeOK
<1> SUFFICES ASSUME Init PROVE ScreenTypeOK
  OBVIOUS
<1>1. /\ backend = "none" /\ menu = FALSE /\ version = 1 /\ dead = "no" /\ ink = "white"
      /\ todo = [t \in Threads |-> <<>>] /\ gr_draw = Null
      /\ surface = [s \in Surfaces |-> Blank] /\ current = "a"
      /\ flag = [t \in Threads |-> FALSE] /\ fence = {}
      /\ shown = Null /\ pending = <<>> /\ events = <<>> /\ disturbed = FALSE /\ calm = 2
  BY DEF Init
<1>2. /\ todo \in [Threads -> Seq(Calls)] /\ flag \in [Threads -> BOOLEAN]
      /\ pending \in Seq(Surfaces \X Owners) /\ events \in Seq(Owners) /\ version \in 1..MaxVersion
  BY <1>1, DisplayAssumption
<1>3. surface \in [Surfaces -> Picture]
  BY <1>1 DEF Picture, Blank
<1>4. Untouched
  BY <1>1 DEF Untouched
<1>5. TypeOK
  <2>1. \A s \in Surfaces : surface[s].ground \in {"none", "white", "black"} /\ surface[s].strokes \subseteq Strokes
    BY <1>3 DEF Picture
  <2>2. Len(pending) <= 1
    BY <1>1
  <2>3. /\ backend \in {"none", "adf", "drm", "fbdev", "memory"}
        /\ dead \in {"no", "monitor", "font", "display", "surface"}
        /\ ink \in {"none", "white", "black"} /\ gr_draw \in Surfaces \cup {Null}
        /\ current \in Surfaces /\ fence \subseteq Surfaces /\ shown \in Surfaces \cup {Null}
        /\ calm \in -1..2
    BY <1>1 DEF Surfaces
  <2>4. menu \in BOOLEAN /\ disturbed \in BOOLEAN
    BY <1>1
  <2>5. \A t \in Threads : todo[t] \in Seq(Calls)
    BY <1>2
  <2>6. QED
    BY <1>2, <2>1, <2>2, <2>3, <2>5, <2>4 DEF TypeOK
<1>6. QED
  BY <1>2, <1>3, <1>4, <1>5 DEF ScreenTypeOK

(* Whoever runs has found a backend, or given up looking for one.          *)
LEMMA RunningTypes ==
  ASSUME ScreenTypeOK, NEW t \in Threads, Runs(t)
  PROVE  /\ hardware = Unknown /\ dead = "no" /\ todo[t] # <<>> /\ todo[t] \in Seq(Calls)
         /\ Head(todo[t]) \in Calls
<1>1. todo[t] # <<>> /\ dead = "no" /\ todo[t] \in Seq(Calls)
  BY DEF Runs, ScreenTypeOK
<1>2. hardware = Unknown
  BY <1>1 DEF ScreenTypeOK, Untouched
<1>3. QED
  BY <1>1, <1>2

(* Calls that change nothing but what is still to be done.                 *)
LEMMA CallStep ==
  ASSUME ScreenTypeOK, NEW t \in Threads, Runs(t), NEW calls \in Seq(Calls), Continue(t, calls),
         Calm \/ Disturb
  PROVE  /\ todo' \in [Threads -> Seq(Calls)] /\ \A u \in Threads : todo'[u] \in Seq(Calls)
         /\ disturbed' \in BOOLEAN /\ calm' \in -1..2 /\ hardware = Unknown
<1>1. todo[t] # <<>> /\ todo \in [Threads -> Seq(Calls)] /\ hardware = Unknown
  BY RunningTypes DEF ScreenTypeOK
<1>2. todo' \in [Threads -> Seq(Calls)]
  BY <1>1, ContinueTypes
<1>3. disturbed' \in BOOLEAN /\ calm' \in -1..2
  BY CalmTypes DEF ScreenTypeOK, TypeOK
<1>4. QED
  BY <1>1, <1>2, <1>3

LEMMA SurfaceTypes ==
  ASSUME surface \in [Surfaces -> Picture]
  PROVE  \A s \in Surfaces : /\ surface[s].ground \in {"none", "white", "black"}
                            /\ surface[s].strokes \subseteq Strokes
  BY DEF Picture

LEMMA FindFontTypes == ScreenTypeOK /\ FindFont => ScreenTypeOK'
<1> SUFFICES ASSUME ScreenTypeOK, FindFont PROVE ScreenTypeOK'
  OBVIOUS
<1>1. "main" \in Threads /\ Runs("main")
  BY DEF FindFont, At, Threads
<1>2. UNCHANGED <<menuVars, inkVars, flipVars, kernelVars>>
  BY DEF FindFont
<1>3. <<>> \in Seq(Calls) /\ hardware = Unknown
  BY <1>1, RunningTypes
<1>4. /\ todo' \in [Threads -> Seq(Calls)] /\ \A u \in Threads : todo'[u] \in Seq(Calls)
      /\ disturbed' \in BOOLEAN /\ calm' \in -1..2
      /\ dead' \in {"no", "monitor", "font", "display", "surface"}
  <2>1. CASE Die("font")
    <3>1. todo' = todo /\ dead' = "font"
      BY <2>1 DEF Die
    <3>2. disturbed' \in BOOLEAN /\ calm' \in -1..2
      BY CalmTypes DEF FindFont, ScreenTypeOK, TypeOK
    <3>3. QED
      BY <3>1, <3>2 DEF ScreenTypeOK
  <2>2. CASE Continue("main", <<>>) /\ UNCHANGED dead
    <3>1. Calm
      BY DEF FindFont
    <3>2. QED
      BY <1>1, <1>3, <2>2, <3>1, CallStep DEF ScreenTypeOK, TypeOK
  <2>3. QED
    BY <2>1, <2>2 DEF FindFont
<1>5. QED
  BY <1>2, <1>3, <1>4 DEF ScreenTypeOK, TypeOK, menuVars, inkVars, flipVars, kernelVars

LEMMA SwitchMenuTypes == ScreenTypeOK /\ SwitchMenu => ScreenTypeOK'
<1> SUFFICES ASSUME ScreenTypeOK, SwitchMenu PROVE ScreenTypeOK'
  OBVIOUS
<1>1. "main" \in Threads /\ Runs("main") /\ Continue("main", <<>>) /\ Calm /\ <<>> \in Seq(Calls)
  BY DEF SwitchMenu, At, Threads
<1>2. menu' = TRUE /\ UNCHANGED <<hardware, backend, version, dead, inkVars, flipVars, kernelVars>>
  BY DEF SwitchMenu
<1>3. /\ todo' \in [Threads -> Seq(Calls)] /\ \A u \in Threads : todo'[u] \in Seq(Calls)
      /\ disturbed' \in BOOLEAN /\ calm' \in -1..2 /\ hardware = Unknown
  BY <1>1, CallStep
<1>4. QED
  BY <1>2, <1>3 DEF ScreenTypeOK, TypeOK, inkVars, flipVars, kernelVars

LEMMA GrExitTypes == ScreenTypeOK /\ GrExit => ScreenTypeOK'
<1> SUFFICES ASSUME ScreenTypeOK, GrExit PROVE ScreenTypeOK'
  OBVIOUS
<1>1. "main" \in Threads /\ Runs("main") /\ Continue("main", <<>>) /\ Calm /\ <<>> \in Seq(Calls)
  BY DEF GrExit, At, Threads
<1>2. /\ backend' = "none" /\ shown' \in {shown, Null}
      /\ UNCHANGED <<hardware, menu, version, dead, inkVars, flipVars, pending, events>>
  BY DEF GrExit
<1>3. /\ todo' \in [Threads -> Seq(Calls)] /\ \A u \in Threads : todo'[u] \in Seq(Calls)
      /\ disturbed' \in BOOLEAN /\ calm' \in -1..2 /\ hardware = Unknown
  BY <1>1, CallStep
<1>4. QED
  BY <1>2, <1>3 DEF ScreenTypeOK, TypeOK, inkVars, flipVars

(* gr_color(), gr_clear() and what draws.                                  *)
LEMMA DrawingTypes ==
  ScreenTypeOK => \A t \in Threads : GrColor(t) \/ GrClear(t) \/ GrDraw(t) => ScreenTypeOK'
<1> SUFFICES ASSUME ScreenTypeOK, NEW t \in Threads, GrColor(t) \/ GrClear(t) \/ GrDraw(t)
             PROVE  ScreenTypeOK'
  OBVIOUS
<1>1. Runs(t) /\ Calm /\ UNCHANGED <<menuVars, gr_draw, flipVars, kernelVars>> /\ <<>> \in Seq(Calls)
  BY DEF GrColor, GrClear, GrDraw, Paint, At
<1>2. hardware = Unknown /\ Head(todo[t]) \in Calls
  BY <1>1, RunningTypes
<1>3. CASE GrColor(t)
  <2>1. Continue(t, <<>>) /\ ink' \in {"none", "white", "black"} /\ UNCHANGED <<dead, surface>>
    BY <1>2, <1>3, ArgTypes DEF GrColor, At, Arg
  <2>2. /\ todo' \in [Threads -> Seq(Calls)] /\ \A u \in Threads : todo'[u] \in Seq(Calls)
        /\ disturbed' \in BOOLEAN /\ calm' \in -1..2
    BY <1>1, <2>1, CallStep
  <2>3. QED
    BY <1>1, <1>2, <2>1, <2>2 DEF ScreenTypeOK, TypeOK, menuVars, flipVars, kernelVars
<1>4. CASE GrClear(t) \/ GrDraw(t)
  <2>1. PICK content : Paint(t, content) /\ (gr_draw # Null => content \in Picture)
    <3>1. CASE GrClear(t)
      <4>1. Cleared \in Picture
        BY DEF Cleared, Picture, ScreenTypeOK, TypeOK
      <4>2. QED
        BY <3>1, <4>1 DEF GrClear
    <3>2. CASE GrDraw(t)
      <4>1. Arg(t) \in {"title", "bar", "selected", "extra", "message"}
        BY <1>2, <3>2, ArgTypes DEF GrDraw, At, Arg
      <4>2. ASSUME gr_draw # Null
            PROVE  Drawn(Arg(t)) \in Picture
        <5>1. surface[gr_draw] \in Picture
          BY <4>2 DEF ScreenTypeOK, TypeOK
        <5>2. ASSUME ink # "none"
              PROVE  <<Arg(t), ink, version>> \in Strokes
          BY <4>1, <5>2 DEF Strokes, ScreenTypeOK, TypeOK
        <5>3. QED
          BY <5>1, <5>2 DEF Drawn, Picture
      <4>3. QED
        BY <3>2, <4>2 DEF GrDraw
    <3>3. QED
      BY <1>4, <3>1, <3>2
  <2>2. UNCHANGED ink
    BY <2>1 DEF Paint
  <2>3. CASE gr_draw = Null
    <3>1. UNCHANGED <<todo, surface>> /\ dead' \in {"display", "surface"}
      BY <2>1, <2>3 DEF Paint, Die
    <3>2. disturbed' \in BOOLEAN /\ calm' \in -1..2
      BY <1>1, CalmTypes DEF ScreenTypeOK, TypeOK
    <3>3. QED
      BY <1>1, <1>2, <2>2, <3>1, <3>2 DEF ScreenTypeOK, TypeOK, menuVars, flipVars, kernelVars
  <2>4. CASE gr_draw # Null
    <3>1. Continue(t, <<>>) /\ surface' = [surface EXCEPT ![gr_draw] = content] /\ UNCHANGED dead
      BY <2>1, <2>4 DEF Paint
    <3>2. surface' \in [Surfaces -> Picture]
      BY <2>1, <2>4, <3>1 DEF ScreenTypeOK, TypeOK
    <3>3. /\ todo' \in [Threads -> Seq(Calls)] /\ \A u \in Threads : todo'[u] \in Seq(Calls)
          /\ disturbed' \in BOOLEAN /\ calm' \in -1..2
      BY <1>1, <3>1, CallStep
    <3>4. \A s \in Surfaces : /\ surface'[s].ground \in {"none", "white", "black"}
                            /\ surface'[s].strokes \subseteq Strokes
      BY <3>2 DEF Picture
    <3>5. QED
      BY <1>1, <1>2, <2>2, <3>1, <3>2, <3>3, <3>4 DEF ScreenTypeOK, TypeOK, menuVars, flipVars, kernelVars
  <2>5. QED
    BY <2>3, <2>4
<1>5. QED
  BY <1>3, <1>4

(* The calls that Flip() makes.                                            *)
LEMMA FlipCalls ==
  /\ <<>> \in Seq(Calls)
  /\ << <<"poll", "">> >> \in Seq(Calls) /\ << <<"handle", "">> >> \in Seq(Calls)
  /\ << <<"return", "">> >> \in Seq(Calls) /\ << <<"turn", "">>, <<"return", "">> >> \in Seq(Calls)
  /\ << <<"poll", "">>, <<"turn", "">>, <<"return", "">> >> \in Seq(Calls)
  /\ \A s \in Surfaces : << <<"sync", s>> >> \in Seq(Calls) /\ << <<"assign", s>> >> \in Seq(Calls)
<1> DEFINE poll == <<"poll", "">>  handle == <<"handle", "">>
           turn == <<"turn", "">>  return == <<"return", "">>
<1>1. \A a, b, c \in Calls : <<a>> \in Seq(Calls) /\ <<a, b>> \in Seq(Calls) /\ <<a, b, c>> \in Seq(Calls)
  OBVIOUS
<1>2. poll \in Calls /\ handle \in Calls /\ turn \in Calls /\ return \in Calls
  BY CallTypes
<1>3. /\ <<poll>> \in Seq(Calls) /\ <<handle>> \in Seq(Calls) /\ <<return>> \in Seq(Calls)
      /\ <<turn, return>> \in Seq(Calls) /\ <<poll, turn, return>> \in Seq(Calls)
  <2> HIDE DEF poll, handle, turn, return
  <2> QED
    BY <1>1, <1>2
<1>4. ASSUME NEW s \in Surfaces
      PROVE  << <<"sync", s>> >> \in Seq(Calls) /\ << <<"assign", s>> >> \in Seq(Calls)
  <2>1. PICK p : p = <<"sync", s>>
    OBVIOUS
  <2>2. PICK q : q = <<"assign", s>>
    OBVIOUS
  <2>3. p \in Calls /\ q \in Calls
    BY <2>1, <2>2, CallTypes
  <2>4. <<p>> \in Seq(Calls) /\ <<q>> \in Seq(Calls)
    BY <1>1, <2>3
  <2>5. QED
    BY <2>1, <2>2, <2>4
<1>5. <<>> \in Seq(Calls)
  OBVIOUS
<1>6. QED
  BY <1>3, <1>4, <1>5

LEMMA OtherTypes == \A s \in Surfaces : Other(s) \in Surfaces /\ Other(s) # s /\ Other(Other(s)) = s
  BY DEF Surfaces, Other

LEMMA PageFlipTypes == ScreenTypeOK => \A t \in Threads : PageFlip(t) => ScreenTypeOK'
<1> SUFFICES ASSUME ScreenTypeOK, NEW t \in Threads, PageFlip(t) PROVE ScreenTypeOK'
  OBVIOUS
<1>1. /\ Runs(t) /\ UNCHANGED <<menuVars, dead, ink, surface, current, fence, shown, events>>
      /\ Calm \/ Disturb
  BY DEF PageFlip, Flipping, At
<1>2. PICK calls \in Seq(Calls) : Continue(t, calls)
  BY FlipCalls DEF PageFlip
<1>3. /\ todo' \in [Threads -> Seq(Calls)] /\ \A u \in Threads : todo'[u] \in Seq(Calls)
      /\ disturbed' \in BOOLEAN /\ calm' \in -1..2 /\ hardware = Unknown
  BY <1>1, <1>2, CallStep
<1>4. /\ gr_draw' \in {gr_draw, Null}
      /\ pending' \in Seq(Surfaces \X Owners) /\ (backend = "drm" => Len(pending') <= 1)
      /\ flag' \in [Threads -> BOOLEAN]
  <2>1. CASE pending' = << <<current, t>> >> /\ flag' = [flag EXCEPT ![t] = TRUE] /\ UNCHANGED gr_draw
    <3>1. PICK p : p = <<current, t>>
      OBVIOUS
    <3>2. p \in Surfaces \X Owners
      BY <3>1 DEF Owners, ScreenTypeOK, TypeOK
    <3>3. pending' = <<p>>
      BY <2>1, <3>1
    <3>4. <<p>> \in Seq(Surfaces \X Owners) /\ Len(<<p>>) = 1
      BY <3>2
    <3>5. flag' \in [Threads -> BOOLEAN]
      BY <2>1 DEF ScreenTypeOK, TypeOK
    <3>6. QED
      BY <2>1, <3>3, <3>4, <3>5
  <2>2. CASE gr_draw' = Null /\ UNCHANGED <<pending, flag>>
    BY <2>2 DEF ScreenTypeOK, TypeOK
  <2>3. QED
    BY <2>1, <2>2 DEF PageFlip
<1>5. QED
  BY <1>1, <1>3, <1>4 DEF ScreenTypeOK, TypeOK, menuVars

LEMMA PollTypes == ScreenTypeOK => \A t \in Threads : Poll(t) => ScreenTypeOK'
<1> SUFFICES ASSUME ScreenTypeOK, NEW t \in Threads, Poll(t) PROVE ScreenTypeOK'
  OBVIOUS
<1>1. /\ Runs(t) /\ UNCHANGED <<menuVars, dead, inkVars, flipVars, kernelVars>> /\ Calm
      /\ Continue(t, << <<"handle", "">> >>)
  BY DEF Poll, At
<1>2. /\ todo' \in [Threads -> Seq(Calls)] /\ \A u \in Threads : todo'[u] \in Seq(Calls)
      /\ disturbed' \in BOOLEAN /\ calm' \in -1..2 /\ hardware = Unknown
  BY <1>1, FlipCalls, CallStep
<1>3. QED
  BY <1>1, <1>2 DEF ScreenTypeOK, TypeOK, menuVars, inkVars, flipVars, kernelVars

LEMMA HandleEventTypes == ScreenTypeOK => \A t \in Threads : HandleEvent(t) => ScreenTypeOK'
<1> SUFFICES ASSUME ScreenTypeOK, NEW t \in Threads, HandleEvent(t) PROVE ScreenTypeOK'
  OBVIOUS
<1>1. /\ Runs(t) /\ UNCHANGED <<menuVars, dead, inkVars, current, fence, shown, pending>> /\ Calm
      /\ events' = <<>>
  BY DEF HandleEvent, At
<1>2. PICK calls \in Seq(Calls) : Continue(t, calls)
  BY FlipCalls DEF HandleEvent
<1>3. /\ todo' \in [Threads -> Seq(Calls)] /\ \A u \in Threads : todo'[u] \in Seq(Calls)
      /\ disturbed' \in BOOLEAN /\ calm' \in -1..2 /\ hardware = Unknown
  BY <1>1, <1>2, CallStep
<1>4. flag' \in [Threads -> BOOLEAN]
  <2>1. flag' \in Completed(flag, events)
    BY DEF HandleEvent
  <2>2. /\ [u \in Threads |-> flag[u] /\ \A i \in DOMAIN events : events[i] # u] \in [Threads -> BOOLEAN]
        /\ [u \in Threads |-> FALSE] \in [Threads -> BOOLEAN]
    BY Zenon
  <2>3. QED
    BY <2>1, <2>2 DEF Completed
<1>5. events' \in Seq(Owners)
  BY <1>1
<1>6. QED
  BY <1>1, <1>3, <1>4, <1>5 DEF ScreenTypeOK, TypeOK, menuVars, inkVars

LEMMA TurnTypes == ScreenTypeOK => \A t \in Threads : Turn(t) => ScreenTypeOK'
<1> SUFFICES ASSUME ScreenTypeOK, NEW t \in Threads, Turn(t) PROVE ScreenTypeOK'
  OBVIOUS
<1>1. /\ Runs(t) /\ UNCHANGED <<menuVars, dead, inkVars, fence, kernelVars>> /\ Calm
      /\ current' = Other(current) /\ flag' = [flag EXCEPT ![t] = FALSE]
  BY DEF Turn, At, Swapped
<1>2. current' \in Surfaces /\ flag' \in [Threads -> BOOLEAN]
  BY <1>1, OtherTypes DEF ScreenTypeOK, TypeOK
<1>3. PICK calls \in Seq(Calls) : Continue(t, calls)
  BY <1>2, FlipCalls DEF Turn
<1>4. /\ todo' \in [Threads -> Seq(Calls)] /\ \A u \in Threads : todo'[u] \in Seq(Calls)
      /\ disturbed' \in BOOLEAN /\ calm' \in -1..2 /\ hardware = Unknown
  BY <1>1, <1>3, CallStep
<1>5. QED
  BY <1>1, <1>2, <1>4 DEF ScreenTypeOK, TypeOK, menuVars, inkVars, kernelVars

(* The flips of the backends that do not wait.                             *)
LEMMA SwapTypes ==
  ScreenTypeOK => \A t \in Threads : FbSwap(t) \/ FbCopy(t) \/ Post(t) => ScreenTypeOK'
<1> SUFFICES ASSUME ScreenTypeOK, NEW t \in Threads, FbSwap(t) \/ FbCopy(t) \/ Post(t)
             PROVE  ScreenTypeOK'
  OBVIOUS
<1>1. Runs(t) /\ UNCHANGED <<menuVars, dead, ink, gr_draw, flag, events>> /\ (Calm \/ Disturb)
  BY DEF FbSwap, FbCopy, Post, Flipping, At, flipVars, kernelVars
<1>2. PICK calls \in Seq(Calls) : Continue(t, calls)
  BY FlipCalls DEF FbSwap, FbCopy, Post
<1>3. /\ todo' \in [Threads -> Seq(Calls)] /\ \A u \in Threads : todo'[u] \in Seq(Calls)
      /\ disturbed' \in BOOLEAN /\ calm' \in -1..2 /\ hardware = Unknown
  BY <1>1, <1>2, CallStep
<1>4. CASE FbSwap(t)
  <2>1. /\ current' = Other(current) /\ shown' \in {Other(current), shown}
        /\ UNCHANGED <<surface, fence, pending>>
    BY <1>4 DEF FbSwap, Swapped
  <2>2. current' \in Surfaces /\ shown' \in Surfaces \cup {Null}
    BY <2>1, OtherTypes DEF ScreenTypeOK, TypeOK
  <2>3. QED
    BY <1>1, <1>3, <2>1, <2>2 DEF ScreenTypeOK, TypeOK, menuVars
<1>5. CASE FbCopy(t)
  <2>1. surface' = [surface EXCEPT !["a"] = surface["b"]] /\ UNCHANGED <<current, fence, shown, pending>>
    BY <1>5 DEF FbCopy, flipVars, kernelVars
  <2>2. surface' \in [Surfaces -> Picture]
    BY <2>1 DEF ScreenTypeOK, Surfaces
  <2>3. \A s \in Surfaces : /\ surface'[s].ground \in {"none", "white", "black"}
                          /\ surface'[s].strokes \subseteq Strokes
    BY <2>2 DEF Picture
  <2>4. QED
    BY <1>1, <1>3, <2>1, <2>2, <2>3 DEF ScreenTypeOK, TypeOK, menuVars
<1>6. CASE Post(t)
  <2>1. /\ pending' \in {Append(pending, <<current, "none">>), pending}
        /\ fence' \in {fence \cup {current}, fence}
        /\ UNCHANGED <<surface, current, shown>> /\ backend = "adf"
    BY <1>6 DEF Post, Flipping
  <2>2. PICK p : p = <<current, "none">>
    OBVIOUS
  <2>3. p \in Surfaces \X Owners
    BY <2>2 DEF Owners, ScreenTypeOK, TypeOK
  <2>4. Append(pending, p) \in Seq(Surfaces \X Owners) /\ pending \in Seq(Surfaces \X Owners)
    BY <2>3 DEF ScreenTypeOK, TypeOK
  <2>5. pending' \in Seq(Surfaces \X Owners) /\ fence' \subseteq Surfaces
    BY <2>1, <2>2, <2>4 DEF ScreenTypeOK, TypeOK
  <2>6. QED
    BY <1>1, <1>3, <2>1, <2>5 DEF ScreenTypeOK, TypeOK, menuVars
<1>7. QED
  BY <1>4, <1>5, <1>6

LEMMA SyncTypes ==
  ScreenTypeOK => \A t \in Threads : Sync(t) \/ Return(t) \/ Assign(t) => ScreenTypeOK'
<1> SUFFICES ASSUME ScreenTypeOK, NEW t \in Threads, Sync(t) \/ Return(t) \/ Assign(t)
             PROVE  ScreenTypeOK'
  OBVIOUS
<1>1. /\ Runs(t) /\ UNCHANGED <<menuVars, dead, ink, surface, current, flag, kernelVars>>
      /\ Calm \/ Disturb
  BY DEF Sync, Return, Assign, At, inkVars, flipVars
<1>2. Head(todo[t]) \in Calls
  BY <1>1, RunningTypes
<1>3. PICK calls \in Seq(Calls) : Continue(t, calls)
  <2>1. CASE Return(t)
    <3>1. PICK s : /\ s = CASE backend = "fbdev" -> Other(current) [] backend = "memory" -> "b" [] OTHER -> current
                   /\ Continue(t, << <<"assign", s>> >>)
      BY <2>1 DEF Return
    <3>2. s \in {Other(current), "b", current}
      BY <3>1
    <3>3. s \in Surfaces
      BY <3>2, OtherTypes DEF ScreenTypeOK, TypeOK, Surfaces
    <3>4. QED
      BY <3>1, <3>3, FlipCalls
  <2>2. CASE Sync(t) \/ Assign(t)
    BY <2>2, FlipCalls DEF Sync, Assign
  <2>3. QED
    BY <2>1, <2>2
<1>4. /\ todo' \in [Threads -> Seq(Calls)] /\ \A u \in Threads : todo'[u] \in Seq(Calls)
      /\ disturbed' \in BOOLEAN /\ calm' \in -1..2 /\ hardware = Unknown
  BY <1>1, <1>3, CallStep
<1>5. gr_draw' \in Surfaces \cup {Null} /\ fence' \subseteq Surfaces
  <2>1. CASE Assign(t)
    <3>1. gr_draw' \in Surfaces /\ UNCHANGED fence
      BY <1>2, <2>1, ArgTypes DEF Assign, At, Arg, flipVars
    <3>2. QED
      BY <3>1 DEF ScreenTypeOK, TypeOK
  <2>2. CASE Sync(t)
    BY <2>2 DEF Sync, inkVars, ScreenTypeOK, TypeOK
  <2>3. CASE Return(t)
    BY <2>3 DEF Return, inkVars, flipVars, ScreenTypeOK, TypeOK
  <2>4. QED
    BY <2>1, <2>2, <2>3
<1>6. QED
  BY <1>1, <1>4, <1>5 DEF ScreenTypeOK, TypeOK, menuVars, kernelVars

LEMMA BackendTypes ==
  \A h : Backend(h) \in {"adf", "drm", "crash", "none", "memory", "fbdev"}
  BY DEF Backend, FbdevBackend

LEMMA GrInitTypes == ScreenTypeOK /\ GrInit => ScreenTypeOK'
<1> SUFFICES ASSUME ScreenTypeOK, GrInit PROVE ScreenTypeOK'
  OBVIOUS
<1>1. PICK b, u, o : /\ b \in {"adf", "drm", "crash", "none", "memory", "fbdev"}
                    /\ o \in BOOLEAN /\ (o \/ b = "adf") /\ Chosen(b, u, o)
  BY BackendTypes DEF GrInit
<1>2. hardware' = Unknown
  BY DEF GrInit
<1>3. /\ backend' \in {"none", "adf", "drm", "fbdev", "memory"}
      /\ dead' \in {"monitor", "no"}
      /\ gr_draw' \in {"a", "b", Null}
      /\ current' \in {"a", "b"} /\ fence' \in {{"a"}, {}}
      /\ shown' \in {"a", "b", Null}
  BY <1>1 DEF Chosen
<1>4. /\ UNCHANGED <<menu, version, ink, surface, flag, events>>
      /\ UNCHANGED <<disturbed, calm>> \/ (disturbed' = TRUE /\ calm' = -1)
  BY <1>1 DEF Chosen, history
<1>5. pending' \in Seq(Surfaces \X Owners) /\ (backend' = "drm" => Len(pending') <= 1)
  <2>1. PICK p : p = <<"a", "none">>
    OBVIOUS
  <2>2. p \in Surfaces \X Owners
    BY <2>1 DEF Surfaces, Owners
  <2>3. <<p>> \in Seq(Surfaces \X Owners) /\ Len(<<p>>) = 1 /\ <<>> \in Seq(Surfaces \X Owners)
    BY <2>2
  <2>4. pending' = <<p>> \/ pending' = <<>>
    BY <1>1, <2>1 DEF Chosen
  <2>5. CASE pending' = <<p>>
    BY <2>3, <2>5
  <2>6. CASE pending' = <<>>
    <3>1. Len(pending') = 0
      BY <2>6
    <3>2. QED
      BY <2>3, <2>6, <3>1
  <2>7. QED
    BY <2>4, <2>5, <2>6
<1>6. todo' \in [Threads -> Seq(Calls)]
  <2>1. PICK calls \in Seq(Calls) : todo' = [todo EXCEPT !["main"] = calls]
    BY <1>1, RoutineTypes, FlipCalls DEF Chosen
  <2>2. QED
    BY <2>1 DEF ScreenTypeOK
<1>7. disturbed' \in BOOLEAN /\ calm' \in -1..2
  <2>1. disturbed \in BOOLEAN /\ calm \in -1..2
    BY DEF ScreenTypeOK, TypeOK
  <2>2. CASE UNCHANGED <<disturbed, calm>>
    BY <2>1, <2>2
  <2>3. CASE disturbed' = TRUE /\ calm' = -1
    BY <2>3
  <2>4. QED
    BY <1>4, <2>2, <2>3
<1>8. QED
  BY <1>2, <1>3, <1>4, <1>5, <1>6, <1>7 DEF ScreenTypeOK, TypeOK, Surfaces

LEMMA RefreshTypes == ScreenTypeOK /\ Refresh => ScreenTypeOK'
<1> SUFFICES ASSUME ScreenTypeOK, Refresh PROVE ScreenTypeOK'
  OBVIOUS
<1>1. /\ pending # <<>> /\ pending' = Tail(pending) /\ shown' = Head(pending)[1]
      /\ events' \in {Append(events, Head(pending)[2]), events}
      /\ UNCHANGED <<menuVars, todo, dead, inkVars, flipVars, history>>
  BY DEF Refresh
<1>2. hardware = Unknown
  BY <1>1 DEF ScreenTypeOK, Untouched
<1>3. /\ pending \in Seq(Surfaces \X Owners) /\ events \in Seq(Owners)
      /\ (backend = "drm" => Len(pending) <= 1)
  BY DEF ScreenTypeOK, TypeOK
<1>4. /\ Head(pending) \in Surfaces \X Owners /\ pending' \in Seq(Surfaces \X Owners)
      /\ Len(pending') <= Len(pending) /\ Len(pending') \in Nat /\ Len(pending) \in Nat
  BY <1>1, <1>3
<1>5. shown' \in Surfaces /\ events' \in Seq(Owners)
  <2>1. PICK s, o : s = Head(pending)[1] /\ o = Head(pending)[2]
    OBVIOUS
  <2>2. s \in Surfaces /\ o \in Owners
    BY <1>4, <2>1
  <2>3. Append(events, o) \in Seq(Owners)
    BY <1>3, <2>2
  <2>4. QED
    BY <1>1, <1>3, <2>1, <2>2, <2>3
<1>6. backend = "drm" => Len(pending') <= 1
  BY <1>3, <1>4
<1>7. QED
  BY <1>1, <1>2, <1>4, <1>5, <1>6
     DEF ScreenTypeOK, TypeOK, menuVars, inkVars, flipVars, history

(* sighup_handler(), and the main thread at the start of a routine.        *)
LEMMA RoutineBegins == ScreenTypeOK /\ (Sighup \/ Redraw \/ UiExit) => ScreenTypeOK'
<1> SUFFICES ASSUME ScreenTypeOK, Sighup \/ Redraw \/ UiExit PROVE ScreenTypeOK'
  OBVIOUS
<1>1. UNCHANGED <<hardware, backend, dead, inkVars, flipVars, shown>>
  BY DEF Sighup, Redraw, UiExit, kernelVars
<1>2. hardware = Unknown
  BY DEF Sighup, Redraw, UiExit, ScreenTypeOK, Untouched
<1>3. version' \in 1..MaxVersion /\ menu' \in BOOLEAN
  <2>1. /\ version \in 1..MaxVersion /\ MaxVersion \in Nat /\ menu \in BOOLEAN
    BY DisplayAssumption DEF ScreenTypeOK, TypeOK
  <2>2. version' = version \/ (version < MaxVersion /\ version' = version + 1)
    BY DEF Sighup, Redraw, UiExit
  <2>3. menu' = menu \/ menu' = FALSE
    BY DEF Sighup, Redraw, UiExit
  <2>4. version' \in 1..MaxVersion
    BY <2>1, <2>2
  <2>5. menu' \in BOOLEAN
    BY <2>1, <2>3, Zenon
  <2>6. QED
    BY <2>4, <2>5
<1>4. todo' \in [Threads -> Seq(Calls)]
  <2>1. CASE Sighup
    <3>1. PICK i \in BOOLEAN :
            /\ i => todo["main"] # <<>>
            /\ todo' = [main |-> IF i THEN Tail(todo["main"]) ELSE todo["main"],
                       hup |-> IF menu THEN Render ELSE <<>>]
      BY <2>1 DEF Sighup
    <3>2. PICK p : p = IF i THEN Tail(todo["main"]) ELSE todo["main"]
      OBVIOUS
    <3>3. PICK q : q = IF menu THEN Render ELSE <<>>
      OBVIOUS
    <3>4. p \in Seq(Calls)
      <4>1. todo["main"] \in Seq(Calls)
        BY DEF ScreenTypeOK, Threads
      <4>2. i => Tail(todo["main"]) \in Seq(Calls)
        BY <3>1, <4>1
      <4>3. QED
        BY <3>2, <4>1, <4>2
    <3>5. q \in Seq(Calls)
      BY <3>3, RoutineTypes, FlipCalls
    <3>6. todo' = [main |-> p, hup |-> q]
      BY <3>1, <3>2, <3>3
    <3>7. QED
      BY <3>4, <3>5, <3>6 DEF Threads
  <2>2. CASE Redraw \/ UiExit
    <3>1. PICK calls \in Seq(Calls) : todo' = [todo EXCEPT !["main"] = calls]
      BY <2>2, RoutineTypes DEF Redraw, UiExit
    <3>2. QED
      BY <3>1 DEF ScreenTypeOK
  <2>3. QED
    BY <2>1, <2>2
<1>5. /\ pending' \in Seq(Surfaces \X Owners) /\ (backend = "drm" => Len(pending') <= 1)
      /\ events' \in Seq(Owners)
  <2>1. pending' \in {pending, OrphanedFlips(pending)} /\ events' \in {events, Orphaned(events)}
    BY DEF Sighup, Redraw, UiExit, kernelVars
  <2>2. /\ pending \in Seq(Surfaces \X Owners) /\ (backend = "drm" => Len(pending) <= 1)
        /\ events \in Seq(Owners)
    BY DEF ScreenTypeOK, TypeOK
  <2>3. /\ OrphanedFlips(pending) \in Seq(Surfaces \X Owners)
        /\ Len(OrphanedFlips(pending)) = Len(pending)
    <3>1. ASSUME NEW i \in DOMAIN pending
          PROVE  (IF pending[i][2] = "main" THEN <<pending[i][1], "gone">> ELSE pending[i])
                   \in Surfaces \X Owners
      <4>1. pending[i] \in Surfaces \X Owners
        BY <2>2
      <4>2. "gone" \in Owners
        BY DEF Owners
      <4>3. QED
        BY <4>1, <4>2
    <3>2. DOMAIN pending = 1..Len(pending) /\ Len(pending) \in Nat
      BY <2>2
    <3>3. OrphanedFlips(pending) \in [1..Len(pending) -> Surfaces \X Owners]
      BY <3>1, <3>2 DEF OrphanedFlips
    <3>4. QED
      BY <3>2, <3>3
  <2>4. Orphaned(events) \in Seq(Owners)
    <3>1. DOMAIN events = 1..Len(events) /\ Len(events) \in Nat /\ \A i \in DOMAIN events : events[i] \in Owners
      BY <2>2
    <3>2. Orphaned(events) \in [1..Len(events) -> Owners]
      BY <3>1 DEF Orphaned, Owners
    <3>3. QED
      BY <3>1, <3>2
  <2>5. QED
    BY <2>1, <2>2, <2>3, <2>4
<1>6. disturbed' \in BOOLEAN /\ calm' \in -1..2
  <2>1. (disturbed' = disturbed /\ calm' = calm) \/ (disturbed' = TRUE /\ calm' = -1)
    BY DEF Sighup, Redraw, UiExit, history
  <2>2. disturbed \in BOOLEAN /\ calm \in -1..2
    BY DEF ScreenTypeOK, TypeOK
  <2>3. -1 \in -1..2
    OBVIOUS
  <2>4. QED
    BY <2>1, <2>2, <2>3, Zenon
<1>7. QED
  BY <1>1, <1>2, <1>3, <1>4, <1>5, <1>6 DEF ScreenTypeOK, TypeOK, inkVars, flipVars

LEMMA ScreenTypeStutter == ScreenTypeOK /\ UNCHANGED vars => ScreenTypeOK'
  BY DEF ScreenTypeOK, TypeOK, Untouched, vars, menuVars, inkVars, flipVars, kernelVars, history

LEMMA ScreenTypeStep == ScreenTypeOK /\ [Next]_vars => ScreenTypeOK'
  BY ScreenTypeStutter, GrInitTypes, FindFontTypes, SwitchMenuTypes, GrExitTypes, DrawingTypes,
     PageFlipTypes, PollTypes, HandleEventTypes, TurnTypes, SwapTypes, SyncTypes,
     RefreshTypes, RoutineBegins DEF Next, Call

(* Every variable of the screen keeps to its type, and no second flip is   *)
(* ever pending for the DRM backend, whatever disturbs Flip()              *)
(* (graphics_drm.cpp:452-493).                                             *)
THEOREM ScreenTypesCorrect == Spec => []TypeOK
<1>1. ScreenTypeOK => TypeOK
  BY DEF ScreenTypeOK
<1>2. QED
  BY ScreenTypeInit, ScreenTypeStep, <1>1, PTL DEF Spec

-----------------------------------------------------------------------------
(* The double buffers, as long as nothing disturbs them.                   *)

Blanked == surface = [s \in Surfaces |-> Blank]

(* The backend's own account of the surface that is shown.                 *)
Following ==
  /\ backend \in {"drm", "adf"} => current = Other(shown)
  /\ backend = "fbdev" => current = shown
  /\ backend = "memory" => shown = "a"
  /\ backend = "adf" => shown \in fence

Quiet == pending = <<>> /\ events = <<>> /\ shown \in Surfaces

(* Drawing goes to the surface that is not shown.                          *)
Ready == Quiet /\ Following /\ gr_draw = Other(shown)

(* The ADF backend posts a surface before the first flip.                  *)
Starting ==
  /\ backend = "adf" /\ shown = Null /\ pending = << <<"a", "none">> >> /\ events = <<>>
  /\ gr_draw = "b" /\ current = "b" /\ fence = {"a"} /\ Blanked

(* A page flip of t is pending, or complete and not yet noticed.           *)
Polling(t) ==
  /\ backend = "drm" /\ gr_draw = current /\ current \in Surfaces
  /\ \/ pending = << <<current, t>> >> /\ events = <<>> /\ shown = Other(current)
     \/ pending = <<>> /\ events = <<t>> /\ shown = current

(* Surface s has been posted, and what was posted before is on its way.    *)
Posted(s) ==
  /\ backend = "adf" /\ fence = Surfaces /\ events = <<>> /\ s \in Surfaces
  /\ \/ pending = << <<s, "none">> >> /\ shown = Other(s)
     \/ pending = <<>> /\ shown = s
     \/ /\ pending = << <<"a", "none">>, <<"b", "none">> >>
        /\ s = "b" /\ shown = Null /\ Blanked

Turning ==
  /\ gr_draw = current
  /\ \/ backend = "drm" /\ Quiet /\ shown = current
     \/ Posted(current)

Syncing(s) == current = s /\ gr_draw = Other(s) /\ Posted(Other(s))

PollCall   == <<"poll", "">>
HandleCall == <<"handle", "">>
TurnCall   == <<"turn", "">>
ReturnCall == <<"return", "">>
SyncCall(s)   == <<"sync", s>>
AssignCall(s) == <<"assign", s>>

LEMMA FlipCallFacts ==
  /\ PollCall \in Calls /\ PollCall[1] = "poll"
  /\ HandleCall \in Calls /\ HandleCall[1] = "handle"
  /\ TurnCall \in Calls /\ TurnCall[1] = "turn"
  /\ ReturnCall \in Calls /\ ReturnCall[1] = "return"
  /\ \A s \in Surfaces : /\ SyncCall(s) \in Calls /\ SyncCall(s)[1] = "sync" /\ SyncCall(s)[2] = s
                        /\ AssignCall(s) \in Calls /\ AssignCall(s)[1] = "assign"
                        /\ AssignCall(s)[2] = s
  BY CallTypes DEF PollCall, HandleCall, TurnCall, ReturnCall, SyncCall, AssignCall

(* Where a thread is in gr_flip(), what it has still to do there, and the  *)
(* rest r of its routine.                                                  *)
Stage(t, q, r) ==
  \/ q = r /\ Ready
  \/ q = r /\ r # <<>> /\ Head(r)[1] = "flip" /\ Starting
  \/ q = Cons(PollCall, Cons(TurnCall, Cons(ReturnCall, r))) /\ Polling(t)
  \/ q = Cons(HandleCall, Cons(TurnCall, Cons(ReturnCall, r))) /\ Polling(t) /\ events # <<>>
  \/ q = Cons(TurnCall, Cons(ReturnCall, r)) /\ Turning
  \/ \E s \in Surfaces : q = Cons(SyncCall(s), Cons(ReturnCall, r)) /\ Syncing(s)
  \/ q = Cons(ReturnCall, r) /\ Quiet /\ Following
  \/ q = Cons(AssignCall(Other(shown)), r) /\ Quiet /\ Following

FlipInv ==
  ~disturbed /\ backend # "none" =>
    \E t \in Threads : /\ \A u \in Threads \ {t} : todo[u] = <<>>
                      /\ \E r \in Rest : Stage(t, todo[t], r)

(* Nothing is disturbed, and the thread u is about to make a call.         *)
Undisturbed(u) ==
  /\ ScreenTypeOK /\ FlipInv /\ ~disturbed /\ ~disturbed' /\ backend # "none"
  /\ UNCHANGED <<hardware, backend>> /\ u \in Threads /\ Runs(u)

LEMMA AtCall ==
  ASSUME NEW t \in Threads, Undisturbed(t)
  PROVE  /\ \A u \in Threads \ {t} : todo[u] = <<>>
         /\ todo[t] # <<>> /\ todo[t] \in Seq(Calls) /\ hardware = Unknown
         /\ \E r \in Rest : Stage(t, todo[t], r)
<1>1. PICK u \in Threads : /\ \A v \in Threads \ {u} : todo[v] = <<>>
                          /\ \E r \in Rest : Stage(u, todo[u], r)
  BY DEF Undisturbed, FlipInv
<1>2. todo[t] # <<>> /\ todo[t] \in Seq(Calls) /\ hardware = Unknown
  BY RunningTypes DEF Undisturbed
<1>3. u = t
  BY <1>1, <1>2
<1>4. QED
  BY <1>1, <1>2, <1>3

LEMMA NextCall ==
  ASSUME NEW c \in Calls, NEW q \in Seq(Calls), NEW l, l = Cons(c, q)
  PROVE  Head(l) = c /\ Tail(l) = q
  BY ConsFacts

(* What the next call says of the stage.                                   *)
LEMMA StageOf ==
  ASSUME NEW t \in Threads, NEW r \in Rest, todo[t] # <<>>, Stage(t, todo[t], r),
         shown \in Surfaces \cup {Null}
  PROVE  LET h == Head(todo[t])[1]
             rest == Tail(todo[t])
         IN  /\ h \notin {"poll", "handle", "turn", "sync", "return", "assign"} =>
                   rest \in Rest /\ todo[t] \in Rest /\ (Ready \/ (h = "flip" /\ Starting))
             /\ h = "poll" => rest = Cons(TurnCall, Cons(ReturnCall, r)) /\ Polling(t)
             /\ h = "handle" => rest = Cons(TurnCall, Cons(ReturnCall, r)) /\ Polling(t) /\ events # <<>>
             /\ h = "turn" => rest = Cons(ReturnCall, r) /\ Turning
             /\ h = "sync" => /\ rest = Cons(ReturnCall, r) /\ Syncing(Head(todo[t])[2])
                              /\ Head(todo[t])[2] \in Surfaces
             /\ h = "return" => rest = r /\ Quiet /\ Following
             /\ h = "assign" => rest = r /\ Quiet /\ Following /\ Head(todo[t])[2] = Other(shown)
<1> DEFINE h == Head(todo[t])
           inner == {"poll", "handle", "turn", "sync", "return", "assign"}
<1>1. \A c \in Calls, q \in Seq(Calls) :
        Cons(c, q) \in Seq(Calls) /\ Head(Cons(c, q)) = c /\ Tail(Cons(c, q)) = q
  BY ConsFacts
<1>2. /\ r \in Seq(Calls) /\ Cons(ReturnCall, r) \in Seq(Calls)
      /\ Cons(TurnCall, Cons(ReturnCall, r)) \in Seq(Calls)
  BY <1>1, RestTypes, FlipCallFacts
<1>3. CASE todo[t] = r /\ (Ready \/ (r # <<>> /\ Head(r)[1] = "flip" /\ Starting))
  <2>1. h \in Outer /\ Tail(todo[t]) \in Rest
    BY <1>3 DEF Rest
  <2>2. h[1] \notin inner
    BY <2>1 DEF Outer
  <2>3. Ready \/ (h[1] = "flip" /\ Starting)
    BY <1>3
  <2>4. QED
    BY <1>3, <2>1, <2>2, <2>3
<1>4. CASE todo[t] = Cons(PollCall, Cons(TurnCall, Cons(ReturnCall, r))) /\ Polling(t)
  <2>1. PICK q : q = Cons(TurnCall, Cons(ReturnCall, r))
    OBVIOUS
  <2>2. h = PollCall /\ Tail(todo[t]) = q
    BY <1>2, <1>4, <2>1, FlipCallFacts, NextCall
  <2>3. h[1] = "poll"
    BY <2>2, FlipCallFacts, Zenon
  <2>4. QED
    BY <1>4, <2>1, <2>2, <2>3
<1>5. CASE todo[t] = Cons(HandleCall, Cons(TurnCall, Cons(ReturnCall, r))) /\ Polling(t) /\ events # <<>>
  <2>1. PICK q : q = Cons(TurnCall, Cons(ReturnCall, r))
    OBVIOUS
  <2>2. h = HandleCall /\ Tail(todo[t]) = q
    BY <1>2, <1>5, <2>1, FlipCallFacts, NextCall
  <2>3. h[1] = "handle"
    BY <2>2, FlipCallFacts, Zenon
  <2>4. QED
    BY <1>5, <2>1, <2>2, <2>3
<1>6. CASE todo[t] = Cons(TurnCall, Cons(ReturnCall, r)) /\ Turning
  <2>1. PICK q : q = Cons(ReturnCall, r)
    OBVIOUS
  <2>2. h = TurnCall /\ Tail(todo[t]) = q
    BY <1>2, <1>6, <2>1, FlipCallFacts, NextCall
  <2>3. h[1] = "turn"
    BY <2>2, FlipCallFacts, Zenon
  <2>4. QED
    BY <1>6, <2>1, <2>2, <2>3
<1>7. CASE \E s \in Surfaces : todo[t] = Cons(SyncCall(s), Cons(ReturnCall, r)) /\ Syncing(s)
  <2>1. PICK s \in Surfaces : todo[t] = Cons(SyncCall(s), Cons(ReturnCall, r)) /\ Syncing(s)
    BY <1>7
  <2>2. h = SyncCall(s) /\ Tail(todo[t]) = Cons(ReturnCall, r)
    BY <1>2, <2>1, FlipCallFacts, NextCall
  <2>3. h[1] = "sync" /\ h[2] = s
    BY <2>2, FlipCallFacts, Zenon
  <2>4. QED
    BY <2>1, <2>2, <2>3
<1>8. CASE todo[t] = Cons(ReturnCall, r) /\ Quiet /\ Following
  <2>1. h = ReturnCall /\ Tail(todo[t]) = r
    BY <1>2, <1>8, FlipCallFacts, NextCall
  <2>2. h[1] = "return"
    BY <2>1, FlipCallFacts, Zenon
  <2>3. QED
    BY <1>8, <2>1, <2>2
<1>9. CASE todo[t] = Cons(AssignCall(Other(shown)), r) /\ Quiet /\ Following
  <2>1. Other(shown) \in Surfaces
    BY <1>9, OtherTypes DEF Quiet
  <2>2. h = AssignCall(Other(shown)) /\ Tail(todo[t]) = r
    BY <1>2, <1>9, <2>1, FlipCallFacts, NextCall
  <2>3. h[1] = "assign" /\ h[2] = Other(shown)
    BY <2>1, <2>2, FlipCallFacts, Zenon
  <2>4. QED
    BY <1>9, <2>2, <2>3
<1>10. QED
  BY <1>3, <1>4, <1>5, <1>6, <1>7, <1>8, <1>9 DEF Stage

-----------------------------------------------------------------------------
(* The steps, seen through the refinement mapping.                         *)

Canvas  == Content(gr_draw)
Screen  == Content(shown)
Posting == IF pending = <<>> THEN Screen ELSE surface[pending[Len(pending)][1]]
Trusted == ~disturbed /\ (hardware # Unknown \/ backend # "none")

Drawing  == Posting = Screen /\ Posting' = Posting /\ Screen' = Screen
Flips    == Posting' = Canvas /\ Screen' \in {Screen, Canvas} /\ Canvas' = Canvas
Catching == Screen' = Posting /\ Canvas' = Canvas /\ Posting' = Posting
Unseen   == Canvas' = Canvas /\ Posting' = Posting /\ Screen' = Screen

Simulates ==
  Trusted' = FALSE \/ (Trusted' = Trusted /\ (Drawing \/ Flips \/ Catching \/ Unseen))

LEMMA ContractStep == Simulates => [Contract!Next]_(Contract!abstractVars)
<1> SUFFICES ASSUME Simulates PROVE [Contract!Next]_(Contract!abstractVars)
  OBVIOUS
<1>1. CASE Trusted' = FALSE
  BY <1>1 DEF Trusted, Contract!Next, Contract!GiveUp
<1>2. CASE Trusted' = Trusted /\ Drawing
  BY <1>2 DEF Drawing, Trusted, Canvas, Posting, Screen, Contract!Next, Contract!Draw
<1>3. CASE Trusted' = Trusted /\ Flips
  BY <1>3 DEF Flips, Trusted, Canvas, Posting, Screen, Contract!Next, Contract!Flip
<1>4. CASE Trusted' = Trusted /\ Catching
  BY <1>4 DEF Catching, Trusted, Canvas, Posting, Screen, Contract!Next, Contract!Refresh
<1>5. CASE Trusted' = Trusted /\ Unseen
  BY <1>5 DEF Unseen, Trusted, Canvas, Posting, Screen, Contract!abstractVars
<1>6. QED
  BY <1>1, <1>2, <1>3, <1>4, <1>5 DEF Simulates

LEMMA ContractInit == Init => FlipInv /\ Contract!Init
<1> SUFFICES ASSUME Init PROVE FlipInv /\ Contract!Init
  OBVIOUS
<1>1. /\ backend = "none" /\ pending = <<>> /\ shown = Null /\ disturbed = FALSE
      /\ hardware # Unknown
  BY DisplayAssumption DEF Init
<1>2. FlipInv
  BY <1>1 DEF FlipInv
<1>3. Contract!Init
  BY <1>1 DEF Contract!Init
<1>4. QED
  BY <1>2, <1>3

(* Nothing that can be seen changes.                                       *)
LEMMA UnseenStep ==
  UNCHANGED <<hardware, backend, disturbed, surface, gr_draw, shown, pending>> => Simulates
  BY DEF Simulates, Unseen, Trusted, Canvas, Posting, Screen, Content

(* A call of t leaves it at one of the stages.                             *)
LEMMA StageKept ==
  ASSUME NEW t \in Threads, Undisturbed(t), NEW calls \in Seq(Calls), Continue(t, calls),
         NEW r \in Rest, Stage(t, todo[t], r)'
  PROVE  FlipInv'
<1>1. todo \in [Threads -> Seq(Calls)] /\ todo[t] # <<>> /\ \A u \in Threads \ {t} : todo[u] = <<>>
  BY AtCall DEF Undisturbed, ScreenTypeOK
<1>2. \A u \in Threads \ {t} : todo'[u] = <<>>
  BY <1>1, ContinueTypes
<1>3. QED
  BY <1>2 DEF FlipInv, Stage

(* What a call of t finds, and what it leaves to be done.                  *)
LEMMA CallFacts ==
  ASSUME NEW t \in Threads, Undisturbed(t), NEW calls \in Seq(Calls), Continue(t, calls)
  PROVE  /\ todo[t] # <<>> /\ shown \in Surfaces \cup {Null} /\ current \in Surfaces
         /\ Head(todo[t]) \in Calls /\ Tail(todo[t]) \in Seq(Calls)
         /\ todo'[t] = calls \o Tail(todo[t])
         /\ \E r \in Rest : Stage(t, todo[t], r)
<1>1. /\ todo[t] # <<>> /\ shown \in Surfaces \cup {Null} /\ current \in Surfaces
      /\ todo \in [Threads -> Seq(Calls)]
  BY AtCall DEF Undisturbed, ScreenTypeOK, TypeOK
<1>2. todo'[t] = calls \o Tail(todo[t])
  BY <1>1, ContinueTypes
<1>3. todo[t] \in Seq(Calls)
  BY <1>1
<1>4. Head(todo[t]) \in Calls /\ Tail(todo[t]) \in Seq(Calls)
  BY <1>1, <1>3
<1>5. QED
  BY <1>1, <1>2, <1>4, AtCall

(* A call that stays outside gr_flip() finds the surfaces settled.         *)
LEMMA PlainCall ==
  ASSUME NEW t \in Threads, Undisturbed(t), Continue(t, <<>>),
         Head(todo[t])[1] \notin {"flip", "poll", "handle", "turn", "sync", "return", "assign"},
         UNCHANGED <<gr_draw, current, fence, kernelVars>>
  PROVE  Ready /\ FlipInv'
<1>1. <<>> \in Seq(Calls)
  OBVIOUS
<1>2. PICK r \in Rest : Stage(t, todo[t], r)
  BY <1>1, CallFacts
<1>3. Ready /\ Tail(todo[t]) \in Rest
  BY <1>1, <1>2, CallFacts, StageOf
<1>4. PICK q \in Rest : q = Tail(todo[t])
  BY <1>3
<1>5. todo'[t] = q
  <2>1. todo'[t] = <<>> \o Tail(todo[t]) /\ Tail(todo[t]) \in Seq(Calls)
    BY <1>1, CallFacts
  <2>2. QED
    BY <1>4, <2>1
<1>6. Ready'
  BY <1>3 DEF Ready, Quiet, Following, kernelVars, Undisturbed, Other
<1>7. Stage(t, todo[t], q)'
  BY <1>5, <1>6 DEF Stage
<1>8. QED
  BY <1>1, <1>3, <1>4, <1>6, <1>7, StageKept

LEMMA ColorFlips ==
  ASSUME NEW t \in Threads, Undisturbed(t), GrColor(t)
  PROVE  FlipInv' /\ Simulates
<1>1. /\ Continue(t, <<>>) /\ Head(todo[t])[1] = "color"
      /\ UNCHANGED <<gr_draw, surface, current, fence, kernelVars>>
  BY DEF GrColor, At, flipVars
<1>2. FlipInv'
  BY <1>1, PlainCall
<1>3. UNCHANGED <<hardware, backend, disturbed>>
  BY DEF GrColor, Calm, menuVars
<1>4. Simulates
  BY <1>1, <1>3, UnseenStep DEF kernelVars
<1>5. QED
  BY <1>2, <1>4

(* gr_clear(), gr_fill() and gr_text() draw on the surface not shown.      *)
LEMMA PaintFlips ==
  ASSUME NEW t \in Threads, Undisturbed(t), NEW content, Paint(t, content),
         Head(todo[t])[1] \in {"clear", "draw"}
  PROVE  FlipInv' /\ Simulates
<1>1. Ready
  <2>1. PICK r \in Rest : Stage(t, todo[t], r)
    BY AtCall
  <2>2. todo[t] # <<>> /\ shown \in Surfaces \cup {Null}
    BY AtCall DEF Undisturbed, ScreenTypeOK, TypeOK
  <2>3. QED
    BY <2>1, <2>2, StageOf
<1>2. gr_draw \in Surfaces /\ shown \in Surfaces /\ gr_draw # shown /\ pending = <<>>
  BY <1>1, OtherTypes DEF Ready, Quiet
<1>3. /\ surface' = [surface EXCEPT ![gr_draw] = content] /\ Continue(t, <<>>)
      /\ UNCHANGED <<gr_draw, current, fence, kernelVars>>
  <2>1. gr_draw # Null
    BY <1>2 DEF Surfaces, Null
  <2>2. QED
    BY <2>1 DEF Paint, flipVars
<1>4. FlipInv'
  BY <1>3, PlainCall
<1>5. Drawing
  <2>1. surface'[shown] = surface[shown] /\ shown # Null
    BY <1>2, <1>3 DEF Undisturbed, ScreenTypeOK, Surfaces, Null
  <2>2. Posting = surface[shown] /\ Screen = surface[shown]
    BY <1>2, <2>1 DEF Posting, Screen, Content
  <2>3. Posting' = surface'[shown] /\ Screen' = surface'[shown]
    BY <1>2, <1>3, <2>1 DEF Posting, Screen, Content, kernelVars
  <2>4. QED
    BY <2>1, <2>2, <2>3 DEF Drawing
<1>6. UNCHANGED <<hardware, backend, disturbed>>
  BY DEF Paint, Calm, menuVars
<1>7. Simulates
  BY <1>5, <1>6 DEF Simulates, Trusted
<1>8. QED
  BY <1>4, <1>7

LEMMA DrawFlips ==
  ASSUME NEW t \in Threads, Undisturbed(t), GrClear(t) \/ GrDraw(t)
  PROVE  FlipInv' /\ Simulates
<1>1. Head(todo[t])[1] \in {"clear", "draw"}
  BY DEF GrClear, GrDraw, At
<1>2. PICK content : Paint(t, content)
  BY DEF GrClear, GrDraw
<1>3. QED
  BY <1>1, <1>2, PaintFlips

LEMMA StartFlips ==
  ASSUME Undisturbed("main"), FindFont \/ SwitchMenu
  PROVE  FlipInv' /\ Simulates
<1>1. /\ UNCHANGED <<hardware, backend, disturbed, surface, gr_draw, current, fence, kernelVars>>
      /\ Head(todo["main"])[1] \in {"font", "menu"} /\ "main" \in Threads
  BY DEF FindFont, SwitchMenu, Calm, At, menuVars, inkVars, flipVars, Threads
<1>2. Simulates
  BY <1>1, UnseenStep DEF kernelVars
<1>3. CASE Continue("main", <<>>)
  <2>1. FlipInv'
    BY <1>1, <1>3, PlainCall
  <2>2. QED
    BY <1>2, <2>1
<1>4. CASE UNCHANGED todo
  <2>1. FlipInv /\ ~disturbed /\ backend # "none"
    BY DEF Undisturbed
  <2>2. PICK u \in Threads : /\ \A v \in Threads \ {u} : todo[v] = <<>>
                            /\ \E r \in Rest : Stage(u, todo[u], r)
    BY <2>1 DEF FlipInv
  <2>3. PICK r \in Rest : Stage(u, todo[u], r)
    BY <2>2
  <2>4. Stage(u, todo[u], r)'
    BY <1>1, <1>4, <2>3 DEF Stage, Ready, Starting, Polling, Turning, Posted, Syncing, Quiet, Following, Blanked, Other, kernelVars
  <2>5. QED
    BY <1>2, <1>4, <2>2, <2>4 DEF FlipInv, Stage
<1>5. QED
  BY <1>3, <1>4 DEF FindFont, SwitchMenu, Die

LEMMA FlipQueues ==
  ASSUME NEW q \in Seq(Calls)
  PROVE  /\ <<PollCall, TurnCall, ReturnCall>> \o q = Cons(PollCall, Cons(TurnCall, Cons(ReturnCall, q)))
         /\ <<TurnCall, ReturnCall>> \o q = Cons(TurnCall, Cons(ReturnCall, q))
         /\ <<HandleCall>> \o q = Cons(HandleCall, q) /\ <<ReturnCall>> \o q = Cons(ReturnCall, q)
         /\ \A s \in Surfaces : /\ <<SyncCall(s)>> \o q = Cons(SyncCall(s), q)
                               /\ <<AssignCall(s)>> \o q = Cons(AssignCall(s), q)
<1>1. ASSUME NEW x \in Calls, NEW y \in Calls, NEW z \in Calls
      PROVE  /\ <<x, y, z>> \o q = Cons(x, Cons(y, Cons(z, q)))
             /\ <<x, y>> \o q = Cons(x, Cons(y, q))
  BY ConsCat, ZenonT(60)
<1>2. /\ <<PollCall, TurnCall, ReturnCall>> \o q = Cons(PollCall, Cons(TurnCall, Cons(ReturnCall, q)))
      /\ <<TurnCall, ReturnCall>> \o q = Cons(TurnCall, Cons(ReturnCall, q))
  <2>1. PollCall \in Calls /\ TurnCall \in Calls /\ ReturnCall \in Calls
    BY FlipCallFacts
  <2>2. QED
    BY <1>1, <2>1
<1>3. QED
  BY <1>2 DEF Cons

(* MinuiBackendDrm::Flip(), from the page flip to the turn of the buffers. *)
LEMMA PageFlipFlips ==
  ASSUME NEW t \in Threads, Undisturbed(t), PageFlip(t)
  PROVE  FlipInv' /\ Simulates
<1>1. /\ pending' = << <<current, t>> >> /\ UNCHANGED gr_draw
      /\ Continue(t, << <<"poll", "">>, <<"turn", "">>, <<"return", "">> >>)
      /\ UNCHANGED disturbed
  BY DEF PageFlip, Calm, Disturb, Undisturbed
<1>2. /\ backend = "drm" /\ Head(todo[t])[1] = "flip"
      /\ UNCHANGED <<surface, current, fence, shown, events>>
  BY DEF PageFlip, Flipping, At
<1>3. PICK r \in Rest : Stage(t, todo[t], r)
  BY AtCall
<1>4. /\ todo[t] # <<>> /\ shown \in Surfaces \cup {Null} /\ Tail(todo[t]) \in Seq(Calls)
      /\ todo'[t] = << <<"poll", "">>, <<"turn", "">>, <<"return", "">> >> \o Tail(todo[t])
  BY <1>1, FlipCalls, CallFacts
<1>5. PICK q \in Rest : q = Tail(todo[t]) /\ Ready
  <2>1. Tail(todo[t]) \in Rest /\ (Ready \/ Starting)
    BY <1>2, <1>3, <1>4, StageOf
  <2>2. QED
    BY <1>2, <2>1 DEF Starting
<1>6. todo'[t] = Cons(PollCall, Cons(TurnCall, Cons(ReturnCall, q)))
  <2>1. todo'[t] = <<PollCall, TurnCall, ReturnCall>> \o q
    BY <1>4, <1>5 DEF PollCall, TurnCall, ReturnCall
  <2>2. q \in Seq(Calls)
    BY RestTypes
  <2>3. QED
    BY <2>1, <2>2, FlipQueues
<1>7. shown \in Surfaces /\ current = Other(shown) /\ gr_draw = current /\ pending = <<>> /\ events = <<>>
  BY <1>2, <1>5 DEF Ready, Quiet, Following
<1>8. current \in Surfaces /\ shown = Other(current)
  BY <1>7, OtherTypes
<1>9. Polling(t)'
  BY <1>1, <1>2, <1>7, <1>8 DEF Polling, Other, Undisturbed
<1>10. Stage(t, todo[t], q)'
  BY <1>6, <1>9 DEF Stage
<1>11. FlipInv'
  BY <1>1, <1>10, FlipCalls, StageKept
<1>12. Flips
  <2>1. PICK p : p = <<current, t>>
    OBVIOUS
  <2>2. p[1] = current /\ pending' = <<p>>
    BY <1>1, <2>1
  <2>3. pending' # <<>> /\ pending'[Len(pending')] = p
    BY <2>2
  <2>4. Posting' = surface[current]
    BY <1>2, <2>2, <2>3 DEF Posting
  <2>5. Canvas = surface[current] /\ Canvas' = surface[current]
    BY <1>1, <1>2, <1>7, <1>8 DEF Canvas, Content, Surfaces, Null
  <2>6. Screen' = Screen
    BY <1>2 DEF Screen, Content
  <2>7. QED
    BY <2>4, <2>5, <2>6 DEF Flips
<1>13. Simulates
  BY <1>1, <1>2, <1>12 DEF Simulates, Trusted, Undisturbed
<1>14. QED
  BY <1>11, <1>13

LEMMA PollFlips ==
  ASSUME NEW t \in Threads, Undisturbed(t), Poll(t)
  PROVE  FlipInv' /\ Simulates
<1>1. /\ events # <<>> /\ Continue(t, << <<"handle", "">> >>) /\ Head(todo[t])[1] = "poll"
      /\ UNCHANGED <<disturbed, surface, gr_draw, current, fence, kernelVars, backend>>
  BY DEF Poll, Calm, At, inkVars, flipVars, menuVars
<1>2. PICK r \in Rest : Stage(t, todo[t], r)
  BY AtCall
<1>3. /\ todo[t] # <<>> /\ shown \in Surfaces \cup {Null}
      /\ todo'[t] = << <<"handle", "">> >> \o Tail(todo[t])
  BY <1>1, FlipCalls, CallFacts
<1>4. Tail(todo[t]) = Cons(TurnCall, Cons(ReturnCall, r)) /\ Polling(t)
  BY <1>1, <1>2, <1>3, StageOf
<1>5. todo'[t] = Cons(HandleCall, Cons(TurnCall, Cons(ReturnCall, r)))
  <2>1. PICK q : q = Cons(TurnCall, Cons(ReturnCall, r))
    OBVIOUS
  <2>2. q \in Seq(Calls)
    BY <2>1, RestTypes, FlipCallFacts, ConsFacts
  <2>3. todo'[t] = <<HandleCall>> \o q
    BY <1>3, <1>4, <2>1 DEF HandleCall
  <2>4. QED
    BY <2>1, <2>2, <2>3, FlipQueues
<1>6. Polling(t)' /\ events' # <<>>
  BY <1>1, <1>4 DEF Polling, Other, kernelVars
<1>7. Stage(t, todo[t], r)'
  BY <1>5, <1>6 DEF Stage
<1>8. FlipInv'
  BY <1>1, <1>7, FlipCalls, StageKept
<1>9. Simulates
  BY <1>1, UnseenStep DEF kernelVars, Undisturbed
<1>10. QED
  BY <1>8, <1>9

LEMMA HandleEventFlips ==
  ASSUME NEW t \in Threads, Undisturbed(t), HandleEvent(t)
  PROVE  FlipInv' /\ Simulates
<1>1. /\ events # <<>> /\ Head(todo[t])[1] = "handle" /\ events' = <<>>
      /\ flag' \in Completed(flag, events)
      /\ Continue(t, IF flag'[t] THEN << <<"poll", "">> >> ELSE <<>>)
      /\ UNCHANGED <<disturbed, surface, gr_draw, current, fence, shown, pending, backend>>
  BY DEF HandleEvent, Calm, At, inkVars, menuVars
<1>2. PICK r \in Rest : Stage(t, todo[t], r)
  BY AtCall
<1>3. todo[t] # <<>> /\ shown \in Surfaces \cup {Null} /\ current \in Surfaces
  BY AtCall DEF Undisturbed, ScreenTypeOK, TypeOK
<1>4. Tail(todo[t]) = Cons(TurnCall, Cons(ReturnCall, r)) /\ Polling(t)
  BY <1>1, <1>2, <1>3, StageOf
<1>5. /\ backend = "drm" /\ gr_draw = current /\ current \in Surfaces /\ pending = <<>>
      /\ events = <<t>> /\ shown = current
  BY <1>1, <1>4 DEF Polling
<1>6. flag'[t] = FALSE
  <2>1. \A f \in Completed(flag, events) : f[t] = FALSE
    <3>1. DOMAIN events = {1} /\ events[1] = t
      BY <1>5
    <3>2. ([u \in Threads |-> flag[u] /\ \A i \in DOMAIN events : events[i] # u])[t] = FALSE
      BY <3>1
    <3>3. QED
      BY <3>2 DEF Completed
  <2>2. QED
    BY <1>1, <2>1
<1>7. Continue(t, <<>>) /\ <<>> \in Seq(Calls)
  <2>1. (IF flag'[t] THEN << <<"poll", "">> >> ELSE <<>>) = <<>>
    BY <1>6, Zenon
  <2>2. Continue(t, IF flag'[t] THEN << <<"poll", "">> >> ELSE <<>>)
    BY <1>1, Zenon
  <2>3. Continue(t, <<>>)
    BY <2>1, <2>2, Zenon DEF Continue
  <2>4. QED
    BY <2>3
<1>8. todo'[t] = Cons(TurnCall, Cons(ReturnCall, r))
  <2>1. todo'[t] = <<>> \o Tail(todo[t]) /\ Tail(todo[t]) \in Seq(Calls)
    BY <1>7, CallFacts
  <2>2. QED
    BY <1>4, <2>1
<1>9. Turning'
  BY <1>1, <1>5 DEF Turning, Quiet
<1>10. Stage(t, todo[t], r)'
  BY <1>8, <1>9 DEF Stage
<1>11. FlipInv'
  BY <1>7, <1>10, StageKept
<1>12. Simulates
  BY <1>1, UnseenStep DEF Undisturbed
<1>13. QED
  BY <1>11, <1>12

(* MinuiBackendAdf::Flip() turns to the surface it then waits for.         *)
LEMMA TurnFlips ==
  ASSUME NEW t \in Threads, Undisturbed(t), Turn(t)
  PROVE  FlipInv' /\ Simulates
<1>1. /\ Head(todo[t])[1] = "turn" /\ current' = Other(current)
      /\ Continue(t, IF backend = "adf" THEN << <<"sync", current'>> >> ELSE <<>>)
      /\ UNCHANGED <<disturbed, backend, inkVars, fence, kernelVars>>
  BY DEF Turn, Calm, At, menuVars, Swapped
<1>2. PICK r \in Rest : Stage(t, todo[t], r)
  BY AtCall
<1>3. todo[t] # <<>> /\ shown \in Surfaces \cup {Null} /\ current \in Surfaces
  BY AtCall DEF Undisturbed, ScreenTypeOK, TypeOK
<1>4. Tail(todo[t]) = Cons(ReturnCall, r) /\ Turning
  BY <1>1, <1>2, <1>3, StageOf
<1>5. r \in Seq(Calls) /\ Cons(ReturnCall, r) \in Seq(Calls)
  BY RestTypes, FlipCallFacts, ConsFacts
<1>6. ASSUME backend = "drm"
      PROVE  FlipInv'
  <2>1. Continue(t, <<>>) /\ <<>> \in Seq(Calls)
    BY <1>1, <1>6 DEF Continue
  <2>2. todo'[t] = Cons(ReturnCall, r)
    <3>1. todo'[t] = <<>> \o Tail(todo[t])
      BY <2>1, CallFacts
    <3>2. QED
      BY <1>4, <1>5, <3>1
  <2>3. Quiet' /\ Following'
    BY <1>1, <1>3, <1>4, <1>6 DEF Turning, Posted, Quiet, Following, Other, kernelVars
  <2>4. Stage(t, todo[t], r)'
    BY <2>2, <2>3 DEF Stage
  <2>5. QED
    BY <2>1, <2>4, StageKept
<1>7. ASSUME backend = "adf"
      PROVE  FlipInv'
  <2>1. PICK s \in Surfaces : s = Other(current)
    BY <1>3, OtherTypes
  <2>2. Continue(t, <<SyncCall(s)>>) /\ <<SyncCall(s)>> \in Seq(Calls)
    BY <1>1, <1>7, <2>1, FlipCallFacts DEF Continue, SyncCall
  <2>3. todo'[t] = Cons(SyncCall(s), Cons(ReturnCall, r))
    <3>1. todo'[t] = <<SyncCall(s)>> \o Tail(todo[t])
      BY <2>2, CallFacts
    <3>2. QED
      BY <1>4, <1>5, <3>1, FlipQueues
  <2>4. current = Other(s) /\ gr_draw = Other(s) /\ Posted(Other(s))
    BY <1>3, <1>4, <1>7, <2>1, OtherTypes DEF Turning
  <2>5. Syncing(s)'
    BY <1>1, <2>1, <2>4 DEF Syncing, Posted, Blanked, inkVars, kernelVars, Other
  <2>6. Stage(t, todo[t], r)'
    BY <2>3, <2>5 DEF Stage
  <2>7. QED
    BY <2>2, <2>6, StageKept
<1>8. FlipInv'
  BY <1>4, <1>6, <1>7 DEF Turning, Posted
<1>9. Simulates
  BY <1>1, UnseenStep DEF Undisturbed, inkVars, kernelVars
<1>10. QED
  BY <1>8, <1>9

(* MinuiBackendFbdev::Flip(), with room for two screens and for one.       *)
LEMMA SwapFlips ==
  ASSUME NEW t \in Threads, Undisturbed(t), FbSwap(t) \/ FbCopy(t)
  PROVE  FlipInv' /\ Simulates
<1>1. /\ Head(todo[t])[1] = "flip" /\ backend \in {"fbdev", "memory"}
      /\ Continue(t, << <<"return", "">> >>)
      /\ UNCHANGED <<disturbed, gr_draw, pending, events, fence>>
  BY DEF FbSwap, FbCopy, Flipping, Calm, Disturb, Undisturbed, At, flipVars, kernelVars
<1>2. PICK r \in Rest : Stage(t, todo[t], r)
  BY AtCall
<1>3. /\ todo[t] # <<>> /\ shown \in Surfaces \cup {Null} /\ Tail(todo[t]) \in Seq(Calls)
      /\ todo'[t] = << <<"return", "">> >> \o Tail(todo[t])
  BY <1>1, FlipCalls, CallFacts
<1>4. PICK q \in Rest : q = Tail(todo[t]) /\ Ready
  <2>1. Tail(todo[t]) \in Rest /\ (Ready \/ Starting)
    BY <1>1, <1>2, <1>3, StageOf
  <2>2. QED
    BY <1>1, <2>1 DEF Starting
<1>5. todo'[t] = Cons(ReturnCall, q)
  <2>1. todo'[t] = <<ReturnCall>> \o q
    BY <1>3, <1>4 DEF ReturnCall
  <2>2. q \in Seq(Calls)
    BY RestTypes
  <2>3. QED
    BY <2>1, <2>2, FlipQueues
<1>6. /\ shown \in Surfaces /\ gr_draw = Other(shown) /\ pending = <<>> /\ events = <<>>
      /\ gr_draw \in Surfaces /\ gr_draw # Null /\ shown # Null
  BY <1>4, OtherTypes DEF Ready, Quiet, Surfaces, Null
<1>7. Quiet' /\ Following' /\ Flips
  <2>1. CASE FbSwap(t)
    <3>1. /\ backend = "fbdev" /\ current = shown /\ current' = Other(shown) /\ shown' = Other(shown)
          /\ UNCHANGED <<surface, backend>>
      BY <1>4, <2>1
         DEF FbSwap, Flipping, menuVars, Ready, Following, Swapped, Disturb, Undisturbed
    <3>2. Quiet' /\ Following'
      BY <1>1, <1>6, <3>1 DEF Quiet, Following
    <3>3. Flips
      BY <1>1, <1>6, <3>1 DEF Flips, Posting, Screen, Canvas, Content
    <3>4. QED
      BY <3>2, <3>3
  <2>2. CASE FbCopy(t)
    <3>1. /\ backend = "memory" /\ shown = "a" /\ shown' = "a" /\ gr_draw = "b"
          /\ surface' = [surface EXCEPT !["a"] = surface["b"]] /\ UNCHANGED <<backend, current>>
      BY <1>4, <1>6, <2>2 DEF FbCopy, Flipping, menuVars, Ready, Following, flipVars, kernelVars, Other
    <3>2. Quiet' /\ Following'
      BY <1>1, <1>6, <3>1 DEF Quiet, Following
    <3>3. surface'["a"] = surface["b"] /\ surface'["b"] = surface["b"]
      BY <3>1 DEF Undisturbed, ScreenTypeOK, Surfaces
    <3>4. Flips
      BY <1>1, <1>6, <3>1, <3>3 DEF Flips, Posting, Screen, Canvas, Content
    <3>5. QED
      BY <3>2, <3>4
  <2>3. QED
    BY <2>1, <2>2
<1>8. Stage(t, todo[t], q)'
  BY <1>5, <1>7 DEF Stage
<1>9. FlipInv'
  BY <1>1, <1>8, FlipCalls, StageKept
<1>10. Simulates
  BY <1>1, <1>7 DEF Simulates, Trusted, Undisturbed
<1>11. QED
  BY <1>9, <1>10

LEMMA Posts ==
  ASSUME NEW a, NEW p
  PROVE  /\ Append(<<>>, p) = <<p>> /\ <<p>>[Len(<<p>>)] = p /\ <<p>> # <<>>
         /\ Append(<<a>>, p) = <<a, p>> /\ <<a, p>>[Len(<<a, p>>)] = p /\ <<a, p>> # <<>>
<1>1. Append(<<>>, p) = <<p>>
  OBVIOUS
<1>2. <<p>>[Len(<<p>>)] = p /\ <<p>> # <<>>
  OBVIOUS
<1>3. Append(<<a>>, p) = <<a, p>>
  <2>1. PICK u : u = <<a>>
    OBVIOUS
  <2>2. PICK v : v = Append(u, p)
    OBVIOUS
  <2>3. u \in Seq({a, p}) /\ Len(u) = 1 /\ u[1] = a
    BY <2>1
  <2>4. v \in Seq({a, p}) /\ Len(v) = 2 /\ v[1] = a /\ v[2] = p
    <3>1. p \in {a, p}
      OBVIOUS
    <3>2. PICK S : S = {a, p}
      OBVIOUS
    <3>3. u \in Seq(S) /\ p \in S
      BY <2>3, <3>1, <3>2
    <3>4. /\ v \in Seq(S) /\ Len(v) = Len(u) + 1 /\ v[Len(u) + 1] = p
          /\ \A i \in 1..Len(u) : v[i] = u[i]
      BY <2>2, <3>3, AppendProperties
    <3>5. QED
      BY <2>3, <3>2, <3>4
  <2>5. v = <<a, p>>
    <3>1. PICK w : w = <<a, p>>
      OBVIOUS
    <3>2. w \in Seq({a, p}) /\ Len(w) = 2 /\ w[1] = a /\ w[2] = p
      BY <3>1
    <3>3. QED
      BY <2>4, <3>1, <3>2, SeqEqual
  <2>6. QED
    BY <2>1, <2>2, <2>5
<1>4. <<a, p>>[Len(<<a, p>>)] = p /\ <<a, p>> # <<>>
  OBVIOUS
<1>5. QED
  BY <1>1, <1>2, <1>3, <1>4

(* MinuiBackendAdf::Flip() posts the surface, after that of Init() or the  *)
(* one that is shown.                                                      *)
LEMMA PostFlips ==
  ASSUME NEW t \in Threads, Undisturbed(t), Post(t)
  PROVE  FlipInv' /\ Simulates
<1>1. /\ Head(todo[t])[1] = "flip" /\ backend = "adf"
      /\ Continue(t, << <<"turn", "">>, <<"return", "">> >>)
      /\ pending' = Append(pending, <<current, "none">>) /\ fence' = fence \cup {current}
      /\ UNCHANGED <<disturbed, backend, gr_draw, surface, current, shown, events>>
  BY DEF Post, Flipping, Calm, Disturb, Undisturbed, At
<1>2. PICK r \in Rest : Stage(t, todo[t], r)
  BY AtCall
<1>3. /\ todo[t] # <<>> /\ shown \in Surfaces \cup {Null} /\ Tail(todo[t]) \in Seq(Calls)
      /\ todo'[t] = << <<"turn", "">>, <<"return", "">> >> \o Tail(todo[t])
  BY <1>1, FlipCalls, CallFacts
<1>4. PICK q \in Rest : q = Tail(todo[t]) /\ (Ready \/ Starting)
  BY <1>1, <1>2, <1>3, StageOf
<1>5. todo'[t] = Cons(TurnCall, Cons(ReturnCall, q))
  <2>1. todo'[t] = <<TurnCall, ReturnCall>> \o q
    BY <1>3, <1>4 DEF TurnCall, ReturnCall
  <2>2. q \in Seq(Calls)
    BY RestTypes
  <2>3. QED
    BY <2>1, <2>2, FlipQueues
<1>6. PICK p : p = <<current, "none">>
  OBVIOUS
<1>7. PICK a : a = <<"a", "none">>
  OBVIOUS
<1>8. p[1] = current
  BY <1>6
<1>9. Turning' /\ Flips
  <2>1. CASE Ready
    <3>1. /\ shown \in Surfaces /\ current = Other(shown) /\ gr_draw = current /\ pending = <<>>
          /\ events = <<>> /\ shown \in fence /\ fence \subseteq Surfaces
      BY <1>1, <2>1 DEF Ready, Quiet, Following, Undisturbed, ScreenTypeOK, TypeOK
    <3>2. current \in Surfaces /\ shown = Other(current) /\ current # Null
      BY <3>1, OtherTypes DEF Surfaces, Null
    <3>3. pending' = <<p>> /\ pending'[Len(pending')] = p /\ pending' # <<>>
      <4>1. pending' = Append(<<>>, p)
        BY <1>1, <1>6, <3>1, Zenon
      <4>2. QED
        BY <4>1, Posts
    <3>4. fence' = Surfaces
      BY <1>1, <3>1, <3>2 DEF Surfaces, Other
    <3>5. Turning'
      <4>1. pending' = << <<current', "none">> >>
        BY <1>1, <1>6, <3>3
      <4>2. shown' = Other(current)'
        BY <1>1, <3>2 DEF Other
      <4>3. /\ backend' = "adf" /\ fence' = Surfaces /\ events' = <<>> /\ current' \in Surfaces
            /\ gr_draw' = current'
        BY <1>1, <3>1, <3>2, <3>4
      <4>4. Posted(current)'
        BY <4>1, <4>2, <4>3, Zenon DEF Posted
      <4>5. QED
        BY <4>3, <4>4, Zenon DEF Turning
    <3>6. Flips
      BY <1>1, <1>8, <3>1, <3>2, <3>3 DEF Flips, Posting, Screen, Canvas, Content
    <3>7. QED
      BY <3>5, <3>6
  <2>2. CASE Starting
    <3>1. /\ shown = Null /\ pending = <<a>> /\ events = <<>> /\ gr_draw = "b" /\ current = "b"
          /\ fence = {"a"} /\ surface = [s \in Surfaces |-> Blank]
      BY <1>7, <2>2 DEF Starting, Blanked
    <3>2. pending' = <<a, p>> /\ pending'[Len(pending')] = p /\ pending' # <<>>
      <4>1. pending' = Append(<<a>>, p)
        BY <1>1, <1>6, <3>1, Zenon
      <4>2. QED
        BY <4>1, Posts
    <3>3. fence' = Surfaces
      BY <1>1, <3>1 DEF Surfaces
    <3>4. Turning'
      <4>1. pending' = << <<"a", "none">>, <<"b", "none">> >>
        BY <1>6, <1>7, <3>1, <3>2
      <4>2. /\ backend' = "adf" /\ fence' = Surfaces /\ events' = <<>> /\ current' = "b"
            /\ gr_draw' = "b" /\ shown' = Null /\ "b" \in Surfaces
        BY <1>1, <3>1, <3>3 DEF Surfaces
      <4>3. Blanked'
        BY <1>1, <3>1 DEF Blanked
      <4>4. Posted(current)'
        BY <4>1, <4>2, <4>3, Zenon DEF Posted
      <4>5. QED
        BY <4>2, <4>4, Zenon DEF Turning
    <3>5. Flips
      BY <1>1, <1>8, <3>1, <3>2 DEF Flips, Posting, Screen, Canvas, Content, Surfaces, Null
    <3>6. QED
      BY <3>4, <3>5
  <2>3. QED
    BY <1>4, <2>1, <2>2
<1>10. Stage(t, todo[t], q)'
  BY <1>5, <1>9 DEF Stage
<1>11. FlipInv'
  BY <1>1, <1>10, FlipCalls, StageKept
<1>12. Simulates
  BY <1>1, <1>9 DEF Simulates, Trusted, Undisturbed
<1>13. QED
  BY <1>11, <1>12

(* The wait for the surface ends when the one posted after it is shown.    *)
LEMMA SyncFlips ==
  ASSUME NEW t \in Threads, Undisturbed(t), Sync(t)
  PROVE  FlipInv' /\ Simulates
<1>1. /\ Head(todo[t])[1] = "sync" /\ fence' = fence \ {Arg(t)} /\ Signalled(Arg(t))
      /\ Continue(t, <<>>) /\ <<>> \in Seq(Calls)
      /\ UNCHANGED <<disturbed, backend, inkVars, current, kernelVars>>
  BY DEF Sync, Calm, Disturb, Undisturbed, At, menuVars
<1>2. PICK r \in Rest : Stage(t, todo[t], r)
  BY AtCall
<1>3. PICK s \in Surfaces : s = Arg(t) /\ Tail(todo[t]) = Cons(ReturnCall, r) /\ Syncing(s)
  <2>1. todo[t] # <<>> /\ shown \in Surfaces \cup {Null}
    BY AtCall DEF Undisturbed, ScreenTypeOK, TypeOK
  <2>2. QED
    BY <1>1, <1>2, <2>1, StageOf DEF Arg
<1>4. todo'[t] = Cons(ReturnCall, r)
  <2>1. todo'[t] = <<>> \o Tail(todo[t]) /\ Tail(todo[t]) \in Seq(Calls)
    BY <1>1, CallFacts
  <2>2. QED
    BY <1>3, <2>1
<1>5. /\ pending = <<>> /\ shown = Other(s) /\ events = <<>> /\ fence = Surfaces /\ current = s
      /\ backend = "adf"
  <2>1. shown # s /\ \A i \in DOMAIN pending : pending[i][1] # s
    BY <1>1, <1>3 DEF Signalled, OffScreen, Syncing, Posted
  <2>2. Other(s) \in Surfaces /\ Other(s) # s /\ Other(Other(s)) = s
    BY OtherTypes
  <2>3. ~(pending = << <<"a", "none">>, <<"b", "none">> >> /\ Other(s) = "b")
    <3>1. PICK a, b : a = <<"a", "none">> /\ b = <<"b", "none">>
      OBVIOUS
    <3>2. a[1] = "a"
      BY <3>1
    <3>3. pending = <<a, b>> => 1 \in DOMAIN pending /\ pending[1][1] = "a"
      BY <3>2
    <3>4. Other(s) = "b" => s = "a"
      BY DEF Other, Surfaces
    <3>5. QED
      BY <2>1, <3>1, <3>3, <3>4
  <2>4. shown = Other(s) /\ pending = <<>>
    BY <1>3, <2>1, <2>2, <2>3 DEF Syncing, Posted
  <2>5. QED
    BY <1>3, <2>4 DEF Syncing, Posted
<1>6. Quiet' /\ Following'
  BY <1>1, <1>3, <1>5, OtherTypes DEF Quiet, Following, Other, kernelVars
<1>7. Stage(t, todo[t], r)'
  BY <1>4, <1>6 DEF Stage
<1>8. FlipInv'
  BY <1>1, <1>7, StageKept
<1>9. Simulates
  BY <1>1, UnseenStep DEF Undisturbed, inkVars, kernelVars
<1>10. QED
  BY <1>8, <1>9

(* Every backend returns the surface that is not shown.                    *)
LEMMA ReturnFlips ==
  ASSUME NEW t \in Threads, Undisturbed(t), Return(t)
  PROVE  FlipInv' /\ Simulates
<1>1. PICK s : /\ s = CASE backend = "fbdev" -> Other(current) [] backend = "memory" -> "b" [] OTHER -> current
               /\ Continue(t, << <<"assign", s>> >>)
  BY DEF Return
<1>2. /\ Head(todo[t])[1] = "return"
      /\ UNCHANGED <<disturbed, backend, gr_draw, surface, current, fence, kernelVars>>
  BY DEF Return, Calm, At, menuVars, inkVars, flipVars
<1>3. PICK r \in Rest : Stage(t, todo[t], r)
  BY AtCall
<1>4. todo[t] # <<>> /\ shown \in Surfaces \cup {Null} /\ current \in Surfaces
  BY AtCall DEF Undisturbed, ScreenTypeOK, TypeOK
<1>5. Tail(todo[t]) = r /\ Quiet /\ Following
  BY <1>2, <1>3, <1>4, StageOf
<1>6. s = Other(shown) /\ s \in Surfaces
  <2>1. backend \in {"adf", "drm", "fbdev", "memory"} /\ shown \in Surfaces
    BY <1>5 DEF Undisturbed, ScreenTypeOK, TypeOK, Quiet
  <2>2. s = Other(shown)
    BY <1>1, <1>5, <2>1 DEF Following, Other
  <2>3. QED
    BY <2>1, <2>2, OtherTypes
<1>7. Continue(t, <<AssignCall(s)>>) /\ <<AssignCall(s)>> \in Seq(Calls)
  BY <1>1, <1>6, FlipCallFacts DEF AssignCall
<1>8. todo'[t] = Cons(AssignCall(s), r)
  <2>1. todo'[t] = <<AssignCall(s)>> \o Tail(todo[t]) /\ r \in Seq(Calls)
    BY <1>7, CallFacts, RestTypes
  <2>2. QED
    BY <1>5, <1>6, <2>1, FlipQueues
<1>9. Quiet' /\ Following' /\ s = Other(shown)'
  BY <1>2, <1>5, <1>6 DEF Quiet, Following, Other, kernelVars
<1>10. Stage(t, todo[t], r)'
  BY <1>8, <1>9 DEF Stage
<1>11. FlipInv'
  BY <1>7, <1>10, StageKept
<1>12. Simulates
  BY <1>2, UnseenStep DEF Undisturbed, kernelVars
<1>13. QED
  BY <1>11, <1>12

LEMMA AssignFlips ==
  ASSUME NEW t \in Threads, Undisturbed(t), Assign(t)
  PROVE  FlipInv' /\ Simulates
<1>1. /\ Head(todo[t])[1] = "assign" /\ gr_draw' = Head(todo[t])[2]
      /\ Continue(t, <<>>) /\ <<>> \in Seq(Calls)
      /\ UNCHANGED <<disturbed, hardware, backend, surface, current, fence, kernelVars>>
  BY DEF Assign, Arg, Calm, At, menuVars, flipVars
<1>2. PICK r \in Rest : Stage(t, todo[t], r)
  BY AtCall
<1>3. todo[t] # <<>> /\ shown \in Surfaces \cup {Null}
  BY AtCall DEF Undisturbed, ScreenTypeOK, TypeOK
<1>4. Tail(todo[t]) = r /\ Quiet /\ Following /\ gr_draw' = Other(shown)
  BY <1>1, <1>2, <1>3, StageOf
<1>5. todo'[t] = r
  <2>1. todo'[t] = <<>> \o Tail(todo[t]) /\ Tail(todo[t]) \in Seq(Calls)
    BY <1>1, CallFacts
  <2>2. QED
    BY <1>4, <2>1
<1>6. Ready'
  BY <1>1, <1>4 DEF Ready, Quiet, Following, Other, kernelVars
<1>7. Stage(t, todo[t], r)'
  BY <1>5, <1>6 DEF Stage
<1>8. FlipInv'
  BY <1>1, <1>7, StageKept
<1>9. Drawing
  BY <1>1, <1>4 DEF Drawing, Quiet, Posting, Screen, Content, kernelVars
<1>10. Simulates
  BY <1>1, <1>9 DEF Simulates, Trusted
<1>11. QED
  BY <1>8, <1>10

(* The display shows the only surface it has been asked for.               *)
LEMMA LastRefresh ==
  ASSUME Refresh, NEW s \in Surfaces, NEW o, pending = << <<s, o>> >>
  PROVE  /\ pending' = <<>> /\ shown' = s /\ Catching
         /\ events' = IF backend = "drm" THEN Append(events, o) ELSE events
<1>1. PICK p : p = <<s, o>>
  OBVIOUS
<1>2. p[1] = s /\ p[2] = o
  BY <1>1
<1>3. pending = <<p>>
  BY <1>1
<1>4. Head(pending) = p /\ Tail(pending) = <<>> /\ pending # <<>> /\ pending[Len(pending)] = p
  BY <1>3
<1>5. pending' = <<>> /\ shown' = s /\ events' = IF backend = "drm" THEN Append(events, o) ELSE events
  BY <1>2, <1>4 DEF Refresh
<1>6. UNCHANGED <<surface, gr_draw>> /\ s # Null
  BY DEF Refresh, inkVars, Surfaces, Null
<1>7. Catching
  BY <1>2, <1>4, <1>5, <1>6 DEF Catching, Canvas, Posting, Screen, Content
<1>8. QED
  BY <1>5, <1>7

LEMMA PostedRefresh ==
  ASSUME Refresh, NEW s \in Surfaces, Posted(s)
  PROVE  /\ Catching /\ UNCHANGED <<todo, gr_draw, current>>
         /\ \A c : c = s => Posted(c)'
<1>1. UNCHANGED <<backend, todo, gr_draw, current, fence, surface>>
  BY DEF Refresh, menuVars, inkVars, flipVars
<1>2. backend = "adf" /\ fence = Surfaces /\ events = <<>> /\ pending # <<>>
  BY DEF Posted, Refresh
<1>3. events' = <<>>
  BY <1>2 DEF Refresh
<1>4. CASE pending = << <<s, "none">> >> /\ shown = Other(s)
  <2>1. pending' = <<>> /\ shown' = s /\ Catching
    BY <1>4, LastRefresh
  <2>2. Posted(s)'
    BY <1>1, <1>2, <1>3, <2>1 DEF Posted
  <2>3. QED
    BY <1>1, <2>1, <2>2
<1>5. CASE pending = << <<"a", "none">>, <<"b", "none">> >> /\ s = "b" /\ shown = Null /\ Blanked
  <2>1. PICK a, b : a = <<"a", "none">> /\ b = <<"b", "none">>
    OBVIOUS
  <2>2. a[1] = "a" /\ b[1] = "b"
    BY <2>1
  <2>3. pending = <<a, b>>
    BY <1>5, <2>1
  <2>4. Head(pending) = a /\ Tail(pending) = <<b>> /\ pending[Len(pending)] = b
    BY <2>3
  <2>5. pending' = <<b>> /\ shown' = "a"
    BY <2>2, <2>4 DEF Refresh
  <2>6. <<b>> # <<>> /\ <<b>>[Len(<<b>>)] = b
    BY Posts
  <2>7. surface["a"] = Blank /\ surface["b"] = Blank /\ "a" # Null
    BY <1>5 DEF Blanked, Surfaces, Null
  <2>8. Catching
    BY <1>1, <1>2, <2>2, <2>4, <2>5, <2>6, <2>7 DEF Catching, Canvas, Posting, Screen, Content
  <2>9. Posted(s)'
    <3>1. pending' = << <<s, "none">> >> /\ shown' = Other(s)
      BY <1>5, <2>1, <2>5 DEF Other
    <3>2. QED
      BY <1>1, <1>2, <1>3, <3>1, Zenon DEF Posted, Other
  <2>10. QED
    BY <1>1, <2>8, <2>9
<1>6. QED
  BY <1>2, <1>4, <1>5 DEF Posted

(* The display follows, wherever gr_flip() is.                             *)
LEMMA RefreshStage ==
  ASSUME Refresh, NEW t \in Threads, NEW r \in Rest, Stage(t, todo[t], r)
  PROVE  Catching /\ Stage(t, todo[t], r)'
<1>1. pending # <<>> /\ UNCHANGED <<backend, todo, gr_draw, current, fence, surface>>
  BY DEF Refresh, menuVars, inkVars, flipVars
<1>2. CASE todo[t] = r /\ Starting
  <2>1. pending = << <<"a", "none">> >> /\ backend = "adf" /\ "a" \in Surfaces
    BY <1>2 DEF Starting, Surfaces
  <2>2. pending' = <<>> /\ shown' = "a" /\ events' = events /\ Catching
    BY <2>1, LastRefresh
  <2>3. Ready'
    BY <1>1, <1>2, <2>1, <2>2 DEF Starting, Ready, Quiet, Following, Other, Surfaces
  <2>4. QED
    BY <1>1, <1>2, <2>2, <2>3 DEF Stage
<1>3. CASE /\ Polling(t)
           /\ todo[t] = Cons(PollCall, Cons(TurnCall, Cons(ReturnCall, r)))
  <2>1. /\ backend = "drm" /\ gr_draw = current /\ current \in Surfaces
        /\ pending = << <<current, t>> >> /\ events = <<>>
    BY <1>1, <1>3 DEF Polling
  <2>2. pending' = <<>> /\ shown' = current /\ events' = Append(events, t) /\ Catching
    BY <2>1, LastRefresh
  <2>3. events' = <<t>>
    BY <2>1, <2>2, Posts
  <2>4. Polling(t)'
    BY <1>1, <2>1, <2>2, <2>3 DEF Polling
  <2>5. QED
    BY <1>1, <1>3, <2>2, <2>4 DEF Stage
<1>4. CASE Turning /\ todo[t] = Cons(TurnCall, Cons(ReturnCall, r))
  <2>1. PICK s \in Surfaces : s = current /\ gr_draw = current /\ Posted(s)
    BY <1>1, <1>4 DEF Turning, Quiet, Posted
  <2>2. Catching /\ Posted(s)'
    BY <2>1, PostedRefresh
  <2>3. Turning'
    BY <1>1, <2>1, <2>2 DEF Turning, Posted
  <2>4. QED
    BY <1>1, <1>4, <2>2, <2>3 DEF Stage
<1>5. CASE \E s \in Surfaces : Syncing(s) /\ todo[t] = Cons(SyncCall(s), Cons(ReturnCall, r))
  <2>1. PICK s \in Surfaces : Syncing(s) /\ todo[t] = Cons(SyncCall(s), Cons(ReturnCall, r))
    BY <1>5
  <2>2. PICK o \in Surfaces : o = Other(s) /\ Posted(o)
    BY <2>1, OtherTypes DEF Syncing
  <2>3. Catching /\ Posted(o)'
    BY <2>2, PostedRefresh
  <2>4. Syncing(s)'
    BY <1>1, <2>1, <2>2, <2>3 DEF Syncing, Posted
  <2>5. QED
    BY <1>1, <2>1, <2>3, <2>4 DEF Stage
<1>6. QED
  BY <1>1, <1>2, <1>3, <1>4, <1>5 DEF Stage, Ready, Quiet, Polling

LEMMA RefreshFlips ==
  ASSUME FlipInv, ~disturbed, backend # "none", Refresh
  PROVE  FlipInv' /\ Simulates
<1>1. PICK t \in Threads : /\ \A u \in Threads \ {t} : todo[u] = <<>>
                          /\ \E r \in Rest : Stage(t, todo[t], r)
  BY DEF FlipInv
<1>2. PICK r \in Rest : Stage(t, todo[t], r)
  BY <1>1
<1>3. UNCHANGED <<todo, disturbed, hardware, backend>>
  BY DEF Refresh, menuVars, history
<1>4. Catching /\ Stage(t, todo[t], r)'
  BY <1>2, RefreshStage
<1>5. FlipInv'
  BY <1>1, <1>3, <1>4 DEF FlipInv, Stage
<1>6. Simulates
  BY <1>3, <1>4 DEF Simulates, Trusted
<1>7. QED
  BY <1>5, <1>6

(* A routine begins where the last one has ended.                          *)
LEMMA BeginFlips ==
  ASSUME FlipInv, ~disturbed, backend # "none", Idle, NEW t \in Threads, NEW l \in Rest,
         todo'[t] = l, \A u \in Threads \ {t} : todo'[u] = <<>>,
         UNCHANGED <<hardware, backend, disturbed, inkVars, flipVars, kernelVars>>
  PROVE  FlipInv' /\ Simulates
<1>1. PICK u \in Threads, r \in Rest : Stage(u, todo[u], r)
  BY DEF FlipInv
<1>2. todo[u] = <<>>
  BY DEF Idle, Threads
<1>3. \A c \in Calls, q \in Seq(Calls) : Cons(c, q) \in Seq(Calls) /\ Cons(c, q) # <<>>
  BY ConsFacts
<1>4. Ready
  <2>1. r \in Seq(Calls) /\ Cons(ReturnCall, r) \in Seq(Calls)
    BY <1>3, RestTypes, FlipCallFacts
  <2>2. Cons(TurnCall, Cons(ReturnCall, r)) \in Seq(Calls)
    BY <1>3, <2>1, FlipCallFacts
  <2>3. /\ Cons(PollCall, Cons(TurnCall, Cons(ReturnCall, r))) # <<>>
        /\ Cons(HandleCall, Cons(TurnCall, Cons(ReturnCall, r))) # <<>>
        /\ Cons(TurnCall, Cons(ReturnCall, r)) # <<>> /\ Cons(ReturnCall, r) # <<>>
    BY <1>3, <2>1, <2>2, FlipCallFacts
  <2>4. \A s \in Surfaces : Cons(SyncCall(s), Cons(ReturnCall, r)) # <<>>
    BY <1>3, <2>1, FlipCallFacts
  <2>5. shown \in Surfaces => Cons(AssignCall(Other(shown)), r) # <<>>
    BY <1>3, <2>1, FlipCallFacts, OtherTypes
  <2>6. QED
    BY <1>1, <1>2, <2>3, <2>4, <2>5, Zenon DEF Stage, Quiet
<1>5. Ready'
  BY <1>4 DEF Ready, Quiet, Following, Other, inkVars, flipVars, kernelVars
<1>6. Stage(t, todo[t], l)'
  BY <1>5 DEF Stage
<1>7. FlipInv'
  BY <1>6 DEF FlipInv, Stage
<1>8. Simulates
  BY UnseenStep DEF inkVars, kernelVars
<1>9. QED
  BY <1>7, <1>8

LEMMA RoutineFlips ==
  ASSUME ScreenTypeOK, FlipInv, ~disturbed, ~disturbed', backend # "none",
         Sighup \/ Redraw \/ UiExit
  PROVE  FlipInv' /\ Simulates
<1>1. todo \in [Threads -> Seq(Calls)]
  BY DEF ScreenTypeOK
<1>2. "main" \in Threads /\ "hup" \in Threads /\ \A u \in Threads : u = "main" \/ u = "hup"
  BY DEF Threads
<1>3. CASE Sighup
  <2>1. todo["main"] = <<>> /\ UNCHANGED history
    BY <1>3 DEF Sighup
  <2>2. Idle
    BY <1>3, <2>1 DEF Sighup, Idle
  <2>3. /\ todo' = [main |-> todo["main"], hup |-> Render]
        /\ pending' = pending /\ events' = events
    BY <1>3, <2>1 DEF Sighup
  <2>4. todo'["hup"] = Render /\ todo'["main"] = <<>>
    BY <2>1, <2>3
  <2>5. UNCHANGED <<hardware, backend, disturbed, inkVars, flipVars, kernelVars>>
    BY <1>3, <2>1, <2>3 DEF Sighup, history, kernelVars
  <2>6. QED
    BY <1>2, <2>2, <2>4, <2>5, RoutineCalls, BeginFlips
<1>4. CASE Redraw \/ UiExit
  <2>1. PICK l \in Rest : todo' = [todo EXCEPT !["main"] = l]
    BY <1>4, RoutineCalls DEF Redraw, UiExit
  <2>2. /\ Idle /\ UNCHANGED <<hardware, backend, disturbed, inkVars, flipVars, kernelVars>>
    BY <1>4 DEF Redraw, UiExit, history
  <2>3. todo'["main"] = l /\ todo'["hup"] = <<>>
    BY <1>1, <1>2, <2>1, <2>2 DEF Idle
  <2>4. QED
    BY <1>2, <2>2, <2>3, BeginFlips
<1>5. QED
  BY <1>3, <1>4

(* gr_init(), from a blank screen to the first flip.                       *)
LEMMA InitFlips == ScreenTypeOK /\ GrInit => FlipInv' /\ Simulates
<1> SUFFICES ASSUME ScreenTypeOK, GrInit PROVE FlipInv' /\ Simulates
  OBVIOUS
<1>1. PICK b, u, o : /\ b \in {"adf", "drm", "crash", "none", "memory", "fbdev"}
                    /\ o \in BOOLEAN /\ (o \/ b = "adf") /\ Chosen(b, u, o)
  BY BackendTypes DEF GrInit
<1>2. hardware # Unknown /\ hardware' = Unknown
  BY DEF GrInit
<1>3. /\ gr_draw = Null /\ surface = [s \in Surfaces |-> Blank] /\ shown = Null /\ pending = <<>>
      /\ events = <<>> /\ ~disturbed /\ todo = [t \in Threads |-> <<>>]
  BY <1>2 DEF ScreenTypeOK, Untouched
<1>4. CASE b \in {"none", "crash"}
  <2>1. backend' = "none"
    BY <1>1, <1>4 DEF Chosen
  <2>2. Trusted' = FALSE
    BY <1>2, <2>1 DEF Trusted
  <2>3. QED
    BY <2>1, <2>2 DEF FlipInv, Simulates
<1>5. CASE ~o
  <2>1. disturbed'
    BY <1>1, <1>5 DEF Chosen
  <2>2. Trusted' = FALSE
    BY <2>1 DEF Trusted
  <2>3. QED
    BY <2>1, <2>2 DEF FlipInv, Simulates
<1>6. CASE o /\ b \in {"adf", "drm", "memory", "fbdev"}
  <2>1. /\ backend' = b /\ todo' = [todo EXCEPT !["main"] = Startup(b, u)]
        /\ UNCHANGED <<surface, events, disturbed>>
    BY <1>1, <1>6 DEF Chosen, history
  <2>2. PICK l \in Rest : l = Startup(b, u) /\ l # <<>> /\ Head(l)[1] = "flip"
    BY <1>6, RoutineCalls
  <2>3. todo'["main"] = l /\ todo'["hup"] = <<>>
    BY <1>3, <2>1, <2>2 DEF Threads
  <2>4. Ready' \/ Starting'
    <3>1. CASE b = "adf"
      <4>1. /\ gr_draw' = "b" /\ current' = "b" /\ fence' = {"a"} /\ shown' = Null
            /\ pending' = << <<"a", "none">> >>
        BY <1>1, <1>6, <3>1 DEF Chosen
      <4>2. QED
        BY <1>3, <2>1, <3>1, <4>1 DEF Starting, Blanked
    <3>2. CASE b # "adf"
      <4>1. /\ gr_draw' = (IF b = "drm" THEN "a" ELSE "b") /\ current' = "a"
            /\ shown' = (IF b = "drm" THEN "b" ELSE "a") /\ pending' = <<>>
        BY <1>1, <1>6, <3>2 DEF Chosen
      <4>2. QED
        BY <1>3, <1>6, <2>1, <3>2, <4>1 DEF Ready, Quiet, Following, Other, Surfaces
    <3>3. QED
      BY <3>1, <3>2
  <2>5. Stage("main", todo["main"], l)'
    BY <2>2, <2>3, <2>4 DEF Stage
  <2>6. FlipInv'
    <3>1. "main" \in Threads /\ \A t \in Threads \ {"main"} : todo'[t] = <<>>
      BY <2>3 DEF Threads
    <3>2. QED
      BY <2>5, <3>1 DEF FlipInv, Stage
  <2>7. Unseen
    <3>1. gr_draw' \in Surfaces /\ shown' \in Surfaces \cup {Null} /\ surface' = [s \in Surfaces |-> Blank]
      BY <1>1, <1>3, <1>6, <2>1 DEF Chosen, Surfaces
    <3>2. Canvas = Blank /\ Screen = Blank /\ Posting = Blank
      BY <1>3 DEF Canvas, Screen, Posting, Content
    <3>3. Canvas' = Blank /\ Screen' = Blank
      BY <3>1 DEF Canvas, Screen, Content, Surfaces, Null
    <3>4. Posting' = Blank
      <4>1. PICK p : p = <<"a", "none">>
        OBVIOUS
      <4>2. p[1] = "a" /\ <<p>> # <<>> /\ <<p>>[Len(<<p>>)] = p
        BY <4>1, Posts
      <4>3. pending' = <<>> \/ pending' = <<p>>
        BY <1>1, <4>1 DEF Chosen
      <4>4. QED
        BY <3>1, <3>3, <4>2, <4>3 DEF Posting, Surfaces
    <3>5. QED
      BY <3>2, <3>3, <3>4 DEF Unseen
  <2>8. Trusted' = Trusted
    BY <1>2, <1>3, <1>6, <2>1 DEF Trusted
  <2>9. QED
    BY <2>6, <2>7, <2>8 DEF Simulates
<1>7. QED
  BY <1>1, <1>4, <1>5, <1>6

LEMMA CallFlips ==
  ASSUME NEW t \in Threads, Undisturbed(t), Call(t)
  PROVE  FlipInv' /\ Simulates
  BY ColorFlips, DrawFlips, PageFlipFlips, PollFlips, HandleEventFlips, TurnFlips, SwapFlips,
     PostFlips, SyncFlips, ReturnFlips, AssignFlips DEF Call

(* What has been disturbed stays so.                                       *)
LEMMA DisturbedStays ==
  ASSUME [Next]_vars
  PROVE  disturbed => disturbed'
<1>1. CASE Calm \/ Disturb \/ UNCHANGED disturbed
  BY <1>1 DEF Calm, Disturb
<1>2. CASE UNCHANGED vars
  BY <1>2 DEF vars, history
<1>3. CASE GrInit
  BY <1>3, <1>1 DEF GrInit, Chosen, history
<1>4. CASE FindFont \/ SwitchMenu \/ GrExit
  BY <1>4, <1>1 DEF FindFont, SwitchMenu, GrExit
<1>5. CASE \E t \in Threads : Call(t)
  BY <1>5, <1>1 DEF Call, GrColor, GrClear, GrDraw, Paint, PageFlip, Poll, HandleEvent, Turn,
     FbSwap, FbCopy, Post, Sync, Return, Assign
<1>6. CASE Refresh \/ Sighup \/ Redraw \/ UiExit
  BY <1>6, <1>1 DEF Refresh, Sighup, Redraw, UiExit, history
<1>7. QED
  BY <1>2, <1>3, <1>4, <1>5, <1>6 DEF Next

(* Only gr_init() and gr_exit() change the backend.                        *)
LEMMA BackendStays ==
  ASSUME ScreenTypeOK, Next, ~GrInit, ~GrExit
  PROVE  hardware = Unknown /\ UNCHANGED <<hardware, backend>>
<1>1. CASE FindFont \/ SwitchMenu
  <2>1. Runs("main") /\ "main" \in Threads
    BY <1>1 DEF FindFont, SwitchMenu, At, Threads
  <2>2. QED
    BY <1>1, <2>1, RunningTypes DEF FindFont, SwitchMenu, menuVars
<1>2. CASE \E t \in Threads : Call(t)
  <2>1. PICK t \in Threads : Call(t)
    BY <1>2
  <2>2. Runs(t)
    BY <2>1 DEF Call, GrColor, GrClear, GrDraw, PageFlip, Poll, HandleEvent, Turn, FbSwap, FbCopy,
       Post, Sync, Return, Assign, Flipping, At
  <2>3. UNCHANGED menuVars
    BY <2>1 DEF Call, GrColor, GrClear, GrDraw, Paint, PageFlip, Poll, HandleEvent, Turn,
       FbSwap, FbCopy, Post, Sync, Return, Assign, Flipping
  <2>4. QED
    BY <2>2, <2>3, RunningTypes DEF menuVars
<1>3. CASE Refresh
  BY <1>3 DEF Refresh, menuVars, ScreenTypeOK, Untouched
<1>4. CASE Sighup \/ Redraw \/ UiExit
  BY <1>4 DEF Sighup, Redraw, UiExit, ScreenTypeOK, Untouched
<1>5. QED
  BY <1>1, <1>2, <1>3, <1>4 DEF Next

LEMMA FlipStep == ScreenTypeOK /\ FlipInv /\ [Next]_vars => FlipInv' /\ Simulates
<1> SUFFICES ASSUME ScreenTypeOK, FlipInv, [Next]_vars PROVE FlipInv' /\ Simulates
  OBVIOUS
<1>1. CASE disturbed'
  <2>1. Trusted' = FALSE
    BY <1>1 DEF Trusted
  <2>2. QED
    BY <1>1, <2>1 DEF FlipInv, Simulates
<1>2. CASE ~disturbed' /\ UNCHANGED vars
  <2>1. FlipInv'
    BY <1>2 DEF FlipInv, Stage, Ready, Starting, Polling, Turning, Posted, Syncing, Quiet,
       Following, Blanked, Other, vars, menuVars, inkVars, flipVars, kernelVars, history
  <2>2. Simulates
    BY <1>2, UnseenStep DEF vars, menuVars, inkVars, kernelVars, history
  <2>3. QED
    BY <2>1, <2>2
<1>3. CASE GrInit
  BY <1>3, InitFlips
<1>4. CASE GrExit
  <2>1. Runs("main") /\ "main" \in Threads
    BY <1>4 DEF GrExit, At, Threads
  <2>2. hardware' = Unknown /\ backend' = "none"
    BY <1>4, <2>1, RunningTypes DEF GrExit
  <2>3. Trusted' = FALSE
    BY <2>2 DEF Trusted
  <2>4. QED
    BY <2>2, <2>3 DEF FlipInv, Simulates
<1>5. CASE ~disturbed' /\ Next /\ ~GrInit /\ ~GrExit
  <2>1. ~disturbed /\ hardware = Unknown /\ UNCHANGED <<hardware, backend>>
    BY <1>5, DisturbedStays, BackendStays
  <2>2. CASE backend = "none"
    <3>1. Trusted' = FALSE
      BY <2>1, <2>2 DEF Trusted
    <3>2. QED
      BY <2>1, <2>2, <3>1 DEF FlipInv, Simulates
  <2>3. CASE backend # "none"
    <3>1. ASSUME NEW t \in Threads, Runs(t)
          PROVE  Undisturbed(t)
      BY <1>5, <2>1, <2>3, <3>1 DEF Undisturbed
    <3>2. CASE FindFont \/ SwitchMenu
      <4>1. Runs("main") /\ "main" \in Threads
        BY <3>2 DEF FindFont, SwitchMenu, At, Threads
      <4>2. QED
        BY <3>1, <3>2, <4>1, StartFlips
    <3>3. CASE \E t \in Threads : Call(t)
      <4>1. PICK t \in Threads : Call(t)
        BY <3>3
      <4>2. Runs(t)
        BY <4>1 DEF Call, GrColor, GrClear, GrDraw, PageFlip, Poll, HandleEvent, Turn, FbSwap,
           FbCopy, Post, Sync, Return, Assign, Flipping, At
      <4>3. QED
        BY <3>1, <4>1, <4>2, CallFlips
    <3>4. CASE Refresh
      BY <2>1, <2>3, <3>4, RefreshFlips
    <3>5. CASE Sighup \/ Redraw \/ UiExit
      BY <1>5, <2>1, <2>3, <3>5, RoutineFlips
    <3>6. QED
      BY <1>5, <3>2, <3>3, <3>4, <3>5 DEF Next
  <2>4. QED
    BY <2>2, <2>3
<1>6. QED
  BY <1>1, <1>2, <1>3, <1>4, <1>5

(* Until a signal or a failed ioctl disturbs them, the backends keep to    *)
(* the contract of graphics.h:27-29: what has been drawn is displayed by   *)
(* the next Flip(), whole, and nothing is drawn on the surface displayed.  *)
THEOREM BackendImplemented == Spec => ImplementsBackend
<1>1. Init => ScreenTypeOK /\ FlipInv /\ Contract!Init
  BY ScreenTypeInit, ContractInit
<1>2. ScreenTypeOK /\ FlipInv /\ [Next]_vars =>
        (ScreenTypeOK /\ FlipInv)' /\ [Contract!Next]_(Contract!abstractVars)
  BY ScreenTypeStep, FlipStep, ContractStep
<1>3. QED
  BY <1>1, <1>2, PTL DEF Spec, ImplementsBackend, Contract!Spec

-----------------------------------------------------------------------------
(* The monitor that is chosen before anything is drawn.                    *)

LEMMA FirstFacts ==
  ASSUME NEW S, S \subseteq Nat \ {0}
  PROVE  /\ S = {} => First(S) = 0
         /\ S # {} => First(S) \in S /\ First(S) # 0 /\ \A i \in S : First(S) <= i
<1>1. ASSUME S # {} PROVE \E i \in S : \A j \in S : i <= j
  <2>1. PICK R : R = OpToRel(<, Nat)
    OBVIOUS
  <2>2. IsWellFoundedOn(R, Nat)
    BY <2>1, NatLessThanWellFounded
  <2>3. \E x \in S : \A y \in S : ~(<<y, x>> \in R)
    BY <1>1, <2>2, WFMin
  <2>4. \A x, y \in Nat : <<y, x>> \notin R => x <= y
    BY <2>1 DEF OpToRel
  <2>5. QED
    BY <2>3, <2>4
<1>2. QED
  BY <1>1 DEF First

(* The first position of a list where a condition holds.                   *)
LEMMA FirstOf ==
  ASSUME NEW s, IsList(s), NEW S, S \subseteq DOMAIN s
  PROVE  /\ First(S) # 0 <=> S # {}
         /\ First(S) # 0 => First(S) \in S
         /\ \A i \in S : First(S) <= i
<1>1. DOMAIN s \subseteq Nat \ {0}
  BY DEF IsList
<1>2. QED
  BY <1>1, FirstFacts

(* The panels of ConnectorPriority come in that order, all else after them.*)
LEMMA PriorityFacts ==
  /\ IsList(ConnectorPriority) /\ DOMAIN ConnectorPriority = 1..3
  /\ \A c : \A k \in 1..3 : c.type = ConnectorPriority[k] => Rank(c) = k
  /\ \A c : (\A k \in 1..3 : c.type # ConnectorPriority[k]) => Rank(c) = 4
<1>1. PICK l : l = ConnectorPriority
  OBVIOUS
<1>2. /\ l \in Seq({"LVDS", "eDP", "DSI"}) /\ Len(l) = 3 /\ DOMAIN l = 1..3
      /\ l[1] = "LVDS" /\ l[2] = "eDP" /\ l[3] = "DSI"
  <2>1. l = <<"LVDS", "eDP", "DSI">>
    BY <1>1 DEF ConnectorPriority
  <2>2. l \in Seq({"LVDS", "eDP", "DSI"}) /\ Len(l) = 3
    BY <2>1
  <2>3. DOMAIN l = 1..3
    BY <2>2
  <2>4. l[1] = "LVDS" /\ l[2] = "eDP" /\ l[3] = "DSI"
    BY <2>1
  <2>5. QED
    BY <2>2, <2>3, <2>4
<1>3. \A j, k \in 1..3 : l[j] = l[k] => j = k
  BY <1>2
<1>4. IsList(l)
  <2>1. PICK S : S = {l[i] : i \in DOMAIN l}
    OBVIOUS
  <2>2. l = [i \in 1..3 |-> l[i]] /\ \A i \in 1..3 : l[i] \in S
    BY <1>2, <2>1
  <2>3. l \in Seq(S)
    BY <2>2
  <2>4. QED
    BY <2>1, <2>3 DEF IsList
<1>5. ASSUME NEW c, NEW k \in 1..3, c.type = l[k]
      PROVE  Rank(c) = k
  <2>1. PICK D : D = DOMAIN ConnectorPriority
    OBVIOUS
  <2>2. k \in D /\ ConnectorPriority[k] = c.type
        /\ \A j \in D : ConnectorPriority[j] = c.type => j = k
    BY <1>1, <1>2, <1>3, <1>5, <2>1
  <2>3. (CHOOSE j \in D : ConnectorPriority[j] = c.type) = k
    BY <2>2, Zenon
  <2>4. QED
    BY <2>1, <2>2, <2>3, Zenon DEF Rank
<1>6. ASSUME NEW c, \A k \in 1..3 : c.type # l[k]
      PROVE  Rank(c) = 4
  <2>1. ~ \E k \in DOMAIN ConnectorPriority : ConnectorPriority[k] = c.type
    BY <1>1, <1>2, <1>6
  <2>2. Len(ConnectorPriority) + 1 = 4
    BY <1>1, <1>2
  <2>3. QED
    BY <2>1, <2>2, Zenon DEF Rank
<1>7. QED
  BY <1>1, <1>2, <1>4, <1>5, <1>6

(* FindMainMonitor() finds an attached connector of the best rank.         *)
LEMMA MainMonitorFacts ==
  ASSUME NEW cs, IsList(cs), FirstConnected(cs) # 0
  PROVE  LET m == FindMainMonitor(cs)
         IN  /\ m \in DOMAIN cs /\ Attached(cs[m])
             /\ \A i \in DOMAIN cs : Attached(cs[i]) => Rank(cs[m]) <= Rank(cs[i])
<1> DEFINE m == FindMainMonitor(cs)
           of(type) == {i \in DOMAIN cs : Attached(cs[i]) /\ cs[i].type = type}
           K == {p \in DOMAIN ConnectorPriority : FirstOfType(cs, ConnectorPriority[p]) # 0}
           k == First(K)
<1>1. \A type : /\ FirstOfType(cs, type) # 0 <=> of(type) # {}
                /\ FirstOfType(cs, type) # 0 => FirstOfType(cs, type) \in of(type)
  <2>1. ASSUME NEW type
        PROVE  /\ First(of(type)) # 0 <=> of(type) # {}
               /\ First(of(type)) # 0 => First(of(type)) \in of(type)
    <3>1. of(type) \subseteq DOMAIN cs
      OBVIOUS
    <3>2. QED
      BY <3>1, FirstOf
  <2>2. QED
    BY <2>1 DEF FirstOfType
<1>2. FirstConnected(cs) \in DOMAIN cs /\ Attached(cs[FirstConnected(cs)])
  <2>1. PICK S : S = {i \in DOMAIN cs : Attached(cs[i])}
    OBVIOUS
  <2>2. First(S) \in S
    BY <2>1, FirstOf DEF FirstConnected
  <2>3. QED
    BY <2>1, <2>2 DEF FirstConnected
<1>3. /\ k # 0 <=> K # {}
      /\ k # 0 => k \in K
      /\ \A p \in K : k <= p
  <2>1. K \subseteq DOMAIN ConnectorPriority
    OBVIOUS
  <2>2. QED
    BY <2>1, PriorityFacts, FirstOf
<1>4. m = IF k # 0 THEN FirstOfType(cs, ConnectorPriority[k]) ELSE FirstConnected(cs)
  BY DEF FindMainMonitor
<1>5. ASSUME NEW i \in DOMAIN cs, Attached(cs[i]), NEW p \in 1..3, cs[i].type = ConnectorPriority[p]
      PROVE  p \in K /\ Rank(cs[i]) = p
  <2>1. i \in of(cs[i].type)
    BY <1>5
  <2>2. QED
    BY <1>1, <1>5, <2>1, PriorityFacts
<1> HIDE DEF of, K, k, m
<1>6. CASE k # 0
  <2>1. k \in 1..3 /\ FirstOfType(cs, ConnectorPriority[k]) # 0
    BY <1>3, <1>6, PriorityFacts DEF K
  <2>2. m \in DOMAIN cs /\ Attached(cs[m]) /\ cs[m].type = ConnectorPriority[k]
    BY <1>1, <1>4, <1>6, <2>1 DEF of
  <2>3. Rank(cs[m]) = k
    BY <2>1, <2>2, PriorityFacts
  <2>4. ASSUME NEW i \in DOMAIN cs, Attached(cs[i])
        PROVE  k <= Rank(cs[i])
    <3>1. CASE \E p \in 1..3 : cs[i].type = ConnectorPriority[p]
      BY <1>3, <1>5, <2>4, <3>1
    <3>2. CASE \A p \in 1..3 : cs[i].type # ConnectorPriority[p]
      BY <2>1, <3>2, PriorityFacts
    <3>3. QED
      BY <3>1, <3>2
  <2>5. QED
    BY <2>2, <2>3, <2>4 DEF m
<1>7. CASE k = 0
  <2>1. m \in DOMAIN cs /\ Attached(cs[m])
    BY <1>2, <1>4, <1>7
  <2>2. \A i \in DOMAIN cs : Attached(cs[i]) => Rank(cs[i]) = 4
    BY <1>3, <1>5, <1>7, PriorityFacts
  <2>3. QED
    BY <2>1, <2>2 DEF m
<1>8. QED
  BY <1>6, <1>7

(* DrmInit(), when it succeeds.                                            *)
LEMMA DrmInitFacts ==
  ASSUME NEW devices, DrmInit(devices).result = "ok"
  PROVE  LET d == DrmDevice(devices)
             cs == devices[d].connectors
             m == FindMainMonitor(cs)
             found == DrmInit(devices)
         IN  /\ d # 0 /\ found.device = d /\ found.connector = m
             /\ found.mode = SelectedMode(cs[m]) /\ found.crtc = FindCrtc(cs[m])
             /\ found.disabled = DisabledCrtcs(cs, FindCrtc(cs[m]))
  BY DEF DrmInit

LEMMA MonitorChosen == hardware \in Hardware => MainMonitorChosen
<1> SUFFICES ASSUME hardware \in Hardware, DrmInit(hardware.drm).result = "ok"
             PROVE  LET found == DrmInit(hardware.drm)
                        cs == hardware.drm[found.device].connectors
                        main == cs[found.connector]
                    IN  /\ main.connected
                        /\ \A c \in {cs[i] : i \in DOMAIN cs} :
                             c.connected /\ c.modes # <<>> => Rank(main) <= Rank(c)
                        /\ found.mode \in DOMAIN main.modes
                        /\ (\E m \in DOMAIN main.modes : main.modes[m]) => main.modes[found.mode]
                        /\ {cs[i].crtc : i \in DOMAIN cs} \subseteq {0, found.crtc} \cup found.disabled
                        /\ found.crtc \notin found.disabled
  BY DEF MainMonitorChosen
<1> DEFINE found == DrmInit(hardware.drm)
           d == DrmDevice(hardware.drm)
           cs == hardware.drm[d].connectors
           m == FindMainMonitor(cs)
           preferred == {i \in DOMAIN cs[m].modes : cs[m].modes[i]}
<1>1. /\ d # 0 /\ found.device = d /\ found.connector = m
      /\ found.mode = SelectedMode(cs[m]) /\ found.crtc = FindCrtc(cs[m])
      /\ found.disabled = DisabledCrtcs(cs, FindCrtc(cs[m]))
  BY DrmInitFacts
<1>2. d \in DOMAIN hardware.drm /\ FirstConnected(cs) # 0
  <2>1. PICK S : S = {i \in DOMAIN hardware.drm :
                        hardware.drm[i].usable /\ FirstConnected(hardware.drm[i].connectors) # 0}
    OBVIOUS
  <2>2. d = First(S) /\ S \subseteq DOMAIN hardware.drm /\ IsList(hardware.drm)
    BY <2>1, HardwareAssumption DEF DrmDevice
  <2>3. d \in S
    BY <1>1, <2>2, FirstOf
  <2>4. QED
    BY <2>1, <2>3
<1>3. IsList(cs) /\ \A i \in DOMAIN cs : IsList(cs[i].modes)
  BY <1>2, HardwareAssumption
<1>4. /\ m \in DOMAIN cs /\ Attached(cs[m])
      /\ \A i \in DOMAIN cs : Attached(cs[i]) => Rank(cs[m]) <= Rank(cs[i])
  BY <1>2, <1>3, MainMonitorFacts
<1>5. /\ SelectedMode(cs[m]) \in DOMAIN cs[m].modes
      /\ preferred # {} => cs[m].modes[SelectedMode(cs[m])]
  <2>1. PICK modes : modes = cs[m].modes
    OBVIOUS
  <2>2. IsList(modes) /\ modes # <<>>
    BY <1>3, <1>4, <2>1 DEF Attached
  <2>3. 1 \in DOMAIN modes
    BY <2>2 DEF IsList
  <2>4. PICK S : S = preferred
    OBVIOUS
  <2>5. S \subseteq DOMAIN modes /\ \A i \in S : modes[i]
    BY <2>1, <2>4
  <2>6. (First(S) # 0 <=> S # {}) /\ (First(S) # 0 => First(S) \in S)
    BY <2>2, <2>5, FirstOf
  <2>7. SelectedMode(cs[m]) = IF First(S) # 0 THEN First(S) ELSE 1
    BY <2>4 DEF SelectedMode
  <2>8. QED
    BY <2>1, <2>3, <2>4, <2>5, <2>6, <2>7
<1>6. /\ \A i \in DOMAIN cs : cs[i].crtc # 0 => FindCrtc(cs[i]) = cs[i].crtc
      /\ found.disabled = {FindCrtc(cs[i]) : i \in DOMAIN cs} \ {FindCrtc(cs[m])}
  BY <1>1 DEF FindCrtc, DisabledCrtcs
<1>7. /\ {cs[i].crtc : i \in DOMAIN cs} \subseteq {0, found.crtc} \cup found.disabled
      /\ found.crtc \notin found.disabled
  BY <1>1, <1>6
<1>8. cs[m].connected
  BY <1>4 DEF Attached
<1>9. \A c \in {cs[i] : i \in DOMAIN cs} :
        c.connected /\ c.modes # <<>> => Rank(cs[m]) <= Rank(c)
  BY <1>4 DEF Attached
<1>10. QED
  BY <1>1, <1>5, <1>7, <1>8, <1>9

(* For any number of devices, connectors and modes, the screen that is     *)
(* chosen is connected, no internal panel is passed over, no preferred     *)
(* mode is, and every other CRTC is turned off (graphics_drm.cpp:172-345). *)
THEOREM MonitorCorrect == Spec => []MainMonitorChosen
<1> DEFINE Looked == hardware \in Hardware \/ hardware = Unknown
<1>1. Init => Looked
  BY DEF Init
<1>2. ASSUME Looked, [Next]_vars
      PROVE  Looked'
  <2>1. hardware' = hardware \/ hardware' = Unknown
    <3>1. CASE UNCHANGED vars
      BY <3>1 DEF vars, menuVars
    <3>2. CASE GrInit
      BY <3>2 DEF GrInit
    <3>3. CASE FindFont \/ SwitchMenu \/ GrExit \/ Refresh \/ Sighup \/ Redraw \/ UiExit
      BY <3>3 DEF FindFont, SwitchMenu, GrExit, Refresh, Sighup, Redraw, UiExit, menuVars
    <3>4. CASE \E t \in Threads : Call(t)
      BY <3>4 DEF Call, GrColor, GrClear, GrDraw, Paint, PageFlip, Poll, HandleEvent, Turn,
         FbSwap, FbCopy, Post, Sync, Return, Assign, Flipping, menuVars
    <3>5. QED
      BY <1>2, <3>1, <3>2, <3>3, <3>4 DEF Next
  <2>2. QED
    BY <1>2, <2>1
<1>3. Looked => MainMonitorChosen
  BY MonitorChosen DEF MainMonitorChosen
<1>4. QED
  BY <1>1, <1>2, <1>3, PTL DEF Spec
=============================================================================
