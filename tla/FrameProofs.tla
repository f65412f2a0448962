---------------------------- MODULE FrameProofs -----------------------------
(***************************************************************************)
(* Proofs about Display, for every hardware: whatever has disturbed the    *)
(* drawing, two undisturbed routines later the screen shows the menu as it *)
(* is (ShownIsLatest), and UI::exit() leaves no menu in either buffer      *)
(* (ExitLeavesNoMenu).                                                     *)
(***************************************************************************)
EXTENDS DisplayProofs

(* The surface that the backend will flip, and what it has flipped last:   *)
(* the screen shows this at the latest when no flip is pending any more.   *)
Target ==
  CASE backend = "fbdev" -> Other(current) [] backend = "memory" -> "b" [] OTHER -> current

Latest == IF pending = <<>> THEN shown ELSE pending[Len(pending)][1]

(* An undisturbed routine has ended since a disturbance.                   *)
Steady == calm >= 1

Coherent == gr_draw = Target \/ gr_draw = Null

Shows(picture) == Latest # Null /\ surface[Latest] = picture

(* The ink, and what is on the drawing surface.                            *)
On(color, strokes) ==
  ink = color /\ gr_draw # Null /\ surface[gr_draw] = [ground |-> "none", strokes |-> strokes]

(* The strokes of a frame: none, the first two, or the first three.        *)
Part(part, color) == <<part, color, version>>
First2 == {Part("title", "white"), Part("bar", "white")}
First3 == First2 \cup {Part("selected", "black")}

FlipCall == <<"flip", "">>
ClearCall == <<"clear", "">>
ExitCall == <<"exit", "">>
MenuCall == <<"menu", "">>
Color(c) == <<"color", c>>
Draw(p) == <<"draw", p>>
Font(f) == <<"font", f>>

(* What is left of UI::render(), *)
R9 == Cons(FlipCall, <<>>)
R8 == Cons(Draw("extra"), R9)
R7 == Cons(Color("white"), R8)
R6 == Cons(Draw("selected"), R7)
R5 == Cons(Color("black"), R6)
R4 == Cons(Draw("bar"), R5)
R3 == Cons(Draw("title"), R4)
R2 == Cons(Color("white"), R3)
R1 == Cons(ClearCall, R2)
R0 == Cons(Color("none"), R1)

(* of UI::exit() *)
E7 == Cons(ExitCall, <<>>)
E6 == Cons(FlipCall, E7)
E5 == Cons(Draw("message"), E6)
E4 == Cons(Color("white"), E5)
E3 == Cons(ClearCall, E4)
E2 == Cons(FlipCall, E3)
E1 == Cons(ClearCall, E2)
E0 == Cons(Color("none"), E1)

(* and of the start, with or without a font.                               *)
S3 == Cons(MenuCall, R0)
S2(f) == Cons(Font(f), S3)
S1(f) == Cons(FlipCall, S2(f))
S0(f) == Cons(FlipCall, S1(f))

(* What has been done when the calls q are left.                           *)
Rendering(q) ==
  \/ q = R0
  \/ q = R1 /\ ink = "none"
  \/ q = R2 /\ On("none", {})
  \/ q = R3 /\ On("white", {})
  \/ q = R4 /\ On("white", {Part("title", "white")})
  \/ q = R5 /\ On("white", First2)
  \/ q = R6 /\ On("black", First2)
  \/ q = R7 /\ On("black", First3)
  \/ q = R8 /\ On("white", First3)
  \/ q = R9 /\ On("white", Frame(version).strokes)

(* The boot message is drawn once the other surface has been cleared.      *)
Wiped == gr_draw # Null /\ (Steady => surface[Other(gr_draw)] = Blank)

NoMenu == \A s \in Surfaces : surface[s].strokes \subseteq Message.strokes

Leaving(q) ==
  \/ q = E0
  \/ q = E1 /\ ink = "none"
  \/ q = E2 /\ On("none", {})
  \/ q = E3 /\ Wiped /\ ink = "none"
  \/ q = E4 /\ Wiped /\ On("none", {})
  \/ q = E5 /\ Wiped /\ On("white", {})
  \/ q = E6 /\ Wiped /\ On("white", Message.strokes)
  \/ q = E7 /\ (Steady => NoMenu /\ Shows(Message))

Starts(q) == q = S3 \/ \E f \in {"found", "none"} : q \in {S0(f), S1(f), S2(f)}

(* Inside gr_flip(), before the rest r of a routine.                       *)
InFlip(q, r) ==
  \/ /\ backend \in {"drm", "adf"} /\ Latest = Target
     /\ q \in {Cons(PollCall, Cons(TurnCall, Cons(ReturnCall, r))),
               Cons(HandleCall, Cons(TurnCall, Cons(ReturnCall, r))),
               Cons(TurnCall, Cons(ReturnCall, r))}
  \/ /\ Latest = Other(Target)
     /\ q \in {Cons(SyncCall(current), Cons(ReturnCall, r)),
               Cons(ReturnCall, r), Cons(AssignCall(Target), r)}

(* What has been flipped.                                                  *)
Flipped(r) ==
  \/ r = <<>> /\ menu /\ (Steady => Shows(Frame(version)))
  \/ r = E3 /\ ~menu /\ ink = "none" /\ (Steady => Shows(Blank))
  \/ r = E7 /\ ~menu /\ (Steady => NoMenu /\ Shows(Message))
  \/ \E f \in {"found", "none"} : r \in {S1(f), S2(f)} /\ ~menu

(* Between two routines.                                                   *)
Resting ==
  \/ menu /\ (Steady => Coherent) /\ (calm >= 2 => Shows(Frame(version)))
  \/ ~menu /\ (calm >= 2 => NoMenu /\ (Latest = Null \/ surface[Latest] = Message))

Place(q) ==
  \/ q = <<>> /\ Resting
  \/ /\ Steady => Coherent
     /\ IF menu THEN Rendering(q) ELSE Leaving(q) \/ Starts(q)
  \/ \E r \in {<<>>, E3, E7, S1("found"), S2("found"), S1("none"), S2("none")} :
       InFlip(q, r) /\ Flipped(r)

(* Which buffer an fbdev backend shows is not up to the display.           *)
FbdevShows ==
  backend \in {"fbdev", "memory"} => pending = <<>> /\ (backend = "memory" => shown = "a")

Orderly ==
  \E t \in Threads : (\A u \in Threads \ {t} : todo[u] = <<>>) /\ Place(todo[t])

FrameInv ==
  /\ FbdevShows
  /\ hardware = Unknown /\ dead = "no" /\ calm >= 0 => Orderly

-----------------------------------------------------------------------------
(* The lists of calls.                                                     *)

LEMMA HeadAndTail ==
  ASSUME NEW S, NEW s \in Seq(S), s # <<>>
  PROVE  s = Cons(Head(s), Tail(s))
<1>1. PICK x : x = Head(s)
  OBVIOUS
<1>2. PICK q : q = Tail(s)
  OBVIOUS
<1>3. PICK l : l = <<x>>
  OBVIOUS
<1>4. x \in S /\ q \in Seq(S) /\ l \in Seq(S) /\ Len(l) = 1 /\ l[1] = x /\ Len(s) = Len(q) + 1
  BY <1>1, <1>2, <1>3
<1>5. \A i \in 1..Len(s) : s[i] = IF i = 1 THEN x ELSE q[i-1]
  BY <1>1, <1>2
<1>6. /\ l \o q \in Seq(S) /\ Len(l \o q) = Len(s)
      /\ \A i \in 1..Len(s) : (l \o q)[i] = IF i <= 1 THEN l[i] ELSE q[i-1]
  <2>1. /\ l \o q \in Seq(S) /\ Len(l \o q) = Len(l) + Len(q)
        /\ \A i \in 1..(Len(l) + Len(q)) :
             (l \o q)[i] = IF i <= Len(l) THEN l[i] ELSE q[i - Len(l)]
    BY <1>4, ConcatProperties, Zenon
  <2>2. Len(l) = 1 /\ Len(q) \in Nat /\ Len(l) + Len(q) = Len(s)
    BY <1>4
  <2>3. QED
    BY <2>1, <2>2
<1>7. \A i \in 1..Len(s) : (l \o q)[i] = s[i]
  BY <1>4, <1>5, <1>6
<1>8. l \o q = s
  BY <1>6, <1>7, SeqEqual
<1>9. QED
  BY <1>1, <1>2, <1>3, <1>8 DEF Cons


(* A list q that begins with the call of op on arg and goes on with r.     *)
Begins(q, op, arg, r) ==
  q \in Seq(Calls) /\ q # <<>> /\ Head(q)[1] = op /\ Head(q)[2] = arg /\ Tail(q) = r

LEMMA BeginsWith ==
  ASSUME NEW c \in Calls, NEW r \in Seq(Calls), NEW op, NEW arg, c[1] = op, c[2] = arg
  PROVE  Begins(Cons(c, r), op, arg, r)
  BY ConsFacts DEF Begins

LEMMA OuterCallFacts ==
  /\ FlipCall \in Calls /\ FlipCall[1] = "flip" /\ FlipCall[2] = ""
  /\ ClearCall \in Calls /\ ClearCall[1] = "clear" /\ ClearCall[2] = ""
  /\ ExitCall \in Calls /\ ExitCall[1] = "exit" /\ ExitCall[2] = ""
  /\ MenuCall \in Calls /\ MenuCall[1] = "menu" /\ MenuCall[2] = ""
  /\ \A c \in {"none", "white", "black"} :
       Color(c) \in Calls /\ Color(c)[1] = "color" /\ Color(c)[2] = c
  /\ \A p \in {"title", "bar", "selected", "extra", "message"} :
       Draw(p) \in Calls /\ Draw(p)[1] = "draw" /\ Draw(p)[2] = p
  /\ \A f \in {"found", "none"} : Font(f) \in Calls /\ Font(f)[1] = "font" /\ Font(f)[2] = f
  BY CallTypes DEF FlipCall, ClearCall, ExitCall, MenuCall, Color, Draw, Font

LEMMA RenderLists ==
  /\ Begins(R0, "color", "none", R1)
  /\ Begins(R1, "clear", "", R2)
  /\ Begins(R2, "color", "white", R3)
  /\ Begins(R3, "draw", "title", R4)
  /\ Begins(R4, "draw", "bar", R5)
  /\ Begins(R5, "color", "black", R6)
  /\ Begins(R6, "draw", "selected", R7)
  /\ Begins(R7, "color", "white", R8)
  /\ Begins(R8, "draw", "extra", R9)
  /\ Begins(R9, "flip", "", <<>>)
<1>1. <<>> \in Seq(Calls)
  OBVIOUS
<1>2. Begins(R9, "flip", "", <<>>) /\ R9 \in Seq(Calls)
  <2>1. Begins(R9, "flip", "", <<>>)
    BY <1>1, BeginsWith, OuterCallFacts DEF R9
  <2>2. QED
    BY <2>1 DEF Begins
<1>3. Begins(R8, "draw", "extra", R9) /\ R8 \in Seq(Calls)
  <2>1. Begins(R8, "draw", "extra", R9)
    BY <1>2, BeginsWith, OuterCallFacts DEF R8
  <2>2. QED
    BY <2>1 DEF Begins
<1>4. Begins(R7, "color", "white", R8) /\ R7 \in Seq(Calls)
  <2>1. Begins(R7, "color", "white", R8)
    BY <1>3, BeginsWith, OuterCallFacts DEF R7
  <2>2. QED
    BY <2>1 DEF Begins
<1>5. Begins(R6, "draw", "selected", R7) /\ R6 \in Seq(Calls)
  <2>1. Begins(R6, "draw", "selected", R7)
    BY <1>4, BeginsWith, OuterCallFacts DEF R6
  <2>2. QED
    BY <2>1 DEF Begins
<1>6. Begins(R5, "color", "black", R6) /\ R5 \in Seq(Calls)
  <2>1. Begins(R5, "color", "black", R6)
    BY <1>5, BeginsWith, OuterCallFacts DEF R5
  <2>2. QED
    BY <2>1 DEF Begins
<1>7. Begins(R4, "draw", "bar", R5) /\ R4 \in Seq(Calls)
  <2>1. Begins(R4, "draw", "bar", R5)
    BY <1>6, BeginsWith, OuterCallFacts DEF R4
  <2>2. QED
    BY <2>1 DEF Begins
<1>8. Begins(R3, "draw", "title", R4) /\ R3 \in Seq(Calls)
  <2>1. Begins(R3, "draw", "title", R4)
    BY <1>7, BeginsWith, OuterCallFacts DEF R3
  <2>2. QED
    BY <2>1 DEF Begins
<1>9. Begins(R2, "color", "white", R3) /\ R2 \in Seq(Calls)
  <2>1. Begins(R2, "color", "white", R3)
    BY <1>8, BeginsWith, OuterCallFacts DEF R2
  <2>2. QED
    BY <2>1 DEF Begins
<1>10. Begins(R1, "clear", "", R2) /\ R1 \in Seq(Calls)
  <2>1. Begins(R1, "clear", "", R2)
    BY <1>9, BeginsWith, OuterCallFacts DEF R1
  <2>2. QED
    BY <2>1 DEF Begins
<1>11. Begins(R0, "color", "none", R1) /\ R0 \in Seq(Calls)
  <2>1. Begins(R0, "color", "none", R1)
    BY <1>10, BeginsWith, OuterCallFacts DEF R0
  <2>2. QED
    BY <2>1 DEF Begins
<1>12. QED
  BY <1>2, <1>3, <1>4, <1>5, <1>6, <1>7, <1>8, <1>9, <1>10, <1>11

LEMMA ExitLists ==
  /\ Begins(E0, "color", "none", E1)
  /\ Begins(E1, "clear", "", E2)
  /\ Begins(E2, "flip", "", E3)
  /\ Begins(E3, "clear", "", E4)
  /\ Begins(E4, "color", "white", E5)
  /\ Begins(E5, "draw", "message", E6)
  /\ Begins(E6, "flip", "", E7)
  /\ Begins(E7, "exit", "", <<>>)
<1>1. <<>> \in Seq(Calls)
  OBVIOUS
<1>2. Begins(E7, "exit", "", <<>>) /\ E7 \in Seq(Calls)
  <2>1. Begins(E7, "exit", "", <<>>)
    BY <1>1, BeginsWith, OuterCallFacts DEF E7
  <2>2. QED
    BY <2>1 DEF Begins
<1>3. Begins(E6, "flip", "", E7) /\ E6 \in Seq(Calls)
  <2>1. Begins(E6, "flip", "", E7)
    BY <1>2, BeginsWith, OuterCallFacts DEF E6
  <2>2. QED
    BY <2>1 DEF Begins
<1>4. Begins(E5, "draw", "message", E6) /\ E5 \in Seq(Calls)
  <2>1. Begins(E5, "draw", "message", E6)
    BY <1>3, BeginsWith, OuterCallFacts DEF E5
  <2>2. QED
    BY <2>1 DEF Begins
<1>5. Begins(E4, "color", "white", E5) /\ E4 \in Seq(Calls)
  <2>1. Begins(E4, "color", "white", E5)
    BY <1>4, BeginsWith, OuterCallFacts DEF E4
  <2>2. QED
    BY <2>1 DEF Begins
<1>6. Begins(E3, "clear", "", E4) /\ E3 \in Seq(Calls)
  <2>1. Begins(E3, "clear", "", E4)
    BY <1>5, BeginsWith, OuterCallFacts DEF E3
  <2>2. QED
    BY <2>1 DEF Begins
<1>7. Begins(E2, "flip", "", E3) /\ E2 \in Seq(Calls)
  <2>1. Begins(E2, "flip", "", E3)
    BY <1>6, BeginsWith, OuterCallFacts DEF E2
  <2>2. QED
    BY <2>1 DEF Begins
<1>8. Begins(E1, "clear", "", E2) /\ E1 \in Seq(Calls)
  <2>1. Begins(E1, "clear", "", E2)
    BY <1>7, BeginsWith, OuterCallFacts DEF E1
  <2>2. QED
    BY <2>1 DEF Begins
<1>9. Begins(E0, "color", "none", E1) /\ E0 \in Seq(Calls)
  <2>1. Begins(E0, "color", "none", E1)
    BY <1>8, BeginsWith, OuterCallFacts DEF E0
  <2>2. QED
    BY <2>1 DEF Begins
<1>10. QED
  BY <1>2, <1>3, <1>4, <1>5, <1>6, <1>7, <1>8, <1>9

LEMMA StartLists ==
  /\ Begins(S3, "menu", "", R0)
  /\ \A f \in {"found", "none"} : /\ Begins(S2(f), "font", f, S3)
                                 /\ Begins(S1(f), "flip", "", S2(f))
                                 /\ Begins(S0(f), "flip", "", S1(f))
<1>1. R0 \in Seq(Calls)
  BY RenderLists DEF Begins
<1>2. Begins(S3, "menu", "", R0) /\ S3 \in Seq(Calls)
  <2>1. Begins(S3, "menu", "", R0)
    BY <1>1, BeginsWith, OuterCallFacts DEF S3
  <2>2. QED
    BY <2>1 DEF Begins
<1>3. ASSUME NEW f \in {"found", "none"}
      PROVE  /\ Begins(S2(f), "font", f, S3)
             /\ Begins(S1(f), "flip", "", S2(f))
             /\ Begins(S0(f), "flip", "", S1(f))
  <2>1. Begins(S2(f), "font", f, S3)
    BY <1>2, BeginsWith, OuterCallFacts DEF S2
  <2>2. S2(f) \in Seq(Calls)
    BY <2>1 DEF Begins
  <2>3. Begins(S1(f), "flip", "", S2(f))
    BY <2>2, BeginsWith, OuterCallFacts DEF S1
  <2>4. S1(f) \in Seq(Calls)
    BY <2>3 DEF Begins
  <2>5. Begins(S0(f), "flip", "", S1(f))
    BY <2>4, BeginsWith, OuterCallFacts DEF S0
  <2>6. QED
    BY <2>1, <2>3, <2>5
<1>4. QED
  BY <1>2, <1>3

LEMMA CatThree ==
  ASSUME NEW S, NEW l \in Seq(S), NEW m \in Seq(S), NEW r \in Seq(S)
  PROVE  (l \o m) \o r = l \o (m \o r)
  BY ConcatAssociative

LEMMA ConsThree ==
  ASSUME NEW x \in Calls, NEW y \in Calls, NEW q \in Seq(Calls)
  PROVE  <<x, x, y>> \o q = Cons(x, Cons(x, Cons(y, q)))
  BY ConsCat, Zenon

(* The routines are these lists.                                           *)
LEMMA Routines ==
  /\ Render = R0 /\ Exit = E0
  /\ \A u : Startup("none", u) = S3
  /\ \A b, u : b # "none" => \E f \in {"found", "none"} : Startup(b, u) = S0(f)
<1>1. /\ FlipCall \in Calls /\ ClearCall \in Calls /\ ExitCall \in Calls /\ MenuCall \in Calls
      /\ Color("none") \in Calls /\ Color("white") \in Calls /\ Color("black") \in Calls
      /\ Draw("title") \in Calls /\ Draw("bar") \in Calls /\ Draw("selected") \in Calls
      /\ Draw("extra") \in Calls /\ Draw("message") \in Calls
  BY OuterCallFacts
<1>2. Render = R0
  <2>1. PICK a, b, c, d, e, f, g, h, i, j :
              /\ a = Color("none") /\ b = ClearCall /\ c = Color("white") /\ d = Draw("title")
              /\ e = Draw("bar") /\ f = Color("black") /\ g = Draw("selected") /\ h = Color("white")
              /\ i = Draw("extra") /\ j = FlipCall
    OBVIOUS
  <2>2. /\ a \in Calls /\ b \in Calls /\ c \in Calls /\ d \in Calls /\ e \in Calls
        /\ f \in Calls /\ g \in Calls /\ h \in Calls /\ i \in Calls /\ j \in Calls
    BY <1>1, <2>1
  <2>3. <<j>> = Cons(j, <<>>)
    <3>1. PICK q : q = <<j>>
      OBVIOUS
    <3>2. PICK r : r = <<>>
      OBVIOUS
    <3>3. q \in Seq(Calls) /\ q # <<>> /\ Head(q) = j /\ Tail(q) = r
      BY <2>2, <3>1, <3>2
    <3>4. QED
      BY <3>1, <3>2, <3>3, HeadAndTail
  <2>4. <<i, j>> = Cons(i, <<j>>)
    <3>1. PICK q : q = <<i, j>>
      OBVIOUS
    <3>2. PICK r : r = <<j>>
      OBVIOUS
    <3>3. q \in Seq(Calls) /\ q # <<>> /\ Head(q) = i /\ Tail(q) = r
      BY <2>2, <3>1, <3>2
    <3>4. QED
      BY <3>1, <3>2, <3>3, HeadAndTail
  <2>5. <<h, i, j>> = Cons(h, <<i, j>>)
    <3>1. PICK q : q = <<h, i, j>>
      OBVIOUS
    <3>2. PICK r : r = <<i, j>>
      OBVIOUS
    <3>3. q \in Seq(Calls) /\ q # <<>> /\ Head(q) = h /\ Tail(q) = r
      BY <2>2, <3>1, <3>2
    <3>4. QED
      BY <3>1, <3>2, <3>3, HeadAndTail
  <2>6. <<g, h, i, j>> = Cons(g, <<h, i, j>>)
    <3>1. PICK q : q = <<g, h, i, j>>
      OBVIOUS
    <3>2. PICK r : r = <<h, i, j>>
      OBVIOUS
    <3>3. q \in Seq(Calls) /\ q # <<>> /\ Head(q) = g /\ Tail(q) = r
      BY <2>2, <3>1, <3>2
    <3>4. QED
      BY <3>1, <3>2, <3>3, HeadAndTail
  <2>7. <<f, g, h, i, j>> = Cons(f, <<g, h, i, j>>)
    <3>1. PICK q : q = <<f, g, h, i, j>>
      OBVIOUS
    <3>2. PICK r : r = <<g, h, i, j>>
      OBVIOUS
    <3>3. q \in Seq(Calls) /\ q # <<>> /\ Head(q) = f /\ Tail(q) = r
      BY <2>2, <3>1, <3>2
    <3>4. QED
      BY <3>1, <3>2, <3>3, HeadAndTail
  <2>8. <<e, f, g, h, i, j>> = Cons(e, <<f, g, h, i, j>>)
    <3>1. PICK q : q = <<e, f, g, h, i, j>>
      OBVIOUS
    <3>2. PICK r : r = <<f, g, h, i, j>>
      OBVIOUS
    <3>3. q \in Seq(Calls) /\ q # <<>> /\ Head(q) = e /\ Tail(q) = r
      BY <2>2, <3>1, <3>2
    <3>4. QED
      BY <3>1, <3>2, <3>3, HeadAndTail
  <2>9. <<d, e, f, g, h, i, j>> = Cons(d, <<e, f, g, h, i, j>>)
    <3>1. PICK q : q = <<d, e, f, g, h, i, j>>
      OBVIOUS
    <3>2. PICK r : r = <<e, f, g, h, i, j>>
      OBVIOUS
    <3>3. q \in Seq(Calls) /\ q # <<>> /\ Head(q) = d /\ Tail(q) = r
      BY <2>2, <3>1, <3>2
    <3>4. QED
      BY <3>1, <3>2, <3>3, HeadAndTail
  <2>10. <<c, d, e, f, g, h, i, j>> = Cons(c, <<d, e, f, g, h, i, j>>)
    <3>1. PICK q : q = <<c, d, e, f, g, h, i, j>>
      OBVIOUS
    <3>2. PICK r : r = <<d, e, f, g, h, i, j>>
      OBVIOUS
    <3>3. q \in Seq(Calls) /\ q # <<>> /\ Head(q) = c /\ Tail(q) = r
      BY <2>2, <3>1, <3>2
    <3>4. QED
      BY <3>1, <3>2, <3>3, HeadAndTail
  <2>11. <<b, c, d, e, f, g, h, i, j>> = Cons(b, <<c, d, e, f, g, h, i, j>>)
    <3>1. PICK q : q = <<b, c, d, e, f, g, h, i, j>>
      OBVIOUS
    <3>2. PICK r : r = <<c, d, e, f, g, h, i, j>>
      OBVIOUS
    <3>3. q \in Seq(Calls) /\ q # <<>> /\ Head(q) = b /\ Tail(q) = r
      BY <2>2, <3>1, <3>2
    <3>4. QED
      BY <3>1, <3>2, <3>3, HeadAndTail
  <2>12. <<a, b, c, d, e, f, g, h, i, j>> = Cons(a, <<b, c, d, e, f, g, h, i, j>>)
    <3>1. PICK q : q = <<a, b, c, d, e, f, g, h, i, j>>
      OBVIOUS
    <3>2. PICK r : r = <<b, c, d, e, f, g, h, i, j>>
      OBVIOUS
    <3>3. q \in Seq(Calls) /\ q # <<>> /\ Head(q) = a /\ Tail(q) = r
      BY <2>2, <3>1, <3>2
    <3>4. QED
      BY <3>1, <3>2, <3>3, HeadAndTail
  <2>13. <<a, b, c, d, e, f, g, h, i, j>> =
          Cons(a, Cons(b, Cons(c, Cons(d, Cons(e, Cons(f, Cons(g, Cons(h, Cons(i, Cons(j, <<>>))))))))))
    BY <2>3, <2>4, <2>5, <2>6, <2>7, <2>8, <2>9, <2>10, <2>11, <2>12, Zenon
  <2>14. Render = <<a, b, c, d, e, f, g, h, i, j>>
    BY <2>1 DEF Render, ClearCall, Color, Draw, FlipCall
  <2>15. QED
    BY <2>1, <2>13, <2>14, Zenon DEF R0, R1, R2, R3, R4, R5, R6, R7, R8, R9
<1>3. Exit = E0
  <2>1. PICK a, b, c, d, e, f, g, h :
              /\ a = Color("none") /\ b = ClearCall /\ c = FlipCall /\ d = ClearCall
              /\ e = Color("white") /\ f = Draw("message") /\ g = FlipCall /\ h = ExitCall
    OBVIOUS
  <2>2. /\ a \in Calls /\ b \in Calls /\ c \in Calls /\ d \in Calls
        /\ e \in Calls /\ f \in Calls /\ g \in Calls /\ h \in Calls
    BY <1>1, <2>1
  <2>3. <<h>> = Cons(h, <<>>)
    <3>1. PICK q : q = <<h>>
      OBVIOUS
    <3>2. PICK r : r = <<>>
      OBVIOUS
    <3>3. q \in Seq(Calls) /\ q # <<>> /\ Head(q) = h /\ Tail(q) = r
      BY <2>2, <3>1, <3>2
    <3>4. QED
      BY <3>1, <3>2, <3>3, HeadAndTail
  <2>4. <<g, h>> = Cons(g, <<h>>)
    <3>1. PICK q : q = <<g, h>>
      OBVIOUS
    <3>2. PICK r : r = <<h>>
      OBVIOUS
    <3>3. q \in Seq(Calls) /\ q # <<>> /\ Head(q) = g /\ Tail(q) = r
      BY <2>2, <3>1, <3>2
    <3>4. QED
      BY <3>1, <3>2, <3>3, HeadAndTail
  <2>5. <<f, g, h>> = Cons(f, <<g, h>>)
    <3>1. PICK q : q = <<f, g, h>>
      OBVIOUS
    <3>2. PICK r : r = <<g, h>>
      OBVIOUS
    <3>3. q \in Seq(Calls) /\ q # <<>> /\ Head(q) = f /\ Tail(q) = r
      BY <2>2, <3>1, <3>2
    <3>4. QED
      BY <3>1, <3>2, <3>3, HeadAndTail
  <2>6. <<e, f, g, h>> = Cons(e, <<f, g, h>>)
    <3>1. PICK q : q = <<e, f, g, h>>
      OBVIOUS
    <3>2. PICK r : r = <<f, g, h>>
      OBVIOUS
    <3>3. q \in Seq(Calls) /\ q # <<>> /\ Head(q) = e /\ Tail(q) = r
      BY <2>2, <3>1, <3>2
    <3>4. QED
      BY <3>1, <3>2, <3>3, HeadAndTail
  <2>7. <<d, e, f, g, h>> = Cons(d, <<e, f, g, h>>)
    <3>1. PICK q : q = <<d, e, f, g, h>>
      OBVIOUS
    <3>2. PICK r : r = <<e, f, g, h>>
      OBVIOUS
    <3>3. q \in Seq(Calls) /\ q # <<>> /\ Head(q) = d /\ Tail(q) = r
      BY <2>2, <3>1, <3>2
    <3>4. QED
      BY <3>1, <3>2, <3>3, HeadAndTail
  <2>8. <<c, d, e, f, g, h>> = Cons(c, <<d, e, f, g, h>>)
    <3>1. PICK q : q = <<c, d, e, f, g, h>>
      OBVIOUS
    <3>2. PICK r : r = <<d, e, f, g, h>>
      OBVIOUS
    <3>3. q \in Seq(Calls) /\ q # <<>> /\ Head(q) = c /\ Tail(q) = r
      BY <2>2, <3>1, <3>2
    <3>4. QED
      BY <3>1, <3>2, <3>3, HeadAndTail
  <2>9. <<b, c, d, e, f, g, h>> = Cons(b, <<c, d, e, f, g, h>>)
    <3>1. PICK q : q = <<b, c, d, e, f, g, h>>
      OBVIOUS
    <3>2. PICK r : r = <<c, d, e, f, g, h>>
      OBVIOUS
    <3>3. q \in Seq(Calls) /\ q # <<>> /\ Head(q) = b /\ Tail(q) = r
      BY <2>2, <3>1, <3>2
    <3>4. QED
      BY <3>1, <3>2, <3>3, HeadAndTail
  <2>10. <<a, b, c, d, e, f, g, h>> = Cons(a, <<b, c, d, e, f, g, h>>)
    <3>1. PICK q : q = <<a, b, c, d, e, f, g, h>>
      OBVIOUS
    <3>2. PICK r : r = <<b, c, d, e, f, g, h>>
      OBVIOUS
    <3>3. q \in Seq(Calls) /\ q # <<>> /\ Head(q) = a /\ Tail(q) = r
      BY <2>2, <3>1, <3>2
    <3>4. QED
      BY <3>1, <3>2, <3>3, HeadAndTail
  <2>11. <<a, b, c, d, e, f, g, h>> =
          Cons(a, Cons(b, Cons(c, Cons(d, Cons(e, Cons(f, Cons(g, Cons(h, <<>>))))))))
    BY <2>3, <2>4, <2>5, <2>6, <2>7, <2>8, <2>9, <2>10, Zenon
  <2>12. Exit = <<a, b, c, d, e, f, g, h>>
    BY <2>1 DEF Exit, ClearCall, Color, Draw, ExitCall, FlipCall
  <2>13. QED
    BY <2>1, <2>11, <2>12, Zenon DEF E0, E1, E2, E3, E4, E5, E6, E7
<1>4. R0 \in Seq(Calls) /\ S3 \in Seq(Calls) /\ <<MenuCall>> \in Seq(Calls)
  <2>1. PICK m : m = MenuCall
    OBVIOUS
  <2>2. m \in Calls
    BY <1>1, <2>1
  <2>3. <<m>> \in Seq(Calls)
    BY <2>2
  <2>4. QED
    BY <2>1, <2>3, RenderLists, StartLists DEF Begins
<1>5. <<MenuCall>> \o R0 = S3
  BY DEF S3, Cons
<1>6. ASSUME NEW u
      PROVE  Startup("none", u) = S3
  <2>1. Startup("none", u) = (<<>> \o <<MenuCall>>) \o R0
    BY <1>2 DEF Startup, MenuCall
  <2>2. <<>> \o <<MenuCall>> = <<MenuCall>>
    BY <1>4
  <2>3. QED
    BY <1>5, <2>1, <2>2, Zenon
<1>7. ASSUME NEW b, NEW u, b # "none"
      PROVE  \E f \in {"found", "none"} : Startup(b, u) = S0(f)
  <2>1. PICK f \in {"found", "none"} : f = IF u THEN "found" ELSE "none"
    OBVIOUS
  <2>2. Startup(b, u) = (<<FlipCall, FlipCall, Font(f)>> \o <<MenuCall>>) \o R0
    BY <1>2, <1>7, <2>1, Zenon DEF Startup, MenuCall, FlipCall, Font
  <2>3. PICK l : l = <<FlipCall, FlipCall, Font(f)>>
    OBVIOUS
  <2>4. PICK x, y : x = FlipCall /\ y = Font(f)
    OBVIOUS
  <2>5. x \in Calls /\ y \in Calls
    BY <2>4, OuterCallFacts
  <2>6. l \in Seq(Calls)
    <3>1. <<x, x, y>> \in Seq(Calls)
      BY <2>5
    <3>2. QED
      BY <2>3, <2>4, <3>1
  <2>7. (l \o <<MenuCall>>) \o R0 = l \o S3
    <3>1. (l \o <<MenuCall>>) \o R0 = l \o (<<MenuCall>> \o R0)
      <4>1. PICK m \in Seq(Calls) : m = <<MenuCall>>
        BY <1>4
      <4>2. (l \o m) \o R0 = l \o (m \o R0)
        BY <1>4, <2>6, CatThree
      <4>3. QED
        BY <4>1, <4>2, Zenon
    <3>2. QED
      BY <1>5, <3>1, Zenon
  <2>8. l \o S3 = S0(f)
    <3>1. <<x, x, y>> \o S3 = Cons(x, Cons(x, Cons(y, S3)))
      BY <1>4, <2>5, ConsThree, Zenon
    <3>2. QED
      BY <2>3, <2>4, <3>1, Zenon DEF S0, S1, S2
  <2>9. QED
    BY <2>2, <2>3, <2>7, <2>8, Zenon
<1>8. QED
  BY <1>2, <1>3, <1>6, <1>7

-----------------------------------------------------------------------------
(* The next call, and the place it is made at.                             *)

Inner == {"poll", "handle", "turn", "sync", "return", "assign"}

Rests == {<<>>, E3, E7, S1("found"), S2("found"), S1("none"), S2("none")}

LEMMA RestLists == \A r \in Rests : r \in Seq(Calls)
<1>1. <<>> \in Seq(Calls)
  OBVIOUS
<1>2. E3 \in Seq(Calls) /\ E7 \in Seq(Calls)
  BY ExitLists DEF Begins
<1>3. \A f \in {"found", "none"} : S1(f) \in Seq(Calls) /\ S2(f) \in Seq(Calls)
  BY StartLists DEF Begins
<1>4. QED
  BY <1>1, <1>2, <1>3 DEF Rests

(* The lists of calls inside gr_flip().                                    *)
LEMMA InnerLists ==
  ASSUME NEW r \in Seq(Calls)
  PROVE  /\ Begins(Cons(ReturnCall, r), "return", "", r)
         /\ Begins(Cons(TurnCall, Cons(ReturnCall, r)), "turn", "", Cons(ReturnCall, r))
         /\ Begins(Cons(PollCall, Cons(TurnCall, Cons(ReturnCall, r))), "poll", "",
                   Cons(TurnCall, Cons(ReturnCall, r)))
         /\ Begins(Cons(HandleCall, Cons(TurnCall, Cons(ReturnCall, r))), "handle", "",
                   Cons(TurnCall, Cons(ReturnCall, r)))
         /\ \A s \in Surfaces : /\ Begins(Cons(SyncCall(s), Cons(ReturnCall, r)), "sync", s,
                                          Cons(ReturnCall, r))
                                /\ Begins(Cons(AssignCall(s), r), "assign", s, r)
<1>1. PollCall[2] = "" /\ HandleCall[2] = "" /\ TurnCall[2] = "" /\ ReturnCall[2] = ""
  BY DEF PollCall, HandleCall, TurnCall, ReturnCall
<1>2. Begins(Cons(ReturnCall, r), "return", "", r) /\ Cons(ReturnCall, r) \in Seq(Calls)
  BY <1>1, BeginsWith, FlipCallFacts, ConsFacts
<1>3. /\ Begins(Cons(TurnCall, Cons(ReturnCall, r)), "turn", "", Cons(ReturnCall, r))
      /\ Cons(TurnCall, Cons(ReturnCall, r)) \in Seq(Calls)
  BY <1>1, <1>2, BeginsWith, FlipCallFacts, ConsFacts
<1>4. /\ Begins(Cons(PollCall, Cons(TurnCall, Cons(ReturnCall, r))), "poll", "",
                Cons(TurnCall, Cons(ReturnCall, r)))
      /\ Begins(Cons(HandleCall, Cons(TurnCall, Cons(ReturnCall, r))), "handle", "",
                Cons(TurnCall, Cons(ReturnCall, r)))
  BY <1>1, <1>3, BeginsWith, FlipCallFacts
<1>5. ASSUME NEW s \in Surfaces
      PROVE  /\ Begins(Cons(SyncCall(s), Cons(ReturnCall, r)), "sync", s, Cons(ReturnCall, r))
             /\ Begins(Cons(AssignCall(s), r), "assign", s, r)
  BY <1>2, BeginsWith, FlipCallFacts
<1>6. QED
  BY <1>2, <1>3, <1>4, <1>5

LEMMA TargetTypes ==
  ASSUME ScreenTypeOK
  PROVE  Target \in Surfaces /\ current \in Surfaces
<1>1. current \in Surfaces /\ "b" \in Surfaces
  BY DEF ScreenTypeOK, TypeOK, Surfaces
<1>2. Other(current) \in Surfaces
  BY <1>1, OtherTypes
<1>3. Target \in {current, Other(current), "b"}
  BY DEF Target
<1>4. QED
  BY <1>1, <1>2, <1>3

(* Inside gr_flip(), the next call says how far it is.                     *)
LEMMA InFlipAt ==
  ASSUME ScreenTypeOK, NEW q, NEW r \in Seq(Calls), InFlip(q, r)
  PROVE  LET op == Head(q)[1]
             before == backend \in {"drm", "adf"} /\ Latest = Target
             after == Latest = Other(Target)
         IN  /\ q # <<>> /\ op \in Inner
             /\ op = "poll" => before /\ Tail(q) = Cons(TurnCall, Cons(ReturnCall, r))
             /\ op = "handle" => before /\ Tail(q) = Cons(TurnCall, Cons(ReturnCall, r))
             /\ op = "turn" => before /\ Tail(q) = Cons(ReturnCall, r)
             /\ op = "sync" => after /\ Tail(q) = Cons(ReturnCall, r)
             /\ op = "return" => after /\ Tail(q) = r
             /\ op = "assign" => after /\ Tail(q) = r /\ Head(q)[2] = Target
<1>1. CASE /\ backend \in {"drm", "adf"} /\ Latest = Target
           /\ q = Cons(PollCall, Cons(TurnCall, Cons(ReturnCall, r)))
  <2>1. q # <<>> /\ Head(q)[1] = "poll" /\ Tail(q) = Cons(TurnCall, Cons(ReturnCall, r))
    BY <1>1, InnerLists, TargetTypes DEF Begins
  <2>2. QED
    BY <1>1, <2>1 DEF Inner
<1>2. CASE /\ backend \in {"drm", "adf"} /\ Latest = Target
           /\ q = Cons(HandleCall, Cons(TurnCall, Cons(ReturnCall, r)))
  <2>1. q # <<>> /\ Head(q)[1] = "handle" /\ Tail(q) = Cons(TurnCall, Cons(ReturnCall, r))
    BY <1>2, InnerLists, TargetTypes DEF Begins
  <2>2. QED
    BY <1>2, <2>1 DEF Inner
<1>3. CASE /\ backend \in {"drm", "adf"} /\ Latest = Target
           /\ q = Cons(TurnCall, Cons(ReturnCall, r))
  <2>1. q # <<>> /\ Head(q)[1] = "turn" /\ Tail(q) = Cons(ReturnCall, r)
    BY <1>3, InnerLists, TargetTypes DEF Begins
  <2>2. QED
    BY <1>3, <2>1 DEF Inner
<1>4. CASE /\ Latest = Other(Target)
           /\ q = Cons(SyncCall(current), Cons(ReturnCall, r))
  <2>1. q # <<>> /\ Head(q)[1] = "sync" /\ Tail(q) = Cons(ReturnCall, r)
    <3>1. Begins(Cons(SyncCall(current), Cons(ReturnCall, r)), "sync", current, Cons(ReturnCall, r))
      BY InnerLists, TargetTypes, Zenon
    <3>2. QED
      BY <1>4, <3>1 DEF Begins
  <2>2. QED
    BY <1>4, <2>1 DEF Inner
<1>5. CASE /\ Latest = Other(Target)
           /\ q = Cons(ReturnCall, r)
  <2>1. q # <<>> /\ Head(q)[1] = "return" /\ Tail(q) = r
    BY <1>5, InnerLists, TargetTypes DEF Begins
  <2>2. QED
    BY <1>5, <2>1 DEF Inner
<1>6. CASE /\ Latest = Other(Target)
           /\ q = Cons(AssignCall(Target), r)
  <2>1. q # <<>> /\ Head(q)[1] = "assign" /\ Tail(q) = r /\ Head(q)[2] = Target
    <3>1. Begins(Cons(AssignCall(Target), r), "assign", Target, r)
      BY InnerLists, TargetTypes, Zenon
    <3>2. QED
      BY <1>6, <3>1 DEF Begins
  <2>2. QED
    BY <1>6, <2>1 DEF Inner
<1>7. QED
  BY <1>1, <1>2, <1>3, <1>4, <1>5, <1>6 DEF InFlip

(* A call outside gr_flip() is made from one of these lists.               *)
Outside(q) ==
  /\ Steady => Coherent
  /\ IF menu THEN Rendering(q) ELSE Leaving(q) \/ Starts(q)

(* Which call of which list it is.                                         *)
LEMMA RenderingAt ==
  ASSUME NEW q, Rendering(q)
  PROVE  LET op == Head(q)[1]  arg == Head(q)[2]  r == Tail(q) IN
         /\ op \in {"color", "clear", "draw", "flip"}
         /\ op = "color" =>
              \/ arg = "none" /\ r = R1
              \/ arg = "white" /\ r = R3 /\ On("none", {})
              \/ arg = "black" /\ r = R6 /\ On("white", First2)
              \/ arg = "white" /\ r = R8 /\ On("black", First3)
         /\ op = "clear" => r = R2 /\ ink = "none"
         /\ op = "draw" =>
              \/ arg = "title" /\ r = R4 /\ On("white", {})
              \/ arg = "bar" /\ r = R5 /\ On("white", {Part("title", "white")})
              \/ arg = "selected" /\ r = R7 /\ On("black", First2)
              \/ arg = "extra" /\ r = R9 /\ On("white", First3)
         /\ op = "flip" => r = <<>> /\ On("white", Frame(version).strokes)
<1>1. CASE q = R0
  <2>1. Begins(q, "color", "none", R1)
    BY <1>1, RenderLists
  <2>2. Head(q)[1] = "color" /\ Head(q)[2] = "none" /\ Tail(q) = R1
    BY <2>1 DEF Begins
  <2>3. QED
    BY <1>1, <2>2
<1>2. CASE q = R1 /\ ink = "none"
  <2>1. Begins(q, "clear", "", R2)
    BY <1>2, RenderLists
  <2>2. Head(q)[1] = "clear" /\ Head(q)[2] = "" /\ Tail(q) = R2
    BY <2>1 DEF Begins
  <2>3. QED
    BY <1>2, <2>2
<1>3. CASE q = R2 /\ On("none", {})
  <2>1. Begins(q, "color", "white", R3)
    BY <1>3, RenderLists
  <2>2. Head(q)[1] = "color" /\ Head(q)[2] = "white" /\ Tail(q) = R3
    BY <2>1 DEF Begins
  <2>3. QED
    BY <1>3, <2>2
<1>4. CASE q = R3 /\ On("white", {})
  <2>1. Begins(q, "draw", "title", R4)
    BY <1>4, RenderLists
  <2>2. Head(q)[1] = "draw" /\ Head(q)[2] = "title" /\ Tail(q) = R4
    BY <2>1 DEF Begins
  <2>3. QED
    BY <1>4, <2>2
<1>5. CASE q = R4 /\ On("white", {Part("title", "white")})
  <2>1. Begins(q, "draw", "bar", R5)
    BY <1>5, RenderLists
  <2>2. Head(q)[1] = "draw" /\ Head(q)[2] = "bar" /\ Tail(q) = R5
    BY <2>1 DEF Begins
  <2>3. QED
    BY <1>5, <2>2
<1>6. CASE q = R5 /\ On("white", First2)
  <2>1. Begins(q, "color", "black", R6)
    BY <1>6, RenderLists
  <2>2. Head(q)[1] = "color" /\ Head(q)[2] = "black" /\ Tail(q) = R6
    BY <2>1 DEF Begins
  <2>3. QED
    BY <1>6, <2>2
<1>7. CASE q = R6 /\ On("black", First2)
  <2>1. Begins(q, "draw", "selected", R7)
    BY <1>7, RenderLists
  <2>2. Head(q)[1] = "draw" /\ Head(q)[2] = "selected" /\ Tail(q) = R7
    BY <2>1 DEF Begins
  <2>3. QED
    BY <1>7, <2>2
<1>8. CASE q = R7 /\ On("black", First3)
  <2>1. Begins(q, "color", "white", R8)
    BY <1>8, RenderLists
  <2>2. Head(q)[1] = "color" /\ Head(q)[2] = "white" /\ Tail(q) = R8
    BY <2>1 DEF Begins
  <2>3. QED
    BY <1>8, <2>2
<1>9. CASE q = R8 /\ On("white", First3)
  <2>1. Begins(q, "draw", "extra", R9)
    BY <1>9, RenderLists
  <2>2. Head(q)[1] = "draw" /\ Head(q)[2] = "extra" /\ Tail(q) = R9
    BY <2>1 DEF Begins
  <2>3. QED
    BY <1>9, <2>2
<1>10. CASE q = R9 /\ On("white", Frame(version).strokes)
  <2>1. Begins(q, "flip", "", <<>>)
    BY <1>10, RenderLists
  <2>2. Head(q)[1] = "flip" /\ Head(q)[2] = "" /\ Tail(q) = <<>>
    BY <2>1 DEF Begins
  <2>3. QED
    BY <1>10, <2>2
<1>11. QED
  BY <1>1, <1>2, <1>3, <1>4, <1>5, <1>6, <1>7, <1>8, <1>9, <1>10 DEF Rendering

LEMMA LeavingAt ==
  ASSUME NEW q, Leaving(q)
  PROVE  LET op == Head(q)[1]  arg == Head(q)[2]  r == Tail(q) IN
         /\ op \in {"color", "clear", "draw", "flip", "exit"}
         /\ op = "color" =>
              \/ arg = "none" /\ r = E1
              \/ arg = "white" /\ r = E5 /\ Wiped /\ On("none", {})
         /\ op = "clear" => ink = "none" /\ (r = E2 \/ (r = E4 /\ Wiped))
         /\ op = "draw" => arg = "message" /\ r = E6 /\ Wiped /\ On("white", {})
         /\ op = "flip" =>
              \/ r = E3 /\ On("none", {})
              \/ r = E7 /\ Wiped /\ On("white", Message.strokes)
         /\ op = "exit" => r = <<>> /\ (Steady => NoMenu /\ Shows(Message))
<1>1. CASE q = E0
  <2>1. Begins(q, "color", "none", E1)
    BY <1>1, ExitLists
  <2>2. Head(q)[1] = "color" /\ Head(q)[2] = "none" /\ Tail(q) = E1
    BY <2>1 DEF Begins
  <2>3. QED
    BY <1>1, <2>2
<1>2. CASE q = E1 /\ ink = "none"
  <2>1. Begins(q, "clear", "", E2)
    BY <1>2, ExitLists
  <2>2. Head(q)[1] = "clear" /\ Head(q)[2] = "" /\ Tail(q) = E2
    BY <2>1 DEF Begins
  <2>3. QED
    BY <1>2, <2>2
<1>3. CASE q = E2 /\ On("none", {})
  <2>1. Begins(q, "flip", "", E3)
    BY <1>3, ExitLists
  <2>2. Head(q)[1] = "flip" /\ Head(q)[2] = "" /\ Tail(q) = E3
    BY <2>1 DEF Begins
  <2>3. QED
    BY <1>3, <2>2
<1>4. CASE q = E3 /\ Wiped /\ ink = "none"
  <2>1. Begins(q, "clear", "", E4)
    BY <1>4, ExitLists
  <2>2. Head(q)[1] = "clear" /\ Head(q)[2] = "" /\ Tail(q) = E4
    BY <2>1 DEF Begins
  <2>3. QED
    BY <1>4, <2>2
<1>5. CASE q = E4 /\ Wiped /\ On("none", {})
  <2>1. Begins(q, "color", "white", E5)
    BY <1>5, ExitLists
  <2>2. Head(q)[1] = "color" /\ Head(q)[2] = "white" /\ Tail(q) = E5
    BY <2>1 DEF Begins
  <2>3. QED
    BY <1>5, <2>2
<1>6. CASE q = E5 /\ Wiped /\ On("white", {})
  <2>1. Begins(q, "draw", "message", E6)
    BY <1>6, ExitLists
  <2>2. Head(q)[1] = "draw" /\ Head(q)[2] = "message" /\ Tail(q) = E6
    BY <2>1 DEF Begins
  <2>3. QED
    BY <1>6, <2>2
<1>7. CASE q = E6 /\ Wiped /\ On("white", Message.strokes)
  <2>1. Begins(q, "flip", "", E7)
    BY <1>7, ExitLists
  <2>2. Head(q)[1] = "flip" /\ Head(q)[2] = "" /\ Tail(q) = E7
    BY <2>1 DEF Begins
  <2>3. QED
    BY <1>7, <2>2
<1>8. CASE q = E7 /\ (Steady => NoMenu /\ Shows(Message))
  <2>1. Begins(q, "exit", "", <<>>)
    BY <1>8, ExitLists
  <2>2. Head(q)[1] = "exit" /\ Head(q)[2] = "" /\ Tail(q) = <<>>
    BY <2>1 DEF Begins
  <2>3. QED
    BY <1>8, <2>2
<1>9. QED
  BY <1>1, <1>2, <1>3, <1>4, <1>5, <1>6, <1>7, <1>8 DEF Leaving

LEMMA StartsAt ==
  ASSUME NEW q, Starts(q)
  PROVE  LET op == Head(q)[1]  r == Tail(q) IN
         /\ op \in {"menu", "font", "flip"}
         /\ op = "menu" => r = R0
         /\ op = "font" => r = S3
         /\ op = "flip" => r \in {S1("found"), S2("found"), S1("none"), S2("none")}
  BY StartLists DEF Starts, Begins

LEMMA PlaceOf ==
  ASSUME ScreenTypeOK, NEW q, q # <<>>, Place(q)
  PROVE  IF Head(q)[1] \in Inner
         THEN \E r \in Rests : r \in Seq(Calls) /\ InFlip(q, r) /\ Flipped(r)
         ELSE Outside(q)
<1>1. CASE Outside(q)
  <2>1. CASE Rendering(q)
    BY <1>1, <2>1, RenderingAt DEF Inner
  <2>2. CASE Leaving(q)
    BY <1>1, <2>2, LeavingAt DEF Inner
  <2>3. CASE Starts(q)
    BY <1>1, <2>3, StartsAt DEF Inner
  <2>4. QED
    BY <1>1, <2>1, <2>2, <2>3 DEF Outside
<1>2. CASE \E r \in Rests : InFlip(q, r) /\ Flipped(r)
  BY <1>2, RestLists, InFlipAt
<1>3. QED
  BY <1>1, <1>2 DEF Place, Outside, Rests

-----------------------------------------------------------------------------
(* The steps of a routine that nothing disturbs.                           *)

(* Thread t makes a call.                                                  *)
Going(t) ==
  ScreenTypeOK /\ FrameInv /\ t \in Threads /\ Runs(t) /\ calm >= 0 /\ Calm

LEMMA GoingFrom ==
  ASSUME NEW t, Going(t)
  PROVE  /\ t \in Threads /\ hardware = Unknown /\ dead = "no" /\ calm \in 0..2
         /\ todo[t] # <<>> /\ todo[t] \in Seq(Calls) /\ todo \in [Threads -> Seq(Calls)]
         /\ Head(todo[t]) \in Calls /\ Tail(todo[t]) \in Seq(Calls)
         /\ \A u \in Threads \ {t} : todo[u] = <<>>
         /\ IF Head(todo[t])[1] \in Inner
            THEN \E r \in Rests : r \in Seq(Calls) /\ InFlip(todo[t], r) /\ Flipped(r)
            ELSE Outside(todo[t])
<1>1. /\ t \in Threads /\ hardware = Unknown /\ dead = "no" /\ todo[t] # <<>>
      /\ todo[t] \in Seq(Calls) /\ Head(todo[t]) \in Calls
  BY RunningTypes DEF Going
<1>2. calm \in 0..2 /\ todo \in [Threads -> Seq(Calls)]
  BY DEF Going, ScreenTypeOK, TypeOK
<1>3. PICK u \in Threads : (\A v \in Threads \ {u} : todo[v] = <<>>) /\ Place(todo[u])
  BY <1>1 DEF Going, FrameInv, Orderly
<1>4. u = t
  BY <1>1, <1>3
<1>5. Tail(todo[t]) \in Seq(Calls)
  BY <1>1
<1>6. QED
  BY <1>1, <1>2, <1>3, <1>4, <1>5, PlaceOf DEF Going

(* What is then left, and whether the routine has ended.                   *)
LEMMA GoesOn ==
  ASSUME NEW t, Going(t), NEW calls \in Seq(Calls), Continue(t, calls)
  PROVE  /\ todo'[t] = calls \o Tail(todo[t])
         /\ \A u \in Threads \ {t} : todo'[u] = <<>>
         /\ todo'[t] # <<>> => calm' = calm
         /\ todo'[t] = <<>> => calm' = IF calm = 2 THEN 2 ELSE calm + 1
<1>1. /\ todo' \in [Threads -> Seq(Calls)] /\ todo'[t] = calls \o Tail(todo[t])
      /\ \A u \in Threads \ {t} : todo'[u] = <<>>
  BY GoingFrom, ContinueTypes
<1>2. t \in Threads /\ calm \in 0..2
  BY GoingFrom
<1>3. todo'[t] # <<>> => Ended = 0
  BY <1>2 DEF Ended
<1>4. todo'[t] = <<>> => Ended = 1
  <2>1. ASSUME todo'[t] = <<>>
        PROVE  todo' = [u \in Threads |-> <<>>]
    BY <1>1, <2>1
  <2>2. QED
    BY <2>1 DEF Ended
<1>5. calm' = IF calm = 2 THEN 2 ELSE calm + Ended
  BY DEF Going, Calm
<1>6. QED
  BY <1>1, <1>2, <1>3, <1>4, <1>5

LEMMA Placed ==
  ASSUME NEW t, Going(t), NEW calls \in Seq(Calls), Continue(t, calls), NEW q, todo'[t] = q,
         Place(q)'
  PROVE  Orderly'
  BY GoingFrom, GoesOn DEF Orderly

(* A call outside gr_flip() that leaves the buffers where they are.        *)
LEMMA OutsideStep ==
  ASSUME NEW t, Going(t), Continue(t, <<>>), UNCHANGED <<backend, current, gr_draw>>,
         Steady => Coherent, NEW r, r = Tail(todo[t]), r # <<>>,
         IF menu' THEN Rendering(r)' ELSE Leaving(r)' \/ Starts(r)'
  PROVE  Orderly'
<1>1. <<>> \in Seq(Calls) /\ <<>> \o r = r
  BY GoingFrom
<1>2. todo'[t] = r /\ calm' = calm
  BY <1>1, GoesOn
<1>3. (Steady => Coherent)'
  BY <1>2 DEF Steady, Coherent, Target, Other
<1>4. Place(r)'
  BY <1>3 DEF Place
<1>5. QED
  BY <1>1, <1>2, <1>4, Placed

LEMMA NotEmpty ==
  /\ R1 # <<>> /\ R2 # <<>> /\ R3 # <<>> /\ R4 # <<>> /\ R5 # <<>> /\ R6 # <<>> /\ R7 # <<>>
  /\ R8 # <<>> /\ R9 # <<>> /\ R0 # <<>> /\ S3 # <<>>
  /\ E0 # <<>> /\ E1 # <<>> /\ E2 # <<>> /\ E3 # <<>> /\ E4 # <<>> /\ E5 # <<>> /\ E6 # <<>> /\ E7 # <<>>
  BY RenderLists, ExitLists, StartLists DEF Begins

LEMMA CalmKept ==
  ASSUME NEW t, Going(t), Continue(t, <<>>), Tail(todo[t]) # <<>>
  PROVE  calm' = calm
<1>1. <<>> \in Seq(Calls) /\ <<>> \o Tail(todo[t]) = Tail(todo[t])
  BY GoingFrom
<1>2. QED
  BY <1>1, GoesOn

(* gr_color()                                                              *)
LEMMA ColorPlaces ==
  ASSUME NEW t, Going(t), GrColor(t)
  PROVE  Orderly'
<1>1. /\ Continue(t, <<>>) /\ Head(todo[t])[1] = "color" /\ ink' = Head(todo[t])[2]
      /\ UNCHANGED <<backend, menu, version, current, gr_draw, surface>>
  BY DEF GrColor, At, Arg, menuVars, flipVars
<1>2. Outside(todo[t])
  BY <1>1, GoingFrom DEF Inner
<1>3. PICK r : r = Tail(todo[t])
  OBVIOUS
<1>4. ASSUME NEW c, NEW d, NEW s, On(c, s), ink' = d
      PROVE  On(d, s)'
  BY <1>1, <1>4 DEF On
<1>5. CASE menu
  <2>1. Rendering(todo[t])
    BY <1>2, <1>5 DEF Outside
  <2>2. \/ ink' = "none" /\ r = R1
        \/ ink' = "white" /\ r = R3 /\ On("none", {})
        \/ ink' = "black" /\ r = R6 /\ On("white", First2)
        \/ ink' = "white" /\ r = R8 /\ On("black", First3)
    BY <1>1, <1>3, <2>1, RenderingAt
  <2>3. r # <<>>
    BY <2>2, NotEmpty
  <2>4. Rendering(r)'
    <3>1. CASE ink' = "none" /\ r = R1
      BY <3>1 DEF Rendering
    <3>2. CASE ink' = "white" /\ r = R3 /\ On("none", {})
      <4>1. On("white", {})'
        BY <1>4, <3>2
      <4>2. QED
        BY <3>2, <4>1 DEF Rendering
    <3>3. CASE ink' = "black" /\ r = R6 /\ On("white", First2)
      <4>1. On("black", First2)'
        BY <1>1, <3>3 DEF On, First2, Part
      <4>2. QED
        BY <3>3, <4>1 DEF Rendering
    <3>4. CASE ink' = "white" /\ r = R8 /\ On("black", First3)
      <4>1. On("white", First3)'
        BY <1>1, <3>4 DEF On, First3, First2, Part
      <4>2. QED
        BY <3>4, <4>1 DEF Rendering
    <3>5. QED
      BY <2>2, <3>1, <3>2, <3>3, <3>4
  <2>5. menu'
    BY <1>1, <1>5
  <2>6. QED
    BY <1>1, <1>2, <1>3, <2>3, <2>4, <2>5, OutsideStep DEF Outside
<1>6. CASE ~menu
  <2>1. Leaving(todo[t])
    BY <1>1, <1>2, <1>6, StartsAt DEF Outside
  <2>2. \/ ink' = "none" /\ r = E1
        \/ ink' = "white" /\ r = E5 /\ Wiped /\ On("none", {})
    BY <1>1, <1>3, <2>1, LeavingAt
  <2>3. r # <<>>
    BY <2>2, NotEmpty
  <2>4. Leaving(r)'
    <3>1. CASE ink' = "none" /\ r = E1
      BY <3>1 DEF Leaving
    <3>2. CASE ink' = "white" /\ r = E5 /\ Wiped /\ On("none", {})
      <4>1. On("white", {})'
        BY <1>4, <3>2
      <4>2. Wiped'
        BY <1>1, <1>3, <2>3, <3>2, CalmKept DEF Wiped, Steady, Other
      <4>3. QED
        BY <3>2, <4>1, <4>2 DEF Leaving
    <3>3. QED
      BY <2>2, <3>1, <3>2
  <2>5. ~menu'
    BY <1>1, <1>6
  <2>6. QED
    BY <1>1, <1>2, <1>3, <2>3, <2>4, <2>5, OutsideStep DEF Outside
<1>7. QED
  BY <1>5, <1>6

(* gr_fill() and gr_text()                                                 *)
LEMMA PaintedPlaces ==
  ASSUME NEW t, Going(t), NEW content, Paint(t, content), dead' = "no"
  PROVE  /\ Continue(t, <<>>) /\ surface' = [surface EXCEPT ![gr_draw] = content]
         /\ gr_draw \in Surfaces /\ surface \in [Surfaces -> Picture]
         /\ UNCHANGED <<backend, menu, version, current, gr_draw, ink>>
<1>1. gr_draw # Null
  BY DEF Paint, Die
<1>2. QED
  BY <1>1 DEF Paint, Going, ScreenTypeOK, TypeOK, menuVars, flipVars

LEMMA DrawnOn ==
  ASSUME NEW p, NEW c, NEW s, On(c, s), c # "none", gr_draw \in Surfaces,
         surface \in [Surfaces -> Picture], surface' = [surface EXCEPT ![gr_draw] = Drawn(p)],
         UNCHANGED <<version, gr_draw, ink>>, NEW u, u = s \cup {Part(p, c)}
  PROVE  On(c, u)'
<1>1. surface[gr_draw] = [ground |-> "none", strokes |-> s] /\ ink = c
  BY DEF On
<1>2. Drawn(p) = [ground |-> "none", strokes |-> u]
  BY <1>1 DEF Drawn, Part
<1>3. surface'[gr_draw'] = [ground |-> "none", strokes |-> u]
  BY <1>2
<1>4. QED
  BY <1>3 DEF On

LEMMA DrawPlaces ==
  ASSUME NEW t, Going(t), GrDraw(t), dead' = "no"
  PROVE  Orderly'
<1>1. /\ Continue(t, <<>>) /\ Head(todo[t])[1] = "draw"
      /\ surface' = [surface EXCEPT ![gr_draw] = Drawn(Head(todo[t])[2])]
      /\ UNCHANGED <<backend, menu, version, current, gr_draw, ink>>
      /\ gr_draw \in Surfaces /\ surface \in [Surfaces -> Picture]
  BY PaintedPlaces DEF GrDraw, At, Arg
<1>2. Outside(todo[t])
  BY <1>1, GoingFrom DEF Inner
<1>3. PICK r, p : r = Tail(todo[t]) /\ p = Head(todo[t])[2]
  OBVIOUS
<1>4. ASSUME NEW c, NEW s, On(c, s), c # "none", NEW u, u = s \cup {Part(p, c)}
      PROVE  On(c, u)'
  BY <1>1, <1>3, <1>4, DrawnOn
<1>5. CASE menu
  <2>1. Rendering(todo[t])
    BY <1>2, <1>5 DEF Outside
  <2>2. \/ p = "title" /\ r = R4 /\ On("white", {})
        \/ p = "bar" /\ r = R5 /\ On("white", {Part("title", "white")})
        \/ p = "selected" /\ r = R7 /\ On("black", First2)
        \/ p = "extra" /\ r = R9 /\ On("white", First3)
    BY <1>1, <1>3, <2>1, RenderingAt
  <2>3. r # <<>>
    BY <2>2, NotEmpty
  <2>4. Rendering(r)'
    <3>1. CASE p = "title" /\ r = R4 /\ On("white", {})
      <4>1. PICK s, u : s = {} /\ u = {Part("title", "white")}
        OBVIOUS
      <4>2. u = s \cup {Part(p, "white")}
        BY <3>1, <4>1 DEF Part
      <4>3. On("white", u)'
        BY <1>4, <3>1, <4>1, <4>2
      <4>4. u = ({Part("title", "white")})'
        BY <1>1, <4>1 DEF Part
      <4>5. QED
        BY <3>1, <4>3, <4>4 DEF Rendering
    <3>2. CASE p = "bar" /\ r = R5 /\ On("white", {Part("title", "white")})
      <4>1. PICK s, u : s = {Part("title", "white")} /\ u = First2
        OBVIOUS
      <4>2. u = s \cup {Part(p, "white")}
        BY <3>2, <4>1 DEF First2, Part
      <4>3. On("white", u)'
        BY <1>4, <3>2, <4>1, <4>2
      <4>4. u = (First2)'
        BY <1>1, <4>1 DEF First2, Part
      <4>5. QED
        BY <3>2, <4>3, <4>4 DEF Rendering
    <3>3. CASE p = "selected" /\ r = R7 /\ On("black", First2)
      <4>1. PICK s, u : s = First2 /\ u = First3
        OBVIOUS
      <4>2. u = s \cup {Part(p, "black")}
        BY <3>3, <4>1 DEF First3, First2, Part
      <4>3. On("black", u)'
        BY <1>4, <3>3, <4>1, <4>2
      <4>4. u = (First3)'
        BY <1>1, <4>1 DEF First3, First2, Part
      <4>5. QED
        BY <3>3, <4>3, <4>4 DEF Rendering
    <3>4. CASE p = "extra" /\ r = R9 /\ On("white", First3)
      <4>1. PICK s, u : s = First3 /\ u = Frame(version).strokes
        OBVIOUS
      <4>2. u = s \cup {Part(p, "white")}
        BY <3>4, <4>1 DEF Frame, First3, First2, Part
      <4>3. On("white", u)'
        BY <1>4, <3>4, <4>1, <4>2
      <4>4. u = (Frame(version).strokes)'
        BY <1>1, <4>1 DEF Frame, First3, First2, Part
      <4>5. QED
        BY <3>4, <4>3, <4>4 DEF Rendering
    <3>5. QED
      BY <2>2, <3>1, <3>2, <3>3, <3>4
  <2>5. menu'
    BY <1>1, <1>5
  <2>6. QED
    BY <1>1, <1>2, <1>3, <2>3, <2>4, <2>5, OutsideStep DEF Outside
<1>6. CASE ~menu
  <2>1. Leaving(todo[t])
    BY <1>1, <1>2, <1>6, StartsAt DEF Outside
  <2>2. p = "message" /\ r = E6 /\ Wiped /\ On("white", {})
    BY <1>1, <1>3, <2>1, LeavingAt
  <2>3. r # <<>>
    BY <2>2, NotEmpty
  <2>4. Leaving(r)'
    <3>1. PICK u : u = Message.strokes
      OBVIOUS
    <3>2. u = {} \cup {Part(p, "white")} /\ u = Message.strokes'
      BY <1>1, <2>2, <3>1 DEF Message, Part
    <3>3. On("white", u)'
      BY <1>4, <2>2, <3>2
    <3>4. Wiped'
      <4>1. calm' = calm /\ Other(gr_draw) \in Surfaces /\ Other(gr_draw) # gr_draw
        BY <1>1, <1>3, <2>3, CalmKept, OtherTypes
      <4>2. surface'[Other(gr_draw)] = surface[Other(gr_draw)]
        BY <1>1, <4>1
      <4>3. QED
        BY <1>1, <2>2, <4>1, <4>2 DEF Wiped, Steady, Other
    <3>5. QED
      BY <2>2, <3>2, <3>3, <3>4 DEF Leaving
  <2>5. ~menu'
    BY <1>1, <1>6
  <2>6. QED
    BY <1>1, <1>2, <1>3, <2>3, <2>4, <2>5, OutsideStep DEF Outside
<1>7. QED
  BY <1>5, <1>6

(* gr_clear()                                                              *)
LEMMA ClearPlaces ==
  ASSUME NEW t, Going(t), GrClear(t), dead' = "no"
  PROVE  Orderly'
<1>1. /\ Continue(t, <<>>) /\ Head(todo[t])[1] = "clear"
      /\ surface' = [surface EXCEPT ![gr_draw] = Cleared]
      /\ UNCHANGED <<backend, menu, version, current, gr_draw, ink>>
      /\ gr_draw \in Surfaces /\ surface \in [Surfaces -> Picture]
  BY PaintedPlaces DEF GrClear, At
<1>2. Outside(todo[t])
  BY <1>1, GoingFrom DEF Inner
<1>3. PICK r : r = Tail(todo[t])
  OBVIOUS
<1>4. ASSUME ink = "none"
      PROVE  On("none", {})'
  <2>1. gr_draw # Null
    BY <1>1 DEF Surfaces, Null
  <2>2. surface'[gr_draw'] = [ground |-> "none", strokes |-> {}]
    BY <1>1, <1>4 DEF Cleared
  <2>3. QED
    BY <1>1, <1>4, <2>1, <2>2 DEF On
<1>5. CASE menu
  <2>1. Rendering(todo[t])
    BY <1>2, <1>5 DEF Outside
  <2>2. r = R2 /\ ink = "none"
    BY <1>1, <1>3, <2>1, RenderingAt
  <2>3. r # <<>> /\ Rendering(r)' /\ menu'
    BY <1>1, <1>4, <1>5, <2>2, NotEmpty DEF Rendering
  <2>4. QED
    BY <1>1, <1>2, <1>3, <2>3, OutsideStep DEF Outside
<1>6. CASE ~menu
  <2>1. Leaving(todo[t])
    BY <1>1, <1>2, <1>6, StartsAt DEF Outside
  <2>2. ink = "none" /\ (r = E2 \/ (r = E4 /\ Wiped))
    BY <1>1, <1>3, <2>1, LeavingAt
  <2>3. r # <<>>
    BY <2>2, NotEmpty
  <2>4. Wiped => Wiped'
    <3>1. calm' = calm /\ Other(gr_draw) \in Surfaces /\ Other(gr_draw) # gr_draw
      BY <1>1, <1>3, <2>3, CalmKept, OtherTypes
    <3>2. surface'[Other(gr_draw)] = surface[Other(gr_draw)]
      BY <1>1, <3>1
    <3>3. QED
      BY <1>1, <3>1, <3>2 DEF Wiped, Steady, Other
  <2>5. Leaving(r)' /\ ~menu'
    BY <1>1, <1>4, <1>6, <2>2, <2>4 DEF Leaving
  <2>6. QED
    BY <1>1, <1>2, <1>3, <2>3, <2>5, OutsideStep DEF Outside
<1>7. QED
  BY <1>5, <1>6

(* gr_flip()                                                               *)

(* The surfaces once gr_draw has been flipped.                             *)
Sends ==
  /\ gr_draw # Null /\ gr_draw = Target => Latest' # Null /\ surface'[Latest'] = surface[gr_draw]
  /\ \A s \in Surfaces : surface'[s] \in {surface[s], surface[Other(s)]}

LEMMA NotDisturbed ==
  ASSUME NEW t, Going(t)
  PROVE  ~Disturb
<1>1. calm \in 0..2 /\ Ended \in {0, 1}
  BY GoingFrom DEF Ended
<1>2. calm' = (IF calm = 2 THEN 2 ELSE calm + Ended)
  BY DEF Going, Calm
<1>3. calm' # Ended - 1
  BY <1>1, <1>2
<1>4. QED
  BY <1>3 DEF Disturb

LEMMA PageFlipSends ==
  ASSUME NEW t, Going(t), PageFlip(t), NEW r, r = Tail(todo[t])
  PROVE  /\ todo'[t] = Cons(PollCall, Cons(TurnCall, Cons(ReturnCall, r)))
         /\ InFlip(Cons(PollCall, Cons(TurnCall, Cons(ReturnCall, r))), r)' /\ Sends
<1>1. /\ pending' = << <<current, t>> >>
      /\ Continue(t, << <<"poll", "">>, <<"turn", "">>, <<"return", "">> >>)
  BY NotDisturbed DEF PageFlip
<1>2. backend = "drm" /\ UNCHANGED <<backend, surface, current>>
  BY DEF PageFlip, Flipping, menuVars
<1>3. todo'[t] = Cons(PollCall, Cons(TurnCall, Cons(ReturnCall, r)))
  <2>1. todo'[t] = <<PollCall, TurnCall, ReturnCall>> \o r /\ r \in Seq(Calls)
    BY <1>1, FlipCalls, GoesOn, GoingFrom DEF PollCall, TurnCall, ReturnCall
  <2>2. QED
    BY <2>1, FlipQueues
<1>4. Latest' = current
  <2>1. PICK p : p = <<current, t>>
    OBVIOUS
  <2>2. p[1] = current /\ pending' = <<p>>
    BY <1>1, <2>1
  <2>3. pending' # <<>> /\ pending'[Len(pending')] = p
    BY <2>2
  <2>4. QED
    BY <2>2, <2>3 DEF Latest
<1>5. Target = current /\ Target' = current
  BY <1>2 DEF Target
<1>6. current \in Surfaces /\ current # Null
  BY TargetTypes DEF Going, Surfaces, Null
<1>7. QED
  BY <1>2, <1>3, <1>4, <1>5, <1>6 DEF InFlip, Sends

LEMMA PostSends ==
  ASSUME NEW t, Going(t), Post(t), NEW r, r = Tail(todo[t])
  PROVE  /\ todo'[t] = Cons(TurnCall, Cons(ReturnCall, r))
         /\ InFlip(Cons(TurnCall, Cons(ReturnCall, r)), r)' /\ Sends
<1>1. /\ pending' = Append(pending, <<current, "none">>)
      /\ Continue(t, << <<"turn", "">>, <<"return", "">> >>)
  BY NotDisturbed DEF Post
<1>2. backend = "adf" /\ UNCHANGED <<backend, surface, current>>
  BY DEF Post, Flipping, menuVars
<1>3. todo'[t] = Cons(TurnCall, Cons(ReturnCall, r))
  <2>1. todo'[t] = <<TurnCall, ReturnCall>> \o r /\ r \in Seq(Calls)
    BY <1>1, FlipCalls, GoesOn, GoingFrom DEF TurnCall, ReturnCall
  <2>2. QED
    BY <2>1, FlipQueues
<1>4. Latest' = current
  <2>1. PICK p : p = <<current, "none">>
    OBVIOUS
  <2>2. p[1] = current /\ pending' = Append(pending, p)
    BY <1>1, <2>1
  <2>3. pending \in Seq(Surfaces \X Owners) /\ p \in Surfaces \X Owners
    BY <2>1 DEF Going, ScreenTypeOK, TypeOK, Owners
  <2>4. PICK S : S = Surfaces \X Owners
    OBVIOUS
  <2>5. pending' # <<>> /\ pending'[Len(pending')] = p
    BY <2>2, <2>3, <2>4
  <2>6. QED
    BY <2>2, <2>5 DEF Latest
<1>5. Target = current /\ Target' = current
  BY <1>2 DEF Target
<1>6. current \in Surfaces /\ current # Null
  BY TargetTypes DEF Going, Surfaces, Null
<1>7. QED
  BY <1>2, <1>3, <1>4, <1>5, <1>6 DEF InFlip, Sends

LEMMA SwapSends ==
  ASSUME NEW t, Going(t), FbSwap(t) \/ FbCopy(t), NEW r, r = Tail(todo[t])
  PROVE  todo'[t] = Cons(ReturnCall, r) /\ InFlip(Cons(ReturnCall, r), r)' /\ Sends
<1>1. Continue(t, << <<"return", "">> >>)
  BY DEF FbSwap, FbCopy
<1>2. todo'[t] = Cons(ReturnCall, r)
  <2>1. todo'[t] = <<ReturnCall>> \o r /\ r \in Seq(Calls)
    BY <1>1, FlipCalls, GoesOn, GoingFrom DEF ReturnCall
  <2>2. QED
    BY <2>1, FlipQueues
<1>3. /\ backend \in {"fbdev", "memory"} /\ UNCHANGED <<backend, pending>> /\ pending = <<>>
      /\ backend = "memory" => shown = "a"
  BY DEF FbSwap, FbCopy, Flipping, menuVars, kernelVars, Going, FrameInv, FbdevShows
<1>4. current \in Surfaces /\ Other(current) \in Surfaces /\ Other(Other(current)) = current
  BY TargetTypes, OtherTypes DEF Going
<1>5. CASE FbSwap(t)
  <2>1. backend = "fbdev" /\ current' = Other(current) /\ shown' = Other(current) /\ UNCHANGED surface
    BY <1>5, NotDisturbed DEF FbSwap, Flipping, Swapped
  <2>2. Latest' = Other(current) /\ Target = Other(current)
    BY <1>3, <2>1 DEF Latest, Target
  <2>3. Target' = current
    BY <1>3, <1>4, <2>1 DEF Target, Other
  <2>4. InFlip(Cons(ReturnCall, r), r)'
    BY <2>2, <2>3 DEF InFlip, Other
  <2>5. Sends
    BY <1>4, <2>1, <2>2 DEF Sends, Surfaces, Null
  <2>6. QED
    BY <1>2, <2>4, <2>5
<1>6. CASE FbCopy(t)
  <2>1. backend = "memory" /\ UNCHANGED <<current, shown>> /\ surface' = [surface EXCEPT !["a"] = surface["b"]]
    BY <1>6 DEF FbCopy, Flipping, flipVars, kernelVars
  <2>2. Latest' = "a" /\ Target = "b" /\ Target' = "b"
    BY <1>3, <2>1 DEF Latest, Target
  <2>3. Other("b") = "a" /\ Other("a") = "b"
    BY DEF Other
  <2>4. InFlip(Cons(ReturnCall, r), r)'
    BY <2>2, <2>3 DEF InFlip, Other
  <2>5. surface \in [Surfaces -> Picture]
    BY DEF Going, ScreenTypeOK
  <2>6. surface'["a"] = surface["b"] /\ surface'["b"] = surface["b"]
    BY <2>1, <2>5 DEF Surfaces
  <2>7. Sends
    BY <2>2, <2>3, <2>6 DEF Sends, Surfaces, Null
  <2>8. QED
    BY <1>2, <2>4, <2>7
<1>7. QED
  BY <1>5, <1>6

(* A flip begins.                                                          *)
LEMMA FlipPlaces ==
  ASSUME NEW t, Going(t), PageFlip(t) \/ FbSwap(t) \/ FbCopy(t) \/ Post(t)
  PROVE  Orderly'
<1>1. Head(todo[t])[1] = "flip" /\ UNCHANGED <<menu, version, ink>>
  BY DEF PageFlip, FbSwap, FbCopy, Post, Flipping, At, menuVars
<1>2. Outside(todo[t])
  BY <1>1, GoingFrom DEF Inner
<1>3. PICK r : r = Tail(todo[t])
  OBVIOUS
<1>4. r \in Seq(Calls)
  BY <1>3, GoingFrom
<1>5. PICK q : todo'[t] = q /\ InFlip(q, r)' /\ Sends /\ q # <<>>
  <2>1. PICK q : /\ todo'[t] = q /\ InFlip(q, r)' /\ Sends
                 /\ q \in {Cons(PollCall, Cons(TurnCall, Cons(ReturnCall, r))),
                          Cons(TurnCall, Cons(ReturnCall, r)), Cons(ReturnCall, r)}
    BY <1>3, PageFlipSends, SwapSends, PostSends
  <2>2. q # <<>>
    <3>1. /\ Cons(PollCall, Cons(TurnCall, Cons(ReturnCall, r))) # <<>>
          /\ Cons(TurnCall, Cons(ReturnCall, r)) # <<>> /\ Cons(ReturnCall, r) # <<>>
      BY <1>4, InnerLists DEF Begins
    <3>2. QED
      BY <2>1, <3>1
  <2>3. QED
    BY <2>1, <2>2
<1>6. PICK calls \in Seq(Calls) : Continue(t, calls)
  BY FlipCalls DEF PageFlip, FbSwap, FbCopy, Post
<1>7. calm' = calm
  BY <1>5, <1>6, GoesOn
<1>8. ASSUME NEW c, NEW s, On(c, s), Steady
      PROVE  Latest' # Null /\ surface'[Latest'] = [ground |-> "none", strokes |-> s]
  <2>1. gr_draw # Null /\ gr_draw = Target
    BY <1>2, <1>8 DEF Outside, Coherent, On
  <2>2. QED
    BY <1>5, <1>8, <2>1 DEF Sends, On
<1>9. Steady' = Steady
  BY <1>7 DEF Steady
<1>10. r \in Rests /\ Flipped(r)'
  <2>1. CASE menu
    <3>1. Rendering(todo[t])
      BY <1>2, <2>1 DEF Outside
    <3>2. r = <<>> /\ On("white", Frame(version).strokes)
      BY <1>1, <1>3, <3>1, RenderingAt
    <3>3. Frame(version) = [ground |-> "none", strokes |-> Frame(version).strokes]
      BY DEF Frame
    <3>4. PICK f : f = Frame(version)
      OBVIOUS
    <3>5. Steady => Latest' # Null /\ surface'[Latest'] = f
      BY <1>8, <3>2, <3>3, <3>4
    <3>6. f = Frame(version)'
      BY <1>1, <3>4 DEF Frame
    <3>7. (Steady => Shows(Frame(version)))'
      BY <1>9, <3>5, <3>6 DEF Shows
    <3>8. QED
      BY <1>1, <2>1, <3>2, <3>7 DEF Flipped, Rests
  <2>2. CASE ~menu /\ Leaving(todo[t])
    <3>1. \/ r = E3 /\ On("none", {})
          \/ r = E7 /\ Wiped /\ On("white", Message.strokes)
      BY <1>1, <1>3, <2>2, LeavingAt
    <3>2. CASE r = E3 /\ On("none", {})
      <4>1. ink = "none"
        BY <3>2 DEF On
      <4>2. (Steady => Shows(Blank))'
        BY <1>8, <1>9, <3>2 DEF Shows, Blank
      <4>3. QED
        BY <1>1, <2>2, <3>2, <4>1, <4>2 DEF Flipped, Rests
    <3>3. CASE r = E7 /\ Wiped /\ On("white", Message.strokes)
      <4>1. PICK m : m = Message
        OBVIOUS
      <4>2. m = [ground |-> "none", strokes |-> m.strokes] /\ m = Message'
        BY <1>1, <4>1 DEF Message
      <4>3. ASSUME Steady
            PROVE  NoMenu' /\ Shows(Message)'
        <5>1. Shows(Message)'
          BY <1>8, <3>3, <4>1, <4>2, <4>3 DEF Shows
        <5>2. gr_draw \in Surfaces /\ surface[gr_draw] = m /\ surface[Other(gr_draw)] = Blank
          <6>1. gr_draw \in Surfaces
            BY <3>3 DEF On, Going, ScreenTypeOK, TypeOK
          <6>2. QED
            BY <3>3, <4>1, <4>2, <4>3, <6>1 DEF On, Wiped
        <5>3. \A s \in Surfaces : s = gr_draw \/ s = Other(gr_draw)
          BY <5>2 DEF Surfaces, Other
        <5>4. \A s \in Surfaces : surface[s] \in {m, Blank}
          BY <5>2, <5>3
        <5>5. \A s \in Surfaces : surface'[s] \in {m, Blank}
          BY <1>5, <5>4, OtherTypes DEF Sends
        <5>6. \A s \in Surfaces : surface'[s].strokes \subseteq m.strokes
          BY <5>5 DEF Blank
        <5>7. NoMenu'
          BY <4>2, <5>6 DEF NoMenu
        <5>8. QED
          BY <5>1, <5>7
      <4>4. QED
        BY <1>1, <1>9, <2>2, <3>3, <4>3 DEF Flipped, Rests
    <3>4. QED
      BY <3>1, <3>2, <3>3
  <2>3. CASE ~menu /\ Starts(todo[t])
    <3>1. r \in {S1("found"), S2("found"), S1("none"), S2("none")}
      BY <1>1, <1>3, <2>3, StartsAt
    <3>2. QED
      BY <1>1, <2>3, <3>1 DEF Flipped, Rests
  <2>4. QED
    BY <1>2, <2>1, <2>2, <2>3 DEF Outside
<1>11. Place(q)'
  BY <1>5, <1>10 DEF Place, Rests
<1>12. QED
  BY <1>5, <1>6, <1>11, Placed

LEMMA CallDone ==
  ASSUME NEW t, Going(t), Continue(t, <<>>)
  PROVE  todo'[t] = Tail(todo[t])
<1>1. <<>> \in Seq(Calls) /\ <<>> \o Tail(todo[t]) = Tail(todo[t])
  BY GoingFrom
<1>2. QED
  BY <1>1, GoesOn

(* A call inside gr_flip() that leaves the surfaces alone.                 *)
LEMMA InsideStep ==
  ASSUME NEW t, Going(t), NEW calls \in Seq(Calls), Continue(t, calls),
         UNCHANGED <<menu, version, ink, surface, pending, shown>>,
         NEW r \in Rests, Flipped(r), NEW q, q # <<>>, todo'[t] = q, InFlip(q, r)'
  PROVE  Orderly'
<1>1. calm' = calm
  BY GoesOn
<1>2. Flipped(r)'
  BY <1>1 DEF Flipped, Steady, Shows, Latest, NoMenu, Message, Frame
<1>3. Place(q)'
  BY <1>2 DEF Place, Rests
<1>4. QED
  BY <1>3, Placed

LEMMA InsidePlaces ==
  ASSUME NEW t, Going(t), Poll(t) \/ HandleEvent(t) \/ Turn(t) \/ Sync(t) \/ Return(t)
  PROVE  Orderly'
<1>1. /\ Head(todo[t])[1] \in {"poll", "handle", "turn", "sync", "return"}
      /\ UNCHANGED <<backend, menu, version, ink, surface, gr_draw, pending, shown>>
  BY DEF Poll, HandleEvent, Turn, Sync, Return, At, menuVars, inkVars, kernelVars
<1>2. PICK r \in Rests : r \in Seq(Calls) /\ InFlip(todo[t], r) /\ Flipped(r)
  BY <1>1, GoingFrom DEF Inner
<1>3. /\ Cons(ReturnCall, r) \in Seq(Calls) /\ Cons(ReturnCall, r) # <<>>
      /\ Cons(TurnCall, Cons(ReturnCall, r)) \in Seq(Calls)
      /\ Cons(TurnCall, Cons(ReturnCall, r)) # <<>>
      /\ Cons(PollCall, Cons(TurnCall, Cons(ReturnCall, r))) # <<>>
      /\ Cons(HandleCall, Cons(TurnCall, Cons(ReturnCall, r))) # <<>>
      /\ \A s \in Surfaces : /\ Cons(SyncCall(s), Cons(ReturnCall, r)) # <<>>
                            /\ Cons(AssignCall(s), r) # <<>>
  <2>1. /\ Cons(ReturnCall, r) \in Seq(Calls) /\ Cons(ReturnCall, r) # <<>>
        /\ Cons(TurnCall, Cons(ReturnCall, r)) \in Seq(Calls)
        /\ Cons(TurnCall, Cons(ReturnCall, r)) # <<>>
        /\ Cons(PollCall, Cons(TurnCall, Cons(ReturnCall, r))) # <<>>
        /\ Cons(HandleCall, Cons(TurnCall, Cons(ReturnCall, r))) # <<>>
    BY <1>2, InnerLists DEF Begins
  <2>2. ASSUME NEW s \in Surfaces
        PROVE  /\ Cons(SyncCall(s), Cons(ReturnCall, r)) # <<>>
               /\ Cons(AssignCall(s), r) # <<>>
    BY <1>2, <2>1, FlipCallFacts, ConsFacts
  <2>3. QED
    BY <2>1, <2>2
<1>4. Latest' = Latest
  BY <1>1 DEF Latest
<1>5. /\ Target \in Surfaces /\ current \in Surfaces /\ Other(current) \in Surfaces
      /\ Other(Other(current)) = current
  BY TargetTypes, OtherTypes DEF Going
<1>6. ScreenTypeOK
  BY DEF Going
<1>7. CASE Poll(t)
  <2>1. Continue(t, << <<"handle", "">> >>) /\ Head(todo[t])[1] = "poll" /\ UNCHANGED current
    BY <1>7 DEF Poll, At, flipVars
  <2>2. /\ Tail(todo[t]) = Cons(TurnCall, Cons(ReturnCall, r))
        /\ backend \in {"drm", "adf"} /\ Latest = Target
    BY <1>2, <1>6, <2>1, InFlipAt
  <2>3. todo'[t] = Cons(HandleCall, Cons(TurnCall, Cons(ReturnCall, r)))
    <3>1. todo'[t] = <<HandleCall>> \o Tail(todo[t])
      BY <2>1, FlipCalls, GoesOn DEF HandleCall
    <3>2. QED
      BY <1>3, <2>2, <3>1, FlipQueues
  <2>4. InFlip(Cons(HandleCall, Cons(TurnCall, Cons(ReturnCall, r))), r)'
    BY <1>1, <1>4, <2>1, <2>2 DEF InFlip, Target
  <2>5. QED
    BY <1>1, <1>2, <1>3, <2>1, <2>3, <2>4, FlipCalls, InsideStep
<1>8. CASE HandleEvent(t)
  <2>1. /\ Head(todo[t])[1] = "handle" /\ UNCHANGED current
        /\ Continue(t, << <<"poll", "">> >>) \/ Continue(t, <<>>)
    BY <1>8 DEF HandleEvent, At
  <2>2. /\ Tail(todo[t]) = Cons(TurnCall, Cons(ReturnCall, r))
        /\ backend \in {"drm", "adf"} /\ Latest = Target
    BY <1>2, <1>6, <2>1, InFlipAt
  <2>3. CASE Continue(t, << <<"poll", "">> >>)
    <3>1. todo'[t] = Cons(PollCall, Cons(TurnCall, Cons(ReturnCall, r)))
      <4>1. todo'[t] = <<PollCall>> \o Tail(todo[t])
        BY <2>3, FlipCalls, GoesOn DEF PollCall
      <4>2. QED
        BY <2>2, <4>1, Zenon DEF Cons
    <3>2. InFlip(Cons(PollCall, Cons(TurnCall, Cons(ReturnCall, r))), r)'
      BY <1>1, <1>4, <2>1, <2>2 DEF InFlip, Target
    <3>3. QED
      BY <1>1, <1>2, <1>3, <2>3, <3>1, <3>2, FlipCalls, InsideStep
  <2>4. CASE Continue(t, <<>>)
    <3>1. todo'[t] = Cons(TurnCall, Cons(ReturnCall, r))
      BY <2>2, <2>4, CallDone
    <3>2. InFlip(Cons(TurnCall, Cons(ReturnCall, r)), r)'
      BY <1>1, <1>4, <2>1, <2>2 DEF InFlip, Target
    <3>3. QED
      BY <1>1, <1>2, <1>3, <2>4, <3>1, <3>2, FlipCalls, InsideStep
  <2>5. QED
    BY <2>1, <2>3, <2>4
<1>9. CASE Turn(t)
  <2>1. Head(todo[t])[1] = "turn" /\ current' = Other(current)
    BY <1>9 DEF Turn, At, Swapped
  <2>2. /\ Tail(todo[t]) = Cons(ReturnCall, r) /\ backend \in {"drm", "adf"} /\ Latest = Target
    BY <1>2, <1>6, <2>1, InFlipAt
  <2>3. Target = current /\ Target' = Other(current) /\ Latest' = Other(Target')
    <3>1. Target = current /\ Target' = Other(current)
      BY <1>1, <2>1, <2>2 DEF Target
    <3>2. QED
      BY <1>4, <1>5, <2>2, <3>1
  <2>4. CASE backend = "adf"
    <3>1. PICK s \in Surfaces : s = Other(current)
      BY <1>5
    <3>2. Continue(t, << <<"sync", s>> >>)
      BY <1>9, <2>1, <2>4, <3>1 DEF Turn
    <3>3. todo'[t] = Cons(SyncCall(s), Cons(ReturnCall, r))
      <4>1. todo'[t] = <<SyncCall(s)>> \o Tail(todo[t])
        BY <3>2, FlipCalls, GoesOn DEF SyncCall
      <4>2. QED
        BY <2>2, <4>1, Zenon DEF Cons
    <3>4. InFlip(Cons(SyncCall(s), Cons(ReturnCall, r)), r)'
      <4>1. (Latest = Other(Target))' /\ current' = s
        BY <2>1, <2>3, <3>1 DEF Other
      <4>2. QED
        BY <4>1 DEF InFlip
    <3>5. QED
      BY <1>1, <1>2, <1>3, <3>2, <3>3, <3>4, FlipCalls, InsideStep
  <2>5. CASE backend # "adf"
    <3>1. Continue(t, <<>>)
      BY <1>9, <2>5 DEF Turn
    <3>2. todo'[t] = Cons(ReturnCall, r)
      BY <2>2, <3>1, CallDone
    <3>3. InFlip(Cons(ReturnCall, r), r)'
      BY <2>3 DEF InFlip, Other
    <3>4. QED
      BY <1>1, <1>2, <1>3, <3>1, <3>2, <3>3, FlipCalls, InsideStep
  <2>6. QED
    BY <2>4, <2>5
<1>10. CASE Sync(t)
  <2>1. Head(todo[t])[1] = "sync" /\ Continue(t, <<>>) /\ UNCHANGED current
    BY <1>10 DEF Sync, At
  <2>2. Tail(todo[t]) = Cons(ReturnCall, r) /\ Latest = Other(Target)
    BY <1>2, <1>6, <2>1, InFlipAt
  <2>3. todo'[t] = Cons(ReturnCall, r)
    BY <2>1, <2>2, CallDone
  <2>4. InFlip(Cons(ReturnCall, r), r)'
    BY <1>1, <1>4, <2>1, <2>2 DEF InFlip, Target, Other
  <2>5. QED
    BY <1>1, <1>2, <1>3, <2>1, <2>3, <2>4, FlipCalls, InsideStep
<1>11. CASE Return(t)
  <2>1. PICK s \in Surfaces : s = Target
    BY <1>5
  <2>2. Head(todo[t])[1] = "return" /\ Continue(t, << <<"assign", s>> >>) /\ UNCHANGED current
    BY <1>11, <2>1 DEF Return, At, flipVars, Target
  <2>3. Tail(todo[t]) = r /\ Latest = Other(Target)
    BY <1>2, <1>6, <2>2, InFlipAt
  <2>4. todo'[t] = Cons(AssignCall(s), r)
    <3>1. todo'[t] = <<AssignCall(s)>> \o Tail(todo[t])
      BY <2>2, FlipCalls, GoesOn DEF AssignCall
    <3>2. QED
      BY <2>3, <3>1, Zenon DEF Cons
  <2>5. InFlip(Cons(AssignCall(s), r), r)'
    <3>1. (Latest = Other(Target))' /\ Target' = s
      BY <1>1, <1>4, <2>1, <2>2, <2>3 DEF Target, Other
    <3>2. QED
      BY <3>1 DEF InFlip
  <2>6. QED
    BY <1>1, <1>2, <1>3, <2>2, <2>4, <2>5, FlipCalls, InsideStep
<1>12. QED
  BY <1>7, <1>8, <1>9, <1>10, <1>11

(* gr_flip() returns.                                                      *)
LEMMA AssignPlaces ==
  ASSUME NEW t, Going(t), Assign(t)
  PROVE  Orderly'
<1>1. /\ Head(todo[t])[1] = "assign" /\ Continue(t, <<>>) /\ gr_draw' = Head(todo[t])[2]
      /\ UNCHANGED <<backend, menu, version, ink, surface, current, pending, shown>>
  BY DEF Assign, At, Arg, menuVars, flipVars, kernelVars
<1>2. PICK r \in Rests : r \in Seq(Calls) /\ InFlip(todo[t], r) /\ Flipped(r)
  BY <1>1, GoingFrom DEF Inner
<1>3. Tail(todo[t]) = r /\ Latest = Other(Target) /\ gr_draw' = Target
  BY <1>1, <1>2, InFlipAt DEF Going
<1>4. todo'[t] = r
  BY <1>1, <1>3, CallDone
<1>5. Latest' = Latest /\ Target' = Target
  BY <1>1 DEF Latest, Target, Other
<1>6. Target \in Surfaces /\ Target # Null
  BY TargetTypes DEF Going, Surfaces, Null
<1>7. Coherent'
  BY <1>3, <1>5 DEF Coherent
<1>8. ASSUME NEW p, Shows(p)
      PROVE  Shows(p)' /\ surface'[Other(gr_draw')] = p
  <2>1. Latest = Other(gr_draw')
    BY <1>3
  <2>2. QED
    BY <1>1, <1>5, <1>8, <2>1 DEF Shows
<1>9. calm \in 0..2 /\ (r # <<>> => calm' = calm) /\ (r = <<>> => calm' = IF calm = 2 THEN 2 ELSE calm + 1)
  BY <1>1, <1>4, FlipCalls, GoesOn, GoingFrom
<1>10. CASE r = <<>>
  <2>1. menu /\ (Steady => Shows(Frame(version)))
    BY <1>2, <1>10, NotEmpty, StartLists DEF Flipped, Begins
  <2>2. calm' >= 2 => Steady
    BY <1>9, <1>10 DEF Steady
  <2>3. (calm >= 2 => Shows(Frame(version)))'
    <3>1. PICK f : f = Frame(version)
      OBVIOUS
    <3>2. f = Frame(version)'
      BY <1>1, <3>1 DEF Frame
    <3>3. QED
      BY <1>8, <2>1, <2>2, <3>1, <3>2
  <2>4. Resting'
    BY <1>1, <1>7, <2>1, <2>3 DEF Resting
  <2>5. QED
    BY <1>1, <1>4, <1>10, <2>4, FlipCalls, Placed DEF Place
<1>11. CASE r = E3 /\ ~menu /\ ink = "none" /\ (Steady => Shows(Blank))
  <2>1. calm' = calm
    BY <1>9, <1>11, NotEmpty
  <2>2. Wiped'
    BY <1>3, <1>6, <1>8, <1>11, <2>1 DEF Wiped, Steady, Other
  <2>3. Leaving(r)'
    BY <1>1, <1>11, <2>2 DEF Leaving
  <2>4. Place(r)'
    BY <1>1, <1>7, <1>11, <2>3 DEF Place
  <2>5. QED
    BY <1>1, <1>4, <2>4, FlipCalls, Placed
<1>12. CASE r = E7 /\ ~menu /\ (Steady => NoMenu /\ Shows(Message))
  <2>1. calm' = calm
    BY <1>9, <1>12, NotEmpty
  <2>2. (Steady => NoMenu /\ Shows(Message))'
    BY <1>1, <1>5, <1>12, <2>1 DEF Steady, NoMenu, Shows, Message
  <2>3. Leaving(r)'
    BY <1>12, <2>2 DEF Leaving
  <2>4. Place(r)'
    BY <1>1, <1>7, <1>12, <2>3 DEF Place
  <2>5. QED
    BY <1>1, <1>4, <2>4, FlipCalls, Placed
<1>13. CASE ~menu /\ \E f \in {"found", "none"} : r \in {S1(f), S2(f)}
  <2>1. Starts(r)
    BY <1>13 DEF Starts
  <2>2. Place(r)'
    BY <1>1, <1>7, <1>13, <2>1 DEF Place, Starts
  <2>3. QED
    BY <1>1, <1>4, <2>2, FlipCalls, Placed
<1>14. QED
  BY <1>2, <1>10, <1>11, <1>12, <1>13 DEF Flipped

(* gr_init() has chosen a backend, or found none.                          *)
LEMMA InitPlaces ==
  ASSUME ScreenTypeOK, GrInit, dead' = "no"
  PROVE  Orderly' /\ FbdevShows'
<1>1. PICK b, u, o : /\ b \in {"adf", "drm", "crash", "none", "memory", "fbdev"}
                    /\ o \in BOOLEAN /\ (o \/ b = "adf") /\ Chosen(b, u, o)
  BY BackendTypes DEF GrInit
<1>2. b # "crash"
  BY <1>1 DEF Chosen
<1>3. /\ backend' = b /\ todo' = [todo EXCEPT !["main"] = Startup(b, u)]
      /\ menu' = menu /\ gr_draw' = CASE b = "drm" -> "a" [] b \in {"none", "crash"} -> Null [] OTHER -> "b"
      /\ current' = (IF b = "adf" THEN "b" ELSE "a")
      /\ pending' = (IF b = "adf" /\ o THEN << <<"a", "none">> >> ELSE <<>>)
      /\ shown' = CASE b = "drm" -> "b" [] b \in {"fbdev", "memory"} -> "a" [] OTHER -> Null
  BY <1>1, <1>2 DEF Chosen
<1>4. todo = [t \in Threads |-> <<>>] /\ menu = FALSE
  BY DEF ScreenTypeOK, Untouched, GrInit
<1>5. PICK q : q = Startup(b, u)
  OBVIOUS
<1>6. "main" \in Threads /\ todo'["main"] = q /\ \A v \in Threads \ {"main"} : todo'[v] = <<>>
  BY <1>3, <1>4, <1>5 DEF Threads
<1>7. Coherent'
  BY <1>1, <1>2, <1>3 DEF Coherent, Target, Other
<1>8. Starts(q)
  BY <1>5, Routines DEF Starts
<1>9. Place(q)'
  BY <1>3, <1>4, <1>7, <1>8 DEF Place, Starts
<1>10. FbdevShows'
  BY <1>1, <1>3 DEF FbdevShows
<1>11. QED
  BY <1>6, <1>9, <1>10 DEF Orderly

(* The main thread goes on with a font, and with a menu.                   *)
LEMMA StartPlaces ==
  ASSUME Going("main"), FindFont \/ SwitchMenu, dead' = "no"
  PROVE  Orderly'
<1>1. UNCHANGED <<backend, current, gr_draw>> /\ Head(todo["main"])[1] \in {"font", "menu"}
  BY DEF FindFont, SwitchMenu, At, menuVars, inkVars, flipVars
<1>2. Outside(todo["main"])
  BY <1>1, GoingFrom DEF Inner
<1>3. ~menu /\ Starts(todo["main"])
  BY <1>1, <1>2, RenderingAt, LeavingAt DEF Outside
<1>4. PICK r : r = Tail(todo["main"])
  OBVIOUS
<1>5. CASE FindFont
  <2>1. Continue("main", <<>>) /\ menu' = menu /\ Head(todo["main"])[1] = "font"
    BY <1>5 DEF FindFont, Die, At, menuVars
  <2>2. r = S3
    BY <1>3, <1>4, <2>1, StartsAt
  <2>3. Starts(r)' /\ r # <<>> /\ ~menu'
    BY <1>3, <2>1, <2>2, NotEmpty DEF Starts
  <2>4. QED
    BY <1>1, <1>2, <1>4, <2>1, <2>3, OutsideStep DEF Outside
<1>6. CASE SwitchMenu
  <2>1. Continue("main", <<>>) /\ menu' = TRUE /\ Head(todo["main"])[1] = "menu"
    BY <1>6 DEF SwitchMenu, At
  <2>2. r = R0
    BY <1>3, <1>4, <2>1, StartsAt
  <2>3. Rendering(r)' /\ r # <<>>
    BY <2>2, NotEmpty DEF Rendering
  <2>4. IF menu' THEN Rendering(r)' ELSE Leaving(r)' \/ Starts(r)'
    BY <2>1, <2>3
  <2>5. Steady => Coherent
    BY <1>2 DEF Outside
  <2>6. QED
    BY <1>1, <1>4, <2>1, <2>3, <2>4, <2>5, OutsideStep
<1>7. QED
  BY <1>5, <1>6

(* gr_exit()                                                               *)
LEMMA ExitPlaces ==
  ASSUME Going("main"), GrExit
  PROVE  Orderly'
<1>1. /\ Continue("main", <<>>) /\ Head(todo["main"])[1] = "exit" /\ shown' \in {shown, Null}
      /\ UNCHANGED <<menu, version, surface, pending>>
  BY DEF GrExit, At, inkVars
<1>2. Outside(todo["main"])
  BY <1>1, GoingFrom DEF Inner
<1>3. ~menu /\ Leaving(todo["main"])
  BY <1>1, <1>2, RenderingAt, StartsAt DEF Outside
<1>4. Tail(todo["main"]) = <<>> /\ (Steady => NoMenu /\ Shows(Message))
  BY <1>1, <1>3, LeavingAt
<1>5. todo'["main"] = <<>>
  BY <1>1, <1>4, CallDone
<1>6. calm \in 0..2 /\ calm' = IF calm = 2 THEN 2 ELSE calm + 1
  BY <1>1, <1>5, FlipCalls, GoesOn, GoingFrom
<1>7. Latest' \in {Latest, Null}
  BY <1>1 DEF Latest
<1>8. calm' >= 2 => Steady
  BY <1>6 DEF Steady
<1>9. calm' >= 2 => (NoMenu /\ (Latest = Null \/ surface[Latest] = Message))'
  BY <1>1, <1>4, <1>7, <1>8 DEF NoMenu, Shows, Message
<1>10. Resting'
  BY <1>1, <1>3, <1>9 DEF Resting
<1>11. QED
  BY <1>1, <1>5, <1>10, FlipCalls, Placed DEF Place

(* The display shows the next surface: what it shows at the latest stays.  *)
LEMMA RefreshLatest ==
  ASSUME ScreenTypeOK, Refresh
  PROVE  Latest' = Latest
<1>1. /\ pending # <<>> /\ pending \in Seq(Surfaces \X Owners)
      /\ pending' = Tail(pending) /\ shown' = Head(pending)[1]
  BY DEF Refresh, ScreenTypeOK, TypeOK
<1>2. PICK S : S = Surfaces \X Owners
  OBVIOUS
<1>3. CASE Len(pending) = 1
  <2>1. pending' = <<>> /\ Head(pending) = pending[Len(pending)]
    BY <1>1, <1>2, <1>3
  <2>2. QED
    BY <1>1, <2>1 DEF Latest
<1>4. CASE Len(pending) # 1
  <2>1. PICK p \in Seq(S) : p = pending
    BY <1>1, <1>2
  <2>2. PICK n \in Nat : n = Len(p)
    BY <2>1
  <2>3. n >= 2
    BY <1>1, <1>4, <2>1, <2>2
  <2>4. Len(Tail(p)) = n - 1 /\ \A i \in 1..(n - 1) : Tail(p)[i] = p[i + 1]
    BY <2>1, <2>2, <2>3
  <2>5. n - 1 \in 1..(n - 1) /\ (n - 1) + 1 = n
    BY <2>3
  <2>6. Tail(p)[n - 1] = p[n]
    BY <2>4, <2>5
  <2>7. Tail(p) # <<>>
    <3>1. n - 1 # 0 /\ Len(<<>>) = 0
      BY <2>3
    <3>2. QED
      BY <2>4, <3>1
  <2>8. QED
    BY <1>1, <2>1, <2>2, <2>4, <2>6, <2>7 DEF Latest
<1>5. QED
  BY <1>3, <1>4

(* Steps that change nothing that a place depends on.                      *)
LEMMA PlaceStays ==
  ASSUME NEW q, Place(q), Latest' = Latest,
         UNCHANGED <<menuVars, inkVars, flipVars, calm>>
  PROVE  Place(q)'
<1>1. UNCHANGED <<backend, menu, version, ink, gr_draw, surface, current, calm>>
  BY DEF menuVars, inkVars, flipVars
<1>2. /\ Target' = Target /\ Steady' = Steady /\ (Coherent => Coherent')
      /\ Message' = Message /\ (NoMenu => NoMenu') /\ (Wiped => Wiped')
      /\ First2' = First2 /\ First3' = First3 /\ Part("title", "white")' = Part("title", "white")
      /\ Frame(version)' = Frame(version)
  BY <1>1 DEF Target, Other, Steady, Coherent, Message, NoMenu, Wiped, First2, First3, Part, Frame
<1>3. ASSUME NEW p, Shows(p)
      PROVE  Shows(p)'
  BY <1>1, <1>3 DEF Shows
<1>4. ASSUME NEW c, NEW s, On(c, s)
      PROVE  On(c, s)'
  BY <1>1, <1>4 DEF On
<1>5. CASE q = <<>> /\ Resting
  BY <1>1, <1>5 DEF Place, Resting, Steady, Coherent, Target, Other, Shows, NoMenu, Message, Frame
<1>6. CASE Outside(q)
  <2>1. Rendering(q) => Rendering(q)'
    BY <1>1 DEF Rendering, On, First2, First3, Part, Frame
  <2>2. Leaving(q) => Leaving(q)'
    BY <1>1 DEF Leaving, On, Wiped, Steady, NoMenu, Shows, Message, Other
  <2>3. Starts(q) => Starts(q)'
    BY DEF Starts
  <2>4. QED
    BY <1>1, <1>2, <1>6, <2>1, <2>2, <2>3 DEF Outside, Place
<1>7. CASE \E r \in Rests : InFlip(q, r) /\ Flipped(r)
  <2>1. PICK r \in Rests : InFlip(q, r) /\ Flipped(r)
    BY <1>7
  <2>2. InFlip(q, r)'
    BY <1>1, <1>2, <2>1 DEF InFlip, Other
  <2>3. Flipped(r)'
    BY <1>1, <2>1 DEF Flipped, Steady, Shows, NoMenu, Message, Frame
  <2>4. QED
    BY <2>2, <2>3 DEF Place, Rests
<1>8. QED
  BY <1>5, <1>6, <1>7 DEF Place, Outside, Rests

-----------------------------------------------------------------------------
(* What is drawn comes to be shown.                                        *)

(* Which buffer an fbdev backend shows.                                    *)
LEMMA FbdevStep ==
  ASSUME ScreenTypeOK, FbdevShows, [Next]_vars
  PROVE  FbdevShows'
<1>1. CASE UNCHANGED vars
  BY <1>1 DEF FbdevShows, vars, menuVars, kernelVars
<1>2. CASE GrInit
  <2>1. PICK b, u, o : /\ b \in {"adf", "drm", "crash", "none", "memory", "fbdev"}
                       /\ o \in BOOLEAN /\ (o \/ b = "adf") /\ Chosen(b, u, o)
    BY <1>2, BackendTypes DEF GrInit
  <2>2. /\ backend' = IF b = "crash" THEN "none" ELSE b
        /\ pending' = IF b = "adf" /\ o THEN << <<"a", "none">> >> ELSE <<>>
        /\ shown' = CASE b = "drm" -> "b" [] b \in {"fbdev", "memory"} -> "a" [] OTHER -> Null
    BY <2>1 DEF Chosen
  <2>3. QED
    BY <2>1, <2>2 DEF FbdevShows
<1>3. CASE GrExit
  BY <1>3 DEF GrExit, FbdevShows
<1>4. CASE Next /\ ~GrInit /\ ~GrExit
  <2>1. backend' = backend
    BY <1>4, BackendStays
  <2>2. CASE backend \notin {"fbdev", "memory"}
    BY <2>1, <2>2 DEF FbdevShows
  <2>3. CASE backend \in {"fbdev", "memory"}
    <3>1. pending = <<>> /\ (backend = "memory" => shown = "a")
      BY <2>3 DEF FbdevShows
    <3>2. CASE FindFont \/ SwitchMenu \/ Redraw \/ UiExit
      BY <2>1, <3>1, <3>2 DEF FindFont, SwitchMenu, Redraw, UiExit, kernelVars, FbdevShows
    <3>3. CASE \E t \in Threads : Call(t)
      <4>1. PICK t \in Threads : Call(t)
        BY <3>3
      <4>2. ~PageFlip(t) /\ ~Post(t)
        BY <2>3 DEF PageFlip, Post, Flipping
      <4>3. CASE FbSwap(t)
        BY <3>1, <4>3 DEF FbSwap, Flipping, menuVars, FbdevShows
      <4>4. CASE ~FbSwap(t)
        <5>1. UNCHANGED <<pending, shown>>
          BY <4>1, <4>2, <4>4 DEF Call, GrColor, GrClear, GrDraw, Paint, Poll, HandleEvent, Turn,
             FbCopy, Sync, Return, Assign, kernelVars
        <5>2. QED
          BY <2>1, <3>1, <5>1 DEF FbdevShows
      <4>5. QED
        BY <4>3, <4>4
    <3>4. CASE Refresh
      BY <3>1, <3>4 DEF Refresh
    <3>5. CASE Sighup
      <4>1. OrphanedFlips(<<>>) = <<>>
        BY DEF OrphanedFlips
      <4>2. pending' \in {pending, OrphanedFlips(pending)} /\ shown' = shown
        BY <3>5 DEF Sighup
      <4>3. QED
        BY <2>1, <3>1, <4>1, <4>2 DEF FbdevShows
    <3>6. QED
      BY <1>4, <3>2, <3>3, <3>4, <3>5 DEF Next
  <2>4. QED
    BY <2>2, <2>3
<1>5. QED
  BY <1>1, <1>2, <1>3, <1>4

(* The first routine to end after a disturbance leaves nothing to show.    *)
LEMMA EndedOrderly ==
  ASSUME todo' = [t \in Threads |-> <<>>], calm' = 0, menu' \in BOOLEAN
  PROVE  Orderly'
<1>1. Resting'
  BY DEF Resting, Steady
<1>2. "main" \in Threads /\ todo'["main"] = <<>> /\ \A u \in Threads \ {"main"} : todo'[u] = <<>>
  BY DEF Threads
<1>3. Place(<<>>)'
  BY <1>1 DEF Place
<1>4. QED
  BY <1>2, <1>3 DEF Orderly

LEMMA CalmAgain ==
  ASSUME ScreenTypeOK, Calm \/ Disturb, calm' >= 0, ~(Calm /\ calm >= 0)
  PROVE  todo' = [t \in Threads |-> <<>>] /\ calm' = 0
<1>1. calm \in -1..2 /\ Ended \in {0, 1} /\ (Ended = 1 => todo' = [t \in Threads |-> <<>>])
  BY DEF ScreenTypeOK, TypeOK, Ended
<1>2. CASE Disturb
  BY <1>1, <1>2 DEF Disturb
<1>3. CASE Calm
  BY <1>1, <1>3 DEF Calm
<1>4. QED
  BY <1>2, <1>3

(* Between two routines nothing is left of the last one.                   *)
LEMMA IdleRests ==
  ASSUME ScreenTypeOK, Orderly, Idle
  PROVE  Resting
<1>1. PICK t \in Threads : Place(todo[t])
  BY DEF Orderly
<1>2. todo[t] = <<>>
  BY <1>1 DEF Idle, Threads
<1>3. PICK q : q = <<>>
  OBVIOUS
<1>4. Place(q)
  BY <1>1, <1>2, <1>3
<1>5. ~Rendering(q) /\ ~Leaving(q) /\ ~Starts(q)
  <2>1. ~Rendering(q)
    BY <1>3, NotEmpty DEF Rendering
  <2>2. ~Leaving(q)
    BY <1>3, NotEmpty DEF Leaving
  <2>3. ~Starts(q)
    BY <1>3, StartLists DEF Starts, Begins
  <2>4. QED
    BY <2>1, <2>2, <2>3
<1>6. ASSUME NEW r \in Rests, InFlip(q, r)
      PROVE  FALSE
  BY <1>3, <1>6, RestLists, InFlipAt
<1>7. QED
  BY <1>4, <1>5, <1>6 DEF Place, Rests

(* A routine begins.                                                       *)
LEMMA BeginPlaces ==
  ASSUME ScreenTypeOK, FrameInv, Sighup \/ Redraw \/ UiExit, calm' >= 0
  PROVE  Orderly'
<1>1. /\ UNCHANGED <<backend, current, gr_draw, calm>> /\ dead = "no" /\ todo["hup"] = <<>>
      /\ todo["main"] = <<>> /\ menu
  <2>1. CASE Redraw \/ UiExit
    BY <2>1 DEF Redraw, UiExit, Idle, inkVars, flipVars, history
  <2>2. CASE Sighup
    <3>1. UNCHANGED <<backend, gr_draw, current>> /\ dead = "no" /\ todo["hup"] = <<>>
      BY <2>2 DEF Sighup, inkVars, flipVars
    <3>2. todo["main"] = <<>> /\ calm' = calm
      BY <2>2 DEF Sighup, history
    <3>3. menu
      BY <2>2, <3>2 DEF Sighup
    <3>4. QED
      BY <3>1, <3>2, <3>3
  <2>3. QED
    BY <2>1, <2>2
<1>2. hardware = Unknown
  BY <1>1 DEF ScreenTypeOK, Untouched
<1>3. Resting
  BY <1>1, <1>2, IdleRests DEF FrameInv, Idle
<1>4. (Steady => Coherent)'
  BY <1>1, <1>3 DEF Resting, Steady, Coherent, Target, Other
<1>5. todo \in [Threads -> Seq(Calls)]
  BY DEF ScreenTypeOK
<1>6. CASE Redraw
  <2>1. menu' /\ todo' = [todo EXCEPT !["main"] = Render]
    BY <1>1, <1>6 DEF Redraw
  <2>2. todo'["main"] = R0 /\ "main" \in Threads /\ \A u \in Threads \ {"main"} : todo'[u] = <<>>
    BY <1>1, <1>5, <2>1, Routines DEF Threads
  <2>3. Place(R0)'
    BY <1>4, <2>1 DEF Place, Rendering
  <2>4. QED
    BY <2>2, <2>3 DEF Orderly
<1>7. CASE UiExit
  <2>1. ~menu' /\ todo' = [todo EXCEPT !["main"] = Exit]
    BY <1>7 DEF UiExit
  <2>2. todo'["main"] = E0 /\ "main" \in Threads /\ \A u \in Threads \ {"main"} : todo'[u] = <<>>
    BY <1>1, <1>5, <2>1, Routines DEF Threads
  <2>3. Place(E0)'
    BY <1>4, <2>1 DEF Place, Leaving
  <2>4. QED
    BY <2>2, <2>3 DEF Orderly
<1>8. CASE Sighup
  <2>1. PICK i \in BOOLEAN :
          /\ i => todo["main"] # <<>>
          /\ todo' = [main |-> IF i THEN Tail(todo["main"]) ELSE todo["main"],
                     hup |-> IF menu THEN Render ELSE <<>>]
    BY <1>8 DEF Sighup
  <2>2. todo' = [main |-> <<>>, hup |-> Render] /\ menu'
    BY <1>1, <1>8, <2>1 DEF Sighup
  <2>3. todo'["hup"] = R0 /\ "hup" \in Threads /\ \A u \in Threads \ {"hup"} : todo'[u] = <<>>
    BY <2>2, Routines DEF Threads
  <2>4. Place(R0)'
    BY <1>4, <2>2 DEF Place, Rendering
  <2>5. QED
    BY <2>3, <2>4 DEF Orderly
<1>9. QED
  BY <1>6, <1>7, <1>8

(* A call that is made, by whichever thread.                               *)
LEMMA CallPlaces ==
  ASSUME NEW t, Going(t), Call(t), dead' = "no"
  PROVE  Orderly'
  BY ColorPlaces, DrawPlaces, ClearPlaces, FlipPlaces, InsidePlaces, AssignPlaces DEF Call

LEMMA FrameInit == Init => FrameInv
  BY DisplayAssumption DEF Init, FrameInv, FbdevShows

LEMMA FrameStep == ScreenTypeOK /\ FrameInv /\ [Next]_vars => FrameInv'
<1> SUFFICES ASSUME ScreenTypeOK, FrameInv, [Next]_vars PROVE FrameInv'
  OBVIOUS
<1>1. FbdevShows'
  BY FbdevStep DEF FrameInv
<1>2. SUFFICES ASSUME hardware' = Unknown, dead' = "no", calm' >= 0 PROVE Orderly'
  BY <1>1 DEF FrameInv
<1>3. ScreenTypeOK' /\ menu' \in BOOLEAN
  BY ScreenTypeStep DEF ScreenTypeOK, TypeOK
<1>4. ASSUME UNCHANGED <<menuVars, inkVars, flipVars, todo, dead, calm>>, Latest' = Latest
      PROVE  Orderly'
  <2>1. hardware = Unknown /\ dead = "no" /\ calm >= 0
    BY <1>2, <1>4 DEF menuVars
  <2>2. PICK t \in Threads : (\A u \in Threads \ {t} : todo[u] = <<>>) /\ Place(todo[t])
    BY <2>1 DEF FrameInv, Orderly
  <2>3. PICK q : q = todo[t]
    OBVIOUS
  <2>4. Place(q)'
    BY <1>4, <2>2, <2>3, PlaceStays
  <2>5. QED
    BY <1>4, <2>2, <2>3, <2>4 DEF Orderly
<1>5. CASE UNCHANGED vars
  BY <1>4, <1>5 DEF vars, history, kernelVars, Latest
<1>6. CASE GrInit
  BY <1>2, <1>6, InitPlaces
<1>7. CASE Refresh
  BY <1>4, <1>7, RefreshLatest DEF Refresh, history
<1>8. CASE Sighup \/ Redraw \/ UiExit
  BY <1>2, <1>8, BeginPlaces
<1>9. ASSUME NEW t \in Threads, Runs(t), Calm \/ Disturb, ~Going(t)
      PROVE  Orderly'
  BY <1>2, <1>3, <1>9, CalmAgain, EndedOrderly DEF Going
<1>10. CASE FindFont \/ SwitchMenu \/ GrExit
  <2>1. Runs("main") /\ "main" \in Threads /\ Calm
    BY <1>10 DEF FindFont, SwitchMenu, GrExit, At, Threads
  <2>2. CASE Going("main")
    BY <1>2, <1>10, <2>2, StartPlaces, ExitPlaces
  <2>3. QED
    BY <1>9, <2>1, <2>2
<1>11. CASE \E t \in Threads : Call(t)
  <2>1. PICK t \in Threads : Call(t)
    BY <1>11
  <2>2. Runs(t) /\ (Calm \/ Disturb)
    BY <2>1 DEF Call, GrColor, GrClear, GrDraw, Paint, PageFlip, Poll, HandleEvent, Turn, FbSwap,
       FbCopy, Post, Sync, Return, Assign, Flipping, At
  <2>3. CASE Going(t)
    BY <1>2, <2>1, <2>3, CallPlaces
  <2>4. QED
    BY <1>9, <2>2, <2>3
<1>12. QED
  BY <1>5, <1>6, <1>7, <1>8, <1>10, <1>11 DEF Next

(* Whatever signals and failed ioctls have done to the buffers of          *)
(* gr_flip() (graphics.cpp:316-318) and to the index of the backend, once  *)
(* two routines of ui.cpp have drawn undisturbed the screen shows the menu *)
(* as it is: complete, and not a frame behind.                             *)
THEOREM MenuShownAtLast == Spec => []ShownIsLatest
<1>1. ScreenTypeOK /\ FrameInv => ShownIsLatest
  <2> SUFFICES ASSUME ScreenTypeOK, FrameInv, Idle, dead = "no", menu, pending = <<>>, calm >= 2
               PROVE  shown # Null /\ surface[shown] = Frame(version)
    BY DEF ShownIsLatest
  <2>1. hardware = Unknown /\ calm \in -1..2
    BY DEF ScreenTypeOK, Untouched, TypeOK
  <2>2. calm >= 0
    BY <2>1
  <2>3. Resting
    BY <2>1, <2>2, IdleRests DEF FrameInv
  <2>4. QED
    BY <2>3 DEF Resting, Shows, Latest
<1>2. QED
  BY ScreenTypeInit, ScreenTypeStep, FrameInit, FrameStep, <1>1, PTL DEF Spec

(* UI::exit() clears one buffer, flips, clears the other and draws the     *)
(* boot message there (ui.cpp:90-103): neither buffer keeps a menu, and    *)
(* the screen shows the message, unless the routine or the one before it   *)
(* was disturbed.                                                          *)
THEOREM ExitShowsMessage == Spec => []ExitLeavesNoMenu
<1>1. ScreenTypeOK /\ FrameInv => ExitLeavesNoMenu
  <2> SUFFICES ASSUME ScreenTypeOK, FrameInv, hardware = Unknown, ~menu, dead = "no", Idle, calm >= 2
               PROVE  /\ \A s \in Surfaces : surface[s].strokes \subseteq Message.strokes
                      /\ shown # Null /\ pending = <<>> => surface[shown] = Message
    BY DEF ExitLeavesNoMenu
  <2>1. calm \in -1..2
    BY DEF ScreenTypeOK, TypeOK
  <2>2. calm >= 0
    BY <2>1
  <2>3. Resting
    BY <2>2, IdleRests DEF FrameInv
  <2>4. QED
    BY <2>3 DEF Resting, NoMenu, Latest
<1>2. QED
  BY ScreenTypeInit, ScreenTypeStep, FrameInit, FrameStep, <1>1, PTL DEF Spec
=============================================================================
