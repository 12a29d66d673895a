------------------------------ MODULE MCReader ------------------------------
(***************************************************************************)
(* Model checking of Reader, and of Player as what its clients see of it.  *)
(***************************************************************************)
EXTENDS ReaderView

VARIABLE session   \* the kind of session

hvars == <<reader, session>>

(* Texts, under the two ways of chunking: prose of two sentences packs to  *)
(* one message, code chunks stay chunks of their own, and one text has     *)
(* nothing to say.                                                         *)
Prose   == [Sentences |-> <<"Prose", "Prose">>, Message |-> <<"Prose">>]
Block   == [Sentences |-> <<"Start", "Line", "Line", "Prose">>,
            Message   |-> <<"Start", "Line", "Line", "Prose">>]
Silence == [Sentences |-> <<>>, Message |-> <<>>]

(* Three kinds of session, each with its bounds: prose queued and played   *)
(* under either prefetch, a code block stepped through, and settings       *)
(* changed between any two calls.                                          *)
AllTexts == {Prose, Block, Silence}
Session == [Queue    |-> [texts |-> {Prose, Silence}, items |-> 3, gens |-> 5],
            Code     |-> [texts |-> {Block},          items |-> 2, gens |-> 6],
            Settings |-> [texts |-> {Prose, Silence}, items |-> 2, gens |-> 2]]

-----------------------------------------------------------------------------
Bounded ==
  /\ reader'.next_id <= Session[session].items + 1
  /\ reader'.gen <= Session[session].gens
  /\ UNCHANGED session

MCInit == /\ Init
          /\ session \in DOMAIN Session
          /\ session # "Settings" => reader.volume = 100

MCSpeak == /\ \E text \in Session[session].texts, replace, interrupt \in BOOLEAN :
                Speak(text, replace, interrupt)
           /\ Bounded

MCControl(c) == DoControl(c) /\ Bounded

MCAudio == /\ \E e \in AudioEvent, gen \in 1..MaxGen :
                gen <= reader.gen /\ OnAudio(e, gen)
           /\ Bounded

MCSettings == /\ CASE session = "Queue"    -> \E n \in {1, 3} : SetLookahead(n)
                   [] session = "Code"     -> \E on \in BOOLEAN : SetCodeStep(on)
                   [] session = "Settings" -> Settings
              /\ Bounded

MCNext == \/ MCSpeak
          \/ \E c \in Control : MCControl(c)
          \/ MCAudio
          \/ MCSettings
MCSpec == MCInit /\ [][MCNext]_hvars

(* `fx` is read only by the step that returns it.                          *)
NoEffects == <<[reader EXCEPT !.fx = <<>>], session>>

=============================================================================
