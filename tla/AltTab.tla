------------------------------- MODULE AltTab -------------------------------
(***************************************************************************)
(* What an Alt+Tab switcher promises, without debounce jobs, indices,      *)
(* pruning or focus results:                                               *)
(*                                                                         *)
(*   - it offers live windows, the most recently used of them first, and   *)
(*     a use that has not settled yet settles before the offer is made;    *)
(*   - while an offer stands no use is recorded, and the offer can only    *)
(*     lose windows that have died;                                        *)
(*   - the offer ends by focusing one live window of it, which becomes the *)
(*     most recent use, or by dismissal, which focuses nothing or brings   *)
(*     back the window focused when the offer was made.                    *)
(***************************************************************************)
EXTENDS MruList

CONSTANTS Windows, NoWindow

VARIABLES
  running,  \* FALSE once the switcher has been unloaded
  live,     \* the windows that exist
  settled,  \* live windows by recency of use
  fresh,    \* the last use, while it has not settled, or NoWindow
  offered,  \* the windows offered; <<>> when there is no offer
  from,     \* the window focused when the offer was made, or NoWindow
  focus     \* the focused window, or NoWindow

vars == <<running, live, settled, fresh, offered, from, focus>>

Idle == offered = <<>>

Alive(w, S) == IF w \in S THEN w ELSE NoWindow

Latest == IF fresh = NoWindow THEN settled ELSE Promote(settled, fresh)

Init ==
  /\ running = TRUE
  /\ live \in SUBSET Windows
  /\ \E S \in SUBSET live : settled \in SetToSeqs(S)
  /\ fresh = NoWindow
  /\ offered = <<>>
  /\ from = NoWindow
  /\ focus \in live \cup {NoWindow}

Appear(w) ==
  /\ w \notin live
  /\ live' = live \cup {w}
  /\ UNCHANGED <<running, settled, fresh, offered, from, focus>>

Lose(S) ==
  /\ live' = live \ S
  /\ settled' = Keep(settled, live')

Perish(w) ==
  /\ w \in live
  /\ Lose({w})
  /\ fresh' = Alive(fresh, live')
  /\ focus' = Alive(focus, live')
  /\ offered' \in {offered, Keep(offered, live')}
  /\ from' = IF offered' = <<>> THEN NoWindow ELSE from
  /\ UNCHANGED running

Focus(w) ==
  /\ w \in live \cup {NoWindow}
  /\ focus' = w
  /\ IF Idle /\ w # NoWindow THEN fresh' = w ELSE UNCHANGED fresh
  /\ UNCHANGED <<running, live, settled, offered, from>>

Settle ==
  /\ fresh # NoWindow
  /\ settled' = Latest
  /\ fresh' = NoWindow
  /\ UNCHANGED <<running, live, offered, from, focus>>

Offer ==
  /\ Idle
  /\ settled' = Latest
  /\ fresh' = NoWindow
  /\ offered' # <<>>
  /\ IsInjective(offered')
  /\ Range(offered') \subseteq live
  /\ IsPrefix(Keep(settled', Range(offered')), offered')
  /\ from' = focus
  /\ UNCHANGED <<running, live, focus>>

Pick(w, S) ==
  /\ w \in Range(offered) \cap live
  /\ Lose(S)
  /\ w \in live'
  /\ focus' = w
  /\ fresh' = w
  /\ offered' = <<>>
  /\ from' = NoWindow
  /\ UNCHANGED running

Dismiss(S) ==
  /\ ~Idle
  /\ Lose(S)
  /\ focus' \in {Alive(focus, live'), Alive(from, live')}
  /\ fresh' \in {NoWindow, Alive(from, live')}
  /\ fresh' # NoWindow => focus' = fresh'
  /\ offered' = <<>>
  /\ from' = NoWindow
  /\ UNCHANGED running

Stop ==
  /\ running' = FALSE
  /\ fresh' = NoWindow
  /\ offered' = <<>>
  /\ from' = NoWindow
  /\ UNCHANGED <<live, settled, focus>>

Next ==
  /\ running
  /\ \/ \E w \in Windows : Appear(w) \/ Perish(w)
     \/ \E w \in Windows \cup {NoWindow} : Focus(w)
     \/ Settle
     \/ Offer
     \/ \E w \in Windows : Pick(w, {}) \/ \E v \in live : Pick(w, {v})
     \/ Dismiss({})
     \/ \E v \in live : Dismiss({v})
     \/ Stop

Spec == Init /\ [][Next]_vars

=============================================================================
