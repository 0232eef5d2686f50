---------------------------- MODULE DispatchArgs ----------------------------
(***************************************************************************)
(* The arguments of mru:cycle (dispatch_args.cpp), as the host and the Lua *)
(* bridge (plugin_lua_bridge.cpp) hand them over: a sequence of tokens,    *)
(* what is between white space.                                            *)
(***************************************************************************)
EXTENDS Integers, Sequences, SequencesExt

DirectionTokens == {"next", "prev"}
ScopeTokens     == {"global", "monitor", "workspace", "visible", "app"}

Parsed(dir, scope) == [ok |-> TRUE, dir |-> dir, scope |-> scope, error |-> "none"]
Refused(error)     == [ok |-> FALSE, dir |-> "next", scope |-> "default", error |-> error]

(* Fault: the scope comes first, and what follows is the direction.        *)
ParseScopeFirst(toks) ==
  LET rest == IF toks # <<>> /\ Head(toks) \in ScopeTokens THEN Tail(toks) ELSE toks
  IN  IF Len(rest) > 1 THEN Refused("too many arguments")
      ELSE Parsed(IF rest = <<>> THEN "next" ELSE Head(rest),
                  IF rest = toks THEN "default" ELSE Head(toks))

(* parse_cycle_args(): a direction may come first, then a scope; a token   *)
(* in the place of the scope that is none is an error of its own.          *)
ParseCycleArgs(toks) ==
  LET rest == IF toks # <<>> /\ Head(toks) \in DirectionTokens THEN Tail(toks) ELSE toks
      dir  == IF rest = toks THEN "next" ELSE Head(toks)
  IN  CASE rest = <<>>                                       -> Parsed(dir, "default")
        [] rest # <<>> /\ Head(rest) \notin ScopeTokens        -> Refused("unknown scope token")
        [] Len(rest) = 1 /\ Head(rest) \in ScopeTokens         -> Parsed(dir, Head(rest))
        [] Len(rest) > 1 /\ Head(rest) \in ScopeTokens         -> Refused("too many arguments")

(* lua_cycle(): every argument a string, which may hold several tokens or  *)
(* none; they are joined with spaces.  NoString is any other argument.     *)
NoString == <<"", "">>

LuaCycle(args) ==
  IF NoString \in Range(args) THEN Refused("argument must be a string")
  ELSE ParseCycleArgs(FlattenSeq(args))
=============================================================================
