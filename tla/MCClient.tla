--------------------------------- MODULE MCClient ---------------------------------
(***************************************************************************)
(* Lines for ClientProperties: a text, an empty line, commands with and    *)
(* without an argument, shorter and longer than what was typed before.     *)
(***************************************************************************)
EXTENDS ClientProperties

CONSTANT x

MCLines ==
  {Text(0), Text(2)}
    \cup {Command("join", x), Command("switch", x), Command("leave", NoArg),
          Command("switch", Blank), Command("list", NoArg), Command("exit", NoArg)}

ExitLines == {Text(2), Command("exit", NoArg)}

================================================================================
