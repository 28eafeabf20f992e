------------------------------ MODULE MCDialogs ------------------------------
(* Model-checking instance of Forms and of Shell.  They share no state, so   *)
(* the run lets one move only while the other is as it was at first: it      *)
(* finds each one's states, and not all pairs of them.                       *)
EXTENDS Forms, Shell, TLC

MCTree == {<<>>, <<"home">>, <<"srv">>}
MCMatches == [all |-> {"home", "settings", "asset", "job"}, as |-> {"asset"}, s |-> {"settings", "asset"}]
DialogSymmetry == Permutations(Loads) \cup Permutations(Messages)

formsVars == <<formVars, pickerVars>>
shellVars == <<noteVars, toastVars, paletteVars>>

DialogsInit == FormsInit /\ ShellInit
DialogsNext ==
    \/ FormsNext /\ ShellInit /\ UNCHANGED shellVars
    \/ ShellNext /\ FormsInit /\ UNCHANGED formsVars
DialogsSpec == DialogsInit /\ [][DialogsNext]_<<formsVars, shellVars>>
=============================================================================
