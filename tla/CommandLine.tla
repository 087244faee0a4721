---------------------------- MODULE CommandLine ----------------------------
(***************************************************************************)
(* io::arg::ParseArgs: the arguments after the program name, from left to  *)
(* right, into a record of settings, or the first error.                   *)
(*                                                                         *)
(* A token is what SplitOption makes of an argument: the option before the *)
(* first '=' and the value after it, Empty if there is none.  An argument  *)
(* that is no option, "-x" or "out.json", is an option of no table.        *)
(***************************************************************************)
EXTENDS Integers, Sequences

CONSTANTS Empty,    \* the empty value or path
          Rejected  \* the error

\* The two settings of a switch.
On == TRUE
Off == FALSE

\* kFlags and SetBoolFlag: the field an option without a value sets, and how.
BoolFlags ==
    {[option |-> "-h",            field |-> "show_help",        value |-> On],
     [option |-> "--help",        field |-> "show_help",        value |-> On],
     [option |-> "--full-info",   field |-> "is_full_info",     value |-> On],
     [option |-> "--short",       field |-> "is_full_info",     value |-> Off],
     [option |-> "--console",     field |-> "write_console",    value |-> On],
     [option |-> "--no-console",  field |-> "write_console",    value |-> Off],
     [option |-> "--json",        field |-> "write_json",       value |-> On],
     [option |-> "--no-json",     field |-> "write_json",       value |-> Off],
     [option |-> "--yaml",        field |-> "write_yaml",       value |-> On],
     [option |-> "--no-yaml",     field |-> "write_yaml",       value |-> Off],
     [option |-> "--all-recipes", field |-> "recipe_selection", value |-> "All"],
     [option |-> "--cookable",    field |-> "recipe_selection", value |-> "Cookable"]}

\* kFlags and SetValueFlag.
ValueFlags ==
    {[option |-> "--json-out",      field |-> "json_out_path"],
     [option |-> "--yaml-out",      field |-> "yaml_out_path"],
     [option |-> "--db-path",       field |-> "db_path"],
     [option |-> "--server-config", field |-> "server_config_path"]}

\* Accepted for compatibility; they set nothing.
Commands == {"--add-products", "--add-recipes", "--list-products", "--list-recipes"}

OptionsOf(flags) == {f.option : f \in flags}

FlagOf(flags, option) == CHOOSE f \in flags : f.option = option

\* Args, as constructed.
Defaults ==
    [show_help |-> Off, recipe_selection |-> "All", db_path |-> "data/table.db",
     server_config_path |-> Empty, is_full_info |-> On, write_console |-> On,
     write_json |-> On, write_yaml |-> On,
     json_out_path |-> "out/info.json", yaml_out_path |-> "out/info.yaml"]

IsValidToken(token) ==
    \/ token.option \in OptionsOf(ValueFlags) /\ token.value # Empty
    \/ token.option \in OptionsOf(BoolFlags) \cup Commands /\ token.value = Empty

SetBoolFlag(args, token) ==
    LET flag == FlagOf(BoolFlags, token.option) IN [args EXCEPT ![flag.field] = flag.value]

\* Nobody compares the two output paths.
SetValueFlag_Unchecked(args, token) ==
    [args EXCEPT ![FlagOf(ValueFlags, token.option).field] = token.value]

\* The output paths are compared after every value, not at the end: a list may
\* be rejected for a pair that a later value would have parted.
SetValueFlag(args, token) ==
    LET set == [args EXCEPT ![FlagOf(ValueFlags, token.option).field] = token.value]
    IN IF set.json_out_path = set.yaml_out_path THEN Rejected ELSE set

\* One turn of the loop.
ParseToken(args, token) ==
    CASE ~IsValidToken(token)                      -> Rejected
      [] IsValidToken(token) /\ token.option \in OptionsOf(ValueFlags) -> SetValueFlag(args, token)
      [] IsValidToken(token) /\ token.option \in OptionsOf(BoolFlags)  -> SetBoolFlag(args, token)
      [] OTHER                                     -> args

ParseArgs(argv) ==
    LET parsed[n \in 0 .. Len(argv)] ==
            IF n = 0 THEN Defaults
            ELSE IF parsed[n - 1] = Rejected THEN Rejected
            ELSE ParseToken(parsed[n - 1], argv[n])
    IN parsed[Len(argv)]
-----------------------------------------------------------------------------
(* The same without a loop: what a list of arguments says.                 *)

\* The last value given to a field by the first n arguments.
LastGiven(argv, n, flags, field) ==
    LET at == {i \in 1 .. n : \E f \in flags : f.option = argv[i].option /\ f.field = field}
    IN IF at = {} THEN 0 ELSE CHOOSE i \in at : \A k \in at : k <= i

PathGiven(argv, n, field) ==
    LET i == LastGiven(argv, n, ValueFlags, field)
    IN IF i = 0 THEN Defaults[field] ELSE argv[i].value

SwitchGiven(argv, n, field) ==
    LET i == LastGiven(argv, n, BoolFlags, field)
    IN IF i = 0 THEN Defaults[field] ELSE FlagOf(BoolFlags, argv[i].option).value

\* Every argument is an option in its right form, and at no point both reports
\* would go to one file: the form of BuildUsage, Args.cpp:225-249.  README.md:168-206
\* shows --full and "--db-path <path>", which this form does not allow.
WellFormed(argv) ==
    /\ \A i \in DOMAIN argv : IsValidToken(argv[i])
    /\ \A n \in DOMAIN argv : PathGiven(argv, n, "json_out_path") # PathGiven(argv, n, "yaml_out_path")

\* What the first n arguments of a well-formed list ask for: of contradicting
\* options the last wins.
SettingsAfter(argv, n) ==
    [field \in DOMAIN Defaults |->
        IF \E f \in ValueFlags : f.field = field
        THEN PathGiven(argv, n, field)
        ELSE SwitchGiven(argv, n, field)]

Settings(argv) == SettingsAfter(argv, Len(argv))
=============================================================================
