------------------------- MODULE MCIncrementalIndex -------------------------
(* A main file that calls, imports and uses what two libraries define, a   *)
(* file over the size cap and one without a language provider.             *)
EXTENDS IncrementalIndex, TLC

F(f, name) == Node(f, "Function", None, name)
Raw(src, type, name, seg, owner) ==
    [file |-> src.file, src |-> src, type |-> type, name |-> name, seg |-> seg,
     owner |-> owner]
Text(defs, refs, body) ==
    [defs |-> defs, raws |-> refs, body |-> body, big |-> FALSE,
     ok |-> TRUE]
BigText == [defs |-> {}, raws |-> {}, body |-> 0, big |-> TRUE, ok |-> TRUE]

MainRefs ==
    {Raw(F("m", "main"), "CALLS", "x", None, None),
     Raw(F("m", "main"), "USAGE", "y", None, None)}
MainTexts ==
    {Text({F("m", "main")},
          MainRefs \cup {Raw(ModuleNode("m"), "IMPORTS", "x", "a", None),
                         Raw(ModuleNode("m"), "IMPORTS", "b", None, None)}, 1),
     Text({F("m", "main")},
          MainRefs \cup {Raw(F("m", "main"), "CALLS", "z", None, "S")}, 1)}
LibTexts(f) ==
    {Text({F(f, "x"), Node(f, "Struct", None, "y"), Node(f, "Method", "S", "z")},
          {Raw(Node(f, "Struct", None, "y"), "DEFINES_METHOD", "z", None, "S")}, b) :
       b \in 1..2}
BadText == [Text({}, {}, 1) EXCEPT !.ok = FALSE]
OtherTexts(f) ==
    {None, BadText, Text({F(f, "x"), Node(f, "Variable", None, "y")},
          {Raw(F(f, "x"), "CALLS", "main", None, None)}, 1)}

MCFiles == {"m", "a", "b", "g", "t"}
MCWalk == <<"m", "a", "b", "g", "t">>
MCTexts ==
    "m" :> MainTexts @@ "a" :> LibTexts("a") @@ "b" :> OtherTexts("b")
      @@ "g" :> {BigText} @@ "t" :> {Text({}, {}, 1)}
MCStem == [f \in MCFiles |-> f]
MCParent == [x \in MCFiles \cup {"d"} |-> IF x \in {"b", "t"} THEN "d" ELSE Root]
MCAncestors == [f \in MCFiles |-> IF f \in {"b", "t"} THEN {"d"} ELSE {}]
=============================================================================
