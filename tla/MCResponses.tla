---------------------------- MODULE MCResponses ----------------------------
(* Values, types and commands for model checking Responses. *)
EXTENDS Responses

Slice(e)  == Val("slice", "", 0, e)
Map(e)    == Val("map", "", 0, e)
Bool(n)   == Val("bool", "", n, <<>>)
UInt(n)   == Val("uint", "", n, <<>>)
Float(w)  == Val("float", w, 1, <<>>)
Error     == Val("error", "ERR", 0, <<>>)
Struct    == Val("struct", "", 0, <<>>)

IntT(b)   == Typ("int", b, <<>>)
UIntT(b)  == Typ("uint", b, <<>>)
Simple(k) == Typ(k, 0, <<>>)
SliceT(t) == Typ("slice", 0, <<t>>)
MapT(k, v) == Typ("map", 0, <<k, v>>)

\* The numbers around the limits of 3 and of Width bits.
Edges == {-(2^(Width - 1)), -5, -4, -1, 0, 1, 3, 4, 7, 8, 2^(Width - 1) - 1}

Scalars == {Int64(n) : n \in Edges} \cup {UInt(2^(Width - 1)), UInt(2^Width - 1)}
             \cup {Str("num", n) : n \in Edges}
             \cup {Nil, Error, Str("foo", 0), Str("OK", 0), Bool(0), Bool(1),
                   Val("bytes", "foo", 0, <<>>), Float("num"), Float("frac"),
                   Val("custom", "foo", 0, <<>>), Struct}
Compounds == {Slice(<<>>), Slice(<<Int64(1), Int64(4)>>),
              Slice(<<Str("foo", 0), Error, Int64(1)>>),
              Slice(<<Slice(<<Int64(1)>>), Slice(<<>>)>>),
              Slice(<<Str("foo", 0), Nil>>),
              Map(<<>>), Map(<<Pair(Str("foo", 0), Int64(1)),
                               Pair(Str("bar", 0), Int64(2))>>),
              Map(<<Pair(Str("foo", 0), Slice(<<Int64(1)>>))>>)}

ScalarTypes == {IntT(3), IntT(Width), UIntT(3), UIntT(Width)}
                 \cup {Simple(k) : k \in {"string", "bytes", "bool", "float",
                        "iface", "named", "struct", "bad", "nil", "null"}}
CompoundTypes == {SliceT(IntT(Width)), SliceT(Simple("string")),
                  SliceT(SliceT(IntT(3))), MapT(Simple("string"), IntT(Width)),
                  MapT(Simple("string"), SliceT(IntT(Width))),
                  MapT(IntT(Width), IntT(Width))}

AllValues == Scalars \cup Compounds
AllTypes  == ScalarTypes \cup CompoundTypes
OneType   == {Simple("iface")}
NullType  == {Simple("null")}
Nullable  == {Nil, Str("foo", 0)}
WithStruct == {Slice(<<Struct>>), Struct}

MCWords    == {"get", "GET", "foo"}
MCLower    == [w \in MCWords |-> IF w = "GET" THEN "get" ELSE w]
MCSubs     == [w \in {"get"} |-> "echo"]
MCCommands == <<2, 0>>
=============================================================================
