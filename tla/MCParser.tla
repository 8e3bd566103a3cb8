------------------------------ MODULE MCParser ------------------------------
(* Families of inputs for the parser. *)
EXTENDS ParseTree

MCStrings == [
    \* The start of an item, and its end.
    expr    |-> {<<"act", "x", "(", ")", "->">>},
    block   |-> {<<"act", "x", "(", ")", "{">>},
    match   |-> {<<"act", "x", "(", ")", "->", "match", "x", "{">>},
    alias   |-> {<<"alias", "x", "=">>},
    fn      |-> {<<"act", "x", "(">>},
    arm     |-> {<<"if", "x", "->", "x", "}">>},
    close   |-> {<<"}">>},
    value   |-> {<<>>, <<"x">>},
    \* Operands with what binds to them, and operators.
    x       |-> {<<"x">>},
    operand |-> {<<"x">>, <<"-", "x">>, <<"x", "?">>},
    tight   |-> {<<"x", "as", "y">>, <<"-", "x", ".", "y">>, <<"&", "x", "(", ")">>,
                 <<"(", "int", "+", "x", ")">>, <<"|", "y", "|", "x">>},
    op      |-> {<<"+">>, <<"*">>, <<"**">>, <<"=">>, <<"..">>, <<"==">>},
    someop  |-> {<<"+">>, <<"**">>, <<"=">>},
    anyop   |-> {<<op>> : op \in BinOps \cup AssignOps},
    postfix |-> {<<".", "y">>, <<".", "await">>, <<".", "y", "(">>, <<"(", "x", ",">>,
                 <<"[", "int">>, <<"?">>, <<"as", "vec", "[", "y", "]">>, <<"is", "(", "y", ")">>,
                 <<")">>, <<"]">>, <<".", "int">>},
    type    |-> {<<"y">>, <<"void">>, <<"Self">>, <<"&">>, <<"(">>, <<")">>, <<",", "y">>, <<"[">>,
                 <<";", "int", "]">>, <<"]">>, <<"|", "y">>, <<"|", "->">>, <<"vec", "[">>, <<"int">>},
    \* Primary expressions: how they start, go on and end.
    head    |-> {<<"x">>, <<"x", "{">>, <<"vec", "[">>, <<"map", "[">>, <<"[">>, <<"(">>, <<"{">>,
                 <<"if">>, <<"if", "let">>, <<"match">>, <<"|">>, <<"unsafe">>, <<"label", ":">>,
                 <<"fork", "{">>, <<"fork", "loop">>, <<"(", ")">>, <<"|", "x", "|">>,
                 <<"if", "int", "{", "}", "else">>, <<"loop">>, <<"loop", "let">>, <<"ret">>,
                 <<"break", "label">>, <<"next">>},
    middle  |-> {<<"x">>, <<"y", ":", "int">>, <<"..", "x">>, <<"x", "<", "-", "x">>, <<"x", "in", "y">>,
                 <<"x", "=", "y">>, <<"x", "{", "_", "->", "x">>, <<"loop", "{", "}">>,
                 <<"if", "int", "{", "}">>, <<"{", "}">>},
    tail    |-> {<<"]">>, <<"}">>, <<")">>, <<"|", "x">>, <<"else">>, <<"if", "x">>, <<"{", "}">>, <<",">>},
    \* Statements, those whose attempt succeeds and those whose attempt is undone.
    stmt    |-> {<<"x">>, <<"int">>, <<"(", "x", ")">>, <<"(", "int", ",", "x", ")">>,
                 <<"{", "x", "}">>, <<"{", "int", "}">>, <<"{", "x", ":", "y", ",", "_", "}">>,
                 <<":=">>, <<"loop">>, <<"in">>, <<"}">>},
    rare    |-> {<<"mut", "x", ":", "y", "=">>, <<"const", "x", ":">>, <<"shared", "x", "=">>, <<"ret">>,
                 <<"defer">>, <<"guard">>, <<"x">>, <<"else">>, <<"alias", "x", "=">>, <<"{", "}">>},
    pat     |-> {<<"x">>, <<"_">>, <<"true">>, <<"int">>, <<"..", "int">>, <<"(">>, <<")">>,
                 <<"{", "x">>, <<":">>, <<"}">>, <<",">>, <<"some", "(">>, <<"none">>,
                 <<"x", ".", "y">>, <<"x", ".", "y", "{", "x", ":">>, <<"|">>, <<"-">>},
    \* Items, and pieces of them for recovery to stop at.
    piece   |-> {<<"act">>, <<"struct">>, <<"enum">>, <<"trait">>, <<"impl">>, <<"alias">>,
                 <<"use">>, <<"pub">>, <<"const">>, <<"shared">>, <<"async">>, <<"@">>, <<"doc">>,
                 <<"x">>, <<"(", ")">>, <<"{", "}">>, <<"=", "y">>, <<":", "y">>},
    sign    |-> {<<"x">>, <<"mut", "x">>, <<"self">>, <<"_">>, <<":", "y">>, <<",">>, <<")">>,
                 <<")", "where", "x">>, <<"+", "y">>, <<"->", "int">>},
    data    |-> {<<"struct", "x">>, <<"enum", "x", "[", "y">>, <<"enum", "x", "{">>},
    field   |-> {<<"x">>, <<"@", "x", "[", "str", ",">>, <<"x", ":", "int", "]">>, <<"pub", "(", "x", ")">>,
                 <<")">>, <<":", "y">>, <<",">>, <<"(">>, <<"{">>, <<"}">>, <<"]", "{">>},
    define  |-> {<<"trait", "x">>, <<"impl", "x">>, <<"use">>, <<"impl", "x", "{">>, <<"use", "x">>,
                 <<"const", "x">>},
    member  |-> {<<"x">>, <<":", "y">>, <<",">>, <<"{">>, <<"}">>, <<"act", "x", "(", ")">>, <<"for", "y">>,
                 <<"as", "y">>, <<".", "y">>, <<"~", ".">>, <<"=", "int">>}]

MCInputs == {
    <<"expr", "operand", "op", "operand", "op", "operand">>,
    <<"expr", "tight", "op", "tight", "someop", "tight">>,
    <<"expr", "x", "anyop", "x", "anyop", "x">>,
    <<"expr", "x", "postfix", "postfix", "postfix">>,
    <<"alias", "type", "type", "type">>,
    <<"expr", "head", "middle", "tail", "tail">>,
    <<"block", "stmt", "stmt", "stmt", "value", "close">>,
    <<"block", "rare", "rare", "rare", "close">>,
    <<"match", "pat", "pat", "pat", "arm">>,
    <<"piece", "piece", "piece">>,
    <<"fn", "sign", "sign", "sign", "sign">>,
    <<"data", "field", "field", "field">>,
    <<"define", "member", "member", "member">>}
=============================================================================
