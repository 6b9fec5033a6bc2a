--------------------------- MODULE MCCliCommands ---------------------------
(***************************************************************************)
(* Instances of CliCommands.  Two processes for each kind of command.  The *)
(* tokens of Pkcs11 have labels, PINs and ids with each of the characters  *)
(* that the URIs treat differently.                                        *)
(***************************************************************************)
EXTENDS CliCommands, TLC

Object(id, label, pair) == [id |-> id, label |-> label, pair |-> pair]
Hsm(label, login, pin, objects) ==
    [slot |-> <<"1">>, label |-> label, pin |-> pin, login |-> login, objects |-> objects]

MCHsms == {
    Hsm(<<"a">>, TRUE, <<"1">>, <<Object(<<"1">>, <<"a">>, TRUE), Object(<<"&">>, <<"a">>, TRUE)>>),
    Hsm(<<"a", "+">>, TRUE, <<"+">>,
        <<Object(<< >>, <<"a", "&", "b">>, TRUE), Object(<<"+">>, <<"a">>, FALSE)>>),
    Hsm(<<"a", "&", "b">>, FALSE, <<"1", ";">>,
        <<Object(<< >>, <<"a", " ">>, TRUE), Object(<< >>, << >>, TRUE),
          Object(<<"b">>, <<"+">>, TRUE)>>)}

MCModulePaths == {<<"/", "a">>, <<"/", "+">>}
MCPinsGiven == {<< >>, <<"1">>, <<"+">>, <<"1", ";">>}
MCEnvPin == << >>

Blob(content, platform) == [content |-> content, platform |-> platform]
MCUploads == {<<Blob("x", "")>>, <<Blob("x", "linux/amd64"), Blob("y", "darwin/arm64")>>,
              <<Blob("x", ""), Blob("y", "")>>}

Symmetry == Permutations(Makers)
=============================================================================
