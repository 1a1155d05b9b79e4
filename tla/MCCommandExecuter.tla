------------------------- MODULE MCCommandExecuter -------------------------
EXTENDS CommandExecuter

\* command_timeout / timeout None or two poll timeouts; terminated_timeout
\* None or one.
MCCommandTimeouts == {NoTimeout, 2}
MCTerminatedTimeouts == {NoTimeout, 1}

\* A write is a bare "a", a bare "\n" or a whole line "a\n".
MCChunks == {<<"a">>, <<"\n">>, <<"a", "\n">>}
====
