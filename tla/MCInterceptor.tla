--------------------------- MODULE MCInterceptor ---------------------------
EXTENDS Interceptor

CONSTANTS ctrl, a, d1

MC_ServerUpdate ==
    {SetKeyState(d1, {}), SetKeyState(d1, {ctrl, a}), Events(d1, <<press(a)>>)}
=============================================================================
