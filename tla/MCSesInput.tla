------------------------------ MODULE MCSesInput ------------------------------
EXTENDS SesInput

MCGreeting == <<97>>

\* one byte; text with the beginnings of both end markers in it; three buffers
MCDocs == {<<97>>,
           <<93, 93, 62, 93, 97, 10, 35, 35, 62>>,
           <<97, 98, 99, 100, 101, 102, 103, 104, 105, 106, 93, 93, 107>>}

MCMalformed ==
  {<<97>>, <<10, 97>>, <<10, 35, 48>>, <<10, 35, 35>>, <<10, 35, 10>>,
   <<10, 35, 49, 97>>, <<10, 35, 57, 57, 10>>, <<10, 35, 49, 48, 48, 48>>,
   <<10, 35, 49, 10, 97, 97>>, <<10, 35, 49, 10, 97, 10, 97>>,
   <<10, 35, 49, 10, 97, 10, 35, 48>>, <<10, 35, 49, 10, 97, 10, 35, 35, 97>>}
=============================================================================
