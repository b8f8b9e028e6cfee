---------------------------- MODULE MCLlmStream ----------------------------
\* Answers of two or three events, with a thought, an error or the repetition
\* that ends Coze's answers.
EXTENDS LlmStream

MCAnswers == [Openai |-> {<<"text", "text">>, <<"open", "text", "close">>},
              Dify   |-> {<<"text", "text">>, <<"text", "error">>},
              CozeV3 |-> {<<"delta", "delta">>, <<"delta", "completed">>, <<"chat", "delta", "done">>}]
=============================================================================
